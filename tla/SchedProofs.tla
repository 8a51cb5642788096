---------------------------- MODULE SchedProofs ----------------------------
(***************************************************************************)
(* IInv (SchedInv) is an inductive invariant of Sched for any threads, any *)
(* bounds and every interleaving of irq0 that WellMasked allows; the       *)
(* safety properties of Sched follow from it.                              *)
(***************************************************************************)
EXTENDS SchedInv, SchedRR, TLAPS

USE SchedAssumption

\* The empty registers are registers.
LEMMA NoRegType == NoReg \in Reg
  BY DEF NoReg, Reg, NoPtr, Ptr, ThreadOrNull, Stack, Links

\* A struct context built by swtch() or thread_init_context() is a frame.
LEMMA SwFrameType == \A p \in PC, i \in BOOLEAN : SwFrame(p, i) \in Frame
  BY NoRegType DEF SwFrame, Frame

\* A dead stack slot is a frame.
LEMMA NoFrameType == NoFrame \in Frame
  BY NoRegType DEF NoFrame, Frame, PC

-----------------------------------------------------------------------------
(***************************************************************************)
(* Every step keeps the types.                                             *)
(***************************************************************************)
\* A request of the pit keeps the types.
LEMMA PitFireType == IInv /\ PitFire => TypeOK'
  BY DEF IInv, TypeOK, At, kern, segs, cpu, dev, PitFire, Created

\* The end of interrupt keeps the types.
LEMMA IrqEoiType == IInv /\ IrqEoi => TypeOK'
  BY DEF IInv, TypeOK, At, kern, segs, cpu, dev, IrqEoi, Created, PC

\* hardclock() keeps the types.
LEMMA HardclockType == IInv /\ Hardclock => TypeOK'
BY DEF IInv, TypeOK, At, kern, segs, cpu, dev, Hardclock, Created, PC, Reg,
      Links

\* sti() keeps the types.
LEMMA StiType == IInv /\ Sti => TypeOK'
  BY DEF IInv, TypeOK, At, kern, segs, cpu, dev, Sti, Created, PC

\* scheduler_start() keeps the types: its `to' is the head of the queue.
LEMMA SchedulerStartType == IInv /\ SchedulerStart => TypeOK'
 <1> USE DEF IInv, TypeOK, At, kern, segs, cpu, dev
 <1> SUFFICES ASSUME IInv, SchedulerStart PROVE TypeOK' OBVIOUS
 <1>1. reg' \in Reg
  <2>1. CASE run_queue = NULL BY <2>1 DEF SchedulerStart
  <2>2. CASE run_queue # NULL
    <3>1. reg' = [reg EXCEPT !.to = run_queue, !.link = "start_ret"] BY <2>2 DEF SchedulerStart
    <3> QED BY <3>1 DEF Reg, Links
  <2> QED BY <2>1, <2>2
 <1>2. pc' \in PC BY DEF SchedulerStart, PC, SwitchPCs
 <1> QED BY <1>1, <1>2 DEF SchedulerStart, Created

\* yield() keeps the types: it returns, or picks next[current].
LEMMA YieldEnterType == IInv /\ YieldEnter => TypeOK'
 <1> USE DEF IInv, TypeOK, At, kern, segs, cpu, dev
 <1> SUFFICES ASSUME IInv, YieldEnter PROVE TypeOK' OBVIOUS
 <1>0. current # NULL => next[current] \in ThreadOrNull BY DEF ThreadOrNull
 <1>1. reg' \in Reg
  <2>1. CASE current = NULL \/ next[current] = current BY <2>1 DEF YieldEnter
  <2>2. CASE current # NULL /\ next[current] # current
    <3>1. reg' = [reg EXCEPT !.prev = current, !.to = next[current]] BY <2>2 DEF YieldEnter
    <3> QED BY <3>1, <1>0, <2>2 DEF Reg
  <2> QED BY <2>1, <2>2
 <1>2. pc' \in PC BY DEF YieldEnter, PC, Links, Reg, ControlInv, CallerInv
 <1> QED BY <1>1, <1>2 DEF YieldEnter, Created

\* yield() marks an existing thread READY, so the types are kept.
LEMMA YieldReadyType == IInv /\ YieldReady => TypeOK'
 <1> USE DEF IInv, TypeOK, At, kern, segs, cpu, dev
 <1> SUFFICES ASSUME IInv, YieldReady PROVE TypeOK' OBVIOUS
 <1>1. reg.prev \in Created BY DEF YieldReady, ControlInv, RegInv, Leaving, SwitchCode, BootInv, CurrentInv, Handler
 <1> QED BY <1>1 DEF YieldReady, Created, PC, SwitchPCs

\* switch_to() marks an existing thread RUNNING, so the types are kept.
LEMMA SwitchStateType == IInv /\ SwitchState => TypeOK'
 <1> USE DEF IInv, TypeOK, At, kern, segs, cpu, dev
 <1> SUFFICES ASSUME IInv, SwitchState PROVE TypeOK' OBVIOUS
 <1>1. reg.to \in Created BY DEF SwitchState, ControlInv, RegInv, Leaving, SwitchCode
 <1> QED BY <1>1 DEF SwitchState, Created, PC, SwitchPCs

\* `current = t' keeps the types.
LEMMA SwitchCurrentType == IInv /\ SwitchCurrent => TypeOK'
BY DEF IInv, TypeOK, At, kern, segs, cpu, dev, SwitchCurrent, Created, PC,
      SwitchPCs, Window, Reg

\* tss_set_kstack() keeps the types.
LEMMA SwitchTssType == IInv /\ SwitchTss => TypeOK'
BY DEF IInv, TypeOK, At, kern, segs, cpu, dev, SwitchTss, Created, PC,
      SwitchPCs, Window, Reg

\* Reading current->context keeps the types: `current' is a thread there.
LEMMA SwitchArgType == IInv /\ SwitchArg => TypeOK'
 <1> USE DEF IInv, TypeOK, At, kern, segs, cpu, dev
 <1> SUFFICES ASSUME IInv, SwitchArg PROVE TypeOK' OBVIOUS
 <1>1. current \in Created BY DEF SwitchArg, ControlInv, RegInv, Leaving, SwitchCode, CurrentInv, Window
 <1>2. reg' \in Reg BY <1>1 DEF SwitchArg, Reg, Created
 <1> QED BY <1>2 DEF SwitchArg, Created, PC, SwitchPCs, Window

\* Pushing the context keeps the types: the kernel stack has room for it.
LEMMA SwtchSaveType == IInv /\ SwtchSave => TypeOK'
 <1> USE DEF IInv, TypeOK, At, kern, segs, cpu, dev
 <1> SUFFICES ASSUME IInv, SwtchSave PROVE TypeOK' OBVIOUS
 <1>1. sp + 1 \in 1..MaxDepth
   BY DEF SwtchSave, ControlInv, CallerInv, SwitchCode, StacksInv, StackInv, FrameInv, BootInv, Handler
 <1>2. [stk |-> stk, depth |-> sp + 1] \in Ptr BY <1>1 DEF Ptr
 <1>3. reg.link \in PC BY DEF SwtchSave, PC, Links, ControlInv, CallerInv, SwitchCode
 <1>4. SwFrame(reg.link, intr) \in Frame BY SwFrameType, <1>3
 <1>5. mem' \in [Stack -> [1 .. MaxDepth -> Frame]] BY <1>1, <1>4 DEF SwtchSave
 <1>6. context' \in [Thread -> Ptr] BY <1>2 DEF SwtchSave
 <1>7. pc' \in PC BY DEF SwtchSave, PC, SwitchPCs, Window
 <1> QED BY <1>1, <1>5, <1>6, <1>7 DEF SwtchSave, Created

\* Loading esp keeps the types.
LEMMA SwtchLoadType == IInv /\ SwtchLoad => TypeOK'
BY NoRegType DEF IInv, TypeOK, At, kern, segs, cpu, dev, SwtchLoad, Created,
      PC, SwitchPCs, Reg, Ptr

\* Popping a context keeps the types.
LEMMA SwtchRetType == IInv /\ SwtchRet => TypeOK'
 <1> USE DEF IInv, TypeOK, At, kern, segs, cpu, dev
 <1> SUFFICES ASSUME IInv, SwtchRet PROVE TypeOK' OBVIOUS
 <1>1. Popped \in [Stack -> [1 .. MaxDepth -> Frame]] BY NoFrameType DEF Popped
 <1>2. sp # 0 => mem[stk][sp] \in Frame OBVIOUS
 <1> QED BY <1>1, <1>2 DEF SwtchRet, Created, Frame, PC

\* thread_trampoline() keeps the types.
LEMMA TrampolineType == IInv /\ Trampoline => TypeOK'
  BY DEF IInv, TypeOK, At, kern, segs, cpu, dev, Trampoline, Created, PC

\* The steps of the thread's loop and of vklog() keep the types.
LEMMA KlogType == IInv /\ (Body \/ KlogCli \/ KlogOn \/ KlogOff ) => TypeOK'
BY DEF IInv, TypeOK, At, kern, segs, cpu, dev, Body, KlogCli, KlogOn, KlogOff,
      Created, PC, KlogPCs

\* The return of yield() keeps the types.
LEMMA YieldReturnType == IInv /\ YieldReturn => TypeOK'
BY NoRegType DEF IInv, TypeOK, At, kern, segs, cpu, dev, YieldReturn, Created,
      PC

\* sti_restore() at the end of vklog() keeps the types.
LEMMA KlogRstType == IInv /\ KlogRst => TypeOK'
 <1> USE DEF IInv, TypeOK, At, kern, segs, cpu, dev
 <1> SUFFICES ASSUME IInv, KlogRst PROVE TypeOK' OBVIOUS
 <1>1. [NoReg EXCEPT !.link = "thr_ret"] \in Reg BY NoRegType DEF Reg, Links
 <1> QED BY <1>1 DEF KlogRst, Created, PC

\* The iret of the interrupt stub keeps the types.
LEMMA IretType == IInv /\ Iret => TypeOK'
 <1> USE DEF IInv, TypeOK, At, kern, segs, cpu, dev
 <1> SUFFICES ASSUME IInv, Iret PROVE TypeOK' OBVIOUS
 <1>1. Popped \in [Stack -> [1 .. MaxDepth -> Frame]] BY NoFrameType DEF Popped
 <1>2. sp # 0 => mem[stk][sp] \in Frame OBVIOUS
 <1>3. ds' \in {"KDATA", "UDATA", "null"} BY DEF Iret, AfterIret
 <1> QED BY <1>1, <1>2, <1>3 DEF Iret, Created, Frame, PC

\* The interrupt gate keeps the types: the stack it pushes on has room.
LEMMA TakeIrqType == IInv /\ TakeIrq => TypeOK'
 <1> USE DEF IInv, TypeOK, At, kern, segs, cpu, dev
 <1> SUFFICES ASSUME IInv, TakeIrq PROVE TypeOK' OBVIOUS
 <1> DEFINE s == IF ring = 3 THEN esp0 ELSE stk
            d == IF ring = 3 THEN 1 ELSE sp + 1
            f == [kind |-> "irq", pc |-> pc, intr |-> intr, ring |-> ring, reg |-> reg]
 <1>1. s \in Stack BY DEF UserInv, ControlInv, ThreadCode, CurrentInv, Window, Stack
 <1>2. d \in 1..MaxDepth BY DEF TakeIrq, IrqReady
 <1>3. f \in Frame BY DEF Frame
 <1>4. mem' = [mem EXCEPT ![s][d] = f] BY DEF TakeIrq
 <1>5. mem' \in [Stack -> [1 .. MaxDepth -> Frame]] BY <1>1, <1>2, <1>3, <1>4
 <1>6. sp' \in 0 .. MaxDepth BY <1>2 DEF TakeIrq
 <1>7. stk' \in Stack BY <1>1 DEF TakeIrq
 <1> QED BY <1>5, <1>6, <1>7, NoRegType DEF TakeIrq, Created, PC

\* thread_create() keeps the types, and gives the new thread a successor.
LEMMA ThreadCreateType == ASSUME IInv, NEW t \in Thread, ThreadCreate(t) PROVE TypeOK'
 <1> USE DEF IInv, TypeOK, At, kern, segs, cpu, dev
 <1>1. SwFrame("tramp", TRUE) \in Frame BY SwFrameType DEF PC
 <1>2. [stk |-> t, depth |-> 1] \in Ptr BY DEF Ptr, Stack
 <1>3. mem' \in [Stack -> [1 .. MaxDepth -> Frame]] BY <1>1 DEF ThreadCreate, Stack
 <1>4. state' \in [Thread -> {"none", "READY", "RUNNING"}] BY DEF ThreadCreate
 <1>0. t \in ThreadOrNull /\ (run_queue # NULL => run_queue \in Thread /\ next[run_queue] \in ThreadOrNull)
    BY DEF ThreadOrNull
 <1>5. next' \in [Thread -> ThreadOrNull] /\ run_queue' \in ThreadOrNull
   <2>1. next \in [Thread -> ThreadOrNull] /\ run_queue \in ThreadOrNull OBVIOUS
   <2>2. CASE run_queue = NULL BY <2>1, <2>2, <1>0 DEF ThreadCreate
   <2>3. CASE run_queue # NULL
     <3>1. next' = [next EXCEPT ![t] = next[run_queue], ![run_queue] = t] /\ run_queue' = run_queue
        BY <2>3 DEF ThreadCreate
     <3> QED BY ONLY <1>0, <2>1, <2>3, <3>1
   <2> QED BY <2>2, <2>3
 <1>6. \A x \in Created' : next'[x] # NULL BY DEF ThreadCreate, QueueInv, Created, ThreadOrNull
 <1> QED BY <1>2, <1>3, <1>4, <1>5, <1>6 DEF ThreadCreate

-----------------------------------------------------------------------------
(***************************************************************************)
(* The steps that move between stacks.                                     *)
(***************************************************************************)
\* A frame that a step leaves in memory, with the one below it, stays explained
\* by it.
LEMMA FrameKept ==
  ASSUME NEW s \in Stack, NEW e \in Nat, FrameInv(s, e),
         mem'[s][e] = mem[s][e], e > 1 => mem'[s][e - 1] = mem[s][e - 1],
         Created \subseteq Created', ds = "UDATA" => ds' = "UDATA"
  PROVE  FrameInv(s, e)'
  BY DEF FrameInv, FrameOK, RegInv, Leaving

\* A change of thread states in a switch creates and removes no thread.
LEMMA SwitchQueue == IInv /\ (YieldReady \/ SwitchState) => QueueInv'
 <1> USE DEF At, kern, segs, cpu, dev
 <1> SUFFICES ASSUME IInv, YieldReady \/ SwitchState PROVE QueueInv' OBVIOUS
 <1>1. Created' = Created
   <2>1. CASE YieldReady BY <2>1 DEF YieldReady, IInv, TypeOK, Created, ControlInv, RegInv, Leaving, SwitchCode, BootInv, CurrentInv, Handler
   <2>2. CASE SwitchState BY <2>2 DEF SwitchState, IInv, TypeOK, Created, ControlInv, RegInv, Leaving, SwitchCode
   <2> QED BY <2>1, <2>2
 <1> QED BY <1>1 DEF YieldReady, SwitchState, IInv, QueueInv

\* yield() either returns to its caller or leaves for another thread.
LEMMA YieldEnterControl == IInv /\ YieldEnter => ControlInv'
 <1> USE DEF At, kern, segs, cpu, dev
 <1> SUFFICES ASSUME IInv, YieldEnter PROVE ControlInv' OBVIOUS
 <1>1. CallerInv(sp) /\ UNCHANGED <<intr, sp, stk, mem, context, state>>
   BY DEF IInv, YieldEnter, ControlInv, SwitchCode
 <1>2. CASE pc' = "y_ready"
   <2>0. current # NULL /\ next[current] # current BY <1>2, <1>1 DEF YieldEnter, CallerInv, IInv, TypeOK, Reg, Links
   <2>a. reg' = [reg EXCEPT !.prev = current, !.to = next[current]] BY <2>0 DEF YieldEnter
   <2>b. reg'.prev = current /\ reg'.to = next[current] /\ reg'.link = reg.link
     BY <2>a DEF IInv, TypeOK, Reg
   <2>c. current = stk /\ stk # BOOT /\ stk \in Created /\ next[stk] \in Created
     BY <2>0 DEF YieldEnter, IInv, CurrentInv, QueueInv, Window
   <2>d. Created' = Created BY <1>1 DEF Created
   <2>1. Leaving(stk, reg)' BY <1>1, <2>0, <2>b, <2>c, <2>d DEF Leaving
   <2>2. CallerInv(sp)' BY <1>1, <2>b DEF CallerInv
   <2> QED BY <1>2, <2>1, <2>2 DEF ControlInv, RegInv, ThreadCode, Handler, SwitchCode, KlogPCs, NoWildJump
 <1>3. CASE pc' # "y_ready"
   <2>1. pc' = reg.link /\ reg' = reg BY <1>3 DEF YieldEnter
   <2>2. reg.link \in {"thr_ret", "irq_ret"}
     BY <2>1 DEF YieldEnter, IInv, ControlInv, CallerInv, BootInv, Handler, SwitchCode
   <2>3. reg.link = "thr_ret" => stk # BOOT BY <1>1 DEF CallerInv
   <2> QED BY <1>1, <2>1, <2>2, <2>3 DEF ControlInv, CallerInv, RegInv, ThreadCode, Handler, SwitchCode, KlogPCs, NoWildJump
 <1> QED BY <1>2, <1>3

\* scheduler_start() leaves the boot stack for a thread that exists.
LEMMA SchedulerStartControl == IInv /\ SchedulerStart => ControlInv' /\ BootInv'
 <1> USE DEF At, kern, segs, cpu, dev
 <1> SUFFICES ASSUME IInv, SchedulerStart PROVE ControlInv' /\ BootInv' OBVIOUS
 <1>1. /\ pc = "start" /\ stk = BOOT /\ sp = 0 /\ intr /\ run_queue # NULL /\ reg.prev = NULL
   BY DEF SchedulerStart, IInv, ControlInv, BootInv, RegInv
 <1>2. pc' = "sw_state" /\ reg' = [reg EXCEPT !.to = run_queue, !.link = "start_ret"]
   BY <1>1 DEF SchedulerStart
 <1>3. reg'.to = run_queue /\ reg'.link = "start_ret" /\ reg'.prev = NULL
   BY <1>1, <1>2 DEF IInv, TypeOK, Reg
 <1>4. BOOT \notin Thread /\ Created' = Created /\ run_queue \in Created /\ Created \subseteq Thread
   BY <1>1 DEF SchedulerStart, Created, IInv, QueueInv
 <1>5. UNCHANGED <<stk, sp, intr, mem, run_queue>> BY DEF SchedulerStart
 <1>6. Leaving(stk, reg)' BY <1>1, <1>3, <1>4, <1>5 DEF Leaving
 <1>7. CallerInv(sp)' BY <1>1, <1>3, <1>5 DEF CallerInv
 <1>8. ControlInv' BY <1>1, <1>2, <1>5, <1>6, <1>7 DEF ControlInv, RegInv, ThreadCode, Handler, SwitchCode, KlogPCs, NoWildJump
 <1>9. BootInv' BY <1>1, <1>2, <1>3, <1>5 DEF BootInv, Handler, SwitchCode
 <1> QED BY <1>8, <1>9

\* When kmain() enables interrupts the run queue is not empty.
LEMMA StiBoot == IInv /\ WellMasked /\ Sti => BootInv'
 <1> USE DEF At, kern, segs, cpu, dev
 <1> SUFFICES ASSUME IInv, WellMasked, Sti PROVE BootInv' OBVIOUS
 <1>1. run_queue # NULL BY DEF Sti, WellMasked, IInv, QueueInv, Created
 <1> QED BY <1>1 DEF Sti, BootInv, SwitchCode, Handler

\* A new thread gets a context that can be popped; the others keep theirs.
LEMMA ThreadCreateStacks == ASSUME IInv, NEW t \in Thread, ThreadCreate(t) PROVE StacksInv'
 <1> USE DEF At, kern, segs, cpu, dev
 <1> USE DEF IInv
 <1>1. stk = BOOT /\ stk' = BOOT /\ pc' = "kmain" BY DEF ThreadCreate, ControlInv
 <1>2. Created' = Created \union {t} BY DEF ThreadCreate, Created, TypeOK
 <1>3. ASSUME NEW x \in Created, x # t
       PROVE  /\ context'[x] = context[x] /\ mem'[x] = mem[x]
              /\ \A e \in 1 .. context[x].depth : FrameInv(x, e)'
   <2>1. /\ x \in Stack /\ context[x].depth \in Nat /\ StackInv(x, context[x].depth)
     BY <1>3, <1>1 DEF StacksInv, TypeOK, Created, Ptr, Stack
   <2>2. context'[x] = context[x] /\ mem'[x] = mem[x] BY <1>3 DEF ThreadCreate, TypeOK, Created
   <2>3. ds' = ds BY DEF ThreadCreate
   <2>4. ASSUME NEW e \in 1 .. context[x].depth PROVE FrameInv(x, e)'
     BY <2>1, <2>2, <2>3, <1>2, FrameKept DEF StackInv
   <2> QED BY <2>2, <2>4
 <1>4. context'[t] = [stk |-> t, depth |-> 1] /\ mem'[t][1] = SwFrame("tramp", TRUE)
   <2>1. mem' = [mem EXCEPT ![t][1] = SwFrame("tramp", TRUE)] BY DEF ThreadCreate
   <2>2. t \in Stack /\ 1 \in 1 .. MaxDepth BY DEF Stack
   <2>3. context'[t] = [stk |-> t, depth |-> 1] BY DEF ThreadCreate, TypeOK
   <2>4. mem'[t][1] = SwFrame("tramp", TRUE) BY <2>1, <2>2 DEF TypeOK
   <2> QED BY <2>3, <2>4
 <1>5. FrameInv(t, 1)' BY <1>4 DEF FrameInv, FrameOK, SwFrame
 <1>6. ASSUME NEW x \in Created, x # t
       PROVE context'[x].stk = x /\ context'[x].depth > 0 /\ mem'[x][context'[x].depth].kind = "sw"
   BY <1>1, <1>3, <1>6 DEF StacksInv, Created
 <1> QED BY <1>1, <1>2, <1>3, <1>4, <1>5, <1>6 DEF StacksInv, StackInv, SwFrame

\* swtch() never comes back to the boot stack.
LEMMA SwtchLoadBoot == IInv /\ SwtchLoad => BootInv'
 <1> USE DEF At, kern, segs, cpu, dev
 <1> SUFFICES ASSUME IInv, SwtchLoad PROVE BootInv' OBVIOUS
 <1>1. reg.to \in Created /\ reg.to # stk /\ reg.new = context[reg.to]
    BY DEF SwtchLoad, IInv, ControlInv, RegInv, Leaving, SwitchCode
 <1>2. context[reg.to].stk = reg.to BY <1>1 DEF IInv, StacksInv
 <1>3. stk' # BOOT BY <1>1, <1>2 DEF SwtchLoad, Created
 <1> QED BY <1>3 DEF BootInv

\* Loading esp moves to an intact stack and leaves an intact one.
LEMMA SwtchLoadStacks == IInv /\ SwtchLoad => StacksInv'
 <1> USE DEF At, kern, segs, cpu, dev
 <1> SUFFICES ASSUME IInv, SwtchLoad PROVE StacksInv' OBVIOUS
 <1>1. reg.to \in Created /\ reg.to # stk /\ reg.new = context[reg.to]
    BY DEF SwtchLoad, IInv, ControlInv, RegInv, Leaving, SwitchCode
 <1>2. stk' = reg.to /\ sp' = context[reg.to].depth /\ pc = "swtch_load"
   BY <1>1 DEF IInv, StacksInv, SwtchLoad
 <1>3. UNCHANGED <<mem, context, state, ds>> BY DEF SwtchLoad
 <1>4. Created' = Created BY <1>3 DEF Created
 <1>5. ASSUME NEW x \in Created
       PROVE \A e \in 1 .. context[x].depth : FrameInv(x, e)'
   <2>1. x \in Stack /\ context[x].depth \in Nat /\ StackInv(x, context[x].depth)
     BY <1>2 DEF IInv, StacksInv, TypeOK, Created, Ptr, Stack
   <2> QED BY <2>1, <1>3, <1>4, FrameKept DEF StackInv
 <1> QED BY <1>1, <1>2, <1>3, <1>4, <1>5 DEF IInv, StacksInv, StackInv

\* The context swtch() pushes can be popped, and disturbs no other stack.
LEMMA SwtchSaveStacks == IInv /\ SwtchSave => StacksInv'
 <1> USE DEF At, kern, segs, cpu, dev
 <1> SUFFICES ASSUME IInv, SwtchSave PROVE StacksInv' OBVIOUS
 <1> DEFINE f == SwFrame(reg.link, intr)
 <1>1. /\ pc = "swtch_save" /\ pc' = "swtch_load" /\ stk' = stk /\ sp' = sp + 1
       /\ state' = state /\ ds' = ds /\ intr' = intr
       /\ mem' = [mem EXCEPT ![stk][sp + 1] = f]
   BY DEF SwtchSave
 <1>2. CallerInv(sp) BY <1>1 DEF IInv, ControlInv, SwitchCode
 <1>3. /\ reg.prev = (IF stk = BOOT THEN NULL ELSE stk)
       /\ stk # BOOT => stk \in Created /\ StackInv(stk, sp)
       /\ stk \in Stack /\ sp \in Nat
   BY <1>1 DEF IInv, ControlInv, RegInv, Leaving, SwitchCode, StacksInv, CurrentInv, TypeOK
 <1>4. sp + 1 \in 1 .. MaxDepth
   BY <1>1, <1>2, <1>3 DEF IInv, CallerInv, StackInv, FrameInv, BootInv, Handler, SwitchCode, TypeOK
 <1>5. mem'[stk][sp + 1] = f /\ \A e \in 1 .. sp : mem'[stk][e] = mem[stk][e]
   BY <1>1, <1>3, <1>4 DEF IInv, TypeOK
 <1>6. \A x \in Stack : x # stk => mem'[x] = mem[x]
   BY <1>1 DEF IInv, TypeOK
 <1>7. Created' = Created /\ Created \subseteq Stack \ {BOOT} BY <1>1 DEF Created, Stack
 <1>8. ASSUME NEW x \in Created, x # stk
       PROVE /\ context'[x] = context[x]
             /\ \A e \in 1 .. context[x].depth : FrameInv(x, e)'
   <2>1. context'[x] = context[x] BY <1>3, <1>8 DEF SwtchSave, IInv, TypeOK, Created
   <2>2. context[x].depth \in Nat /\ StackInv(x, context[x].depth)
     BY <1>8 DEF IInv, StacksInv, TypeOK, Created, Ptr
   <2> QED BY <2>1, <2>2, <1>1, <1>6, <1>7, <1>8, FrameKept DEF StackInv
 <1>9. ASSUME stk # BOOT
       PROVE /\ context'[stk] = [stk |-> stk, depth |-> sp + 1]
             /\ \A e \in 1 .. sp + 1 : FrameInv(stk, e)'
   <2>1. context'[stk] = [stk |-> stk, depth |-> sp + 1]
     BY <1>3, <1>7, <1>9 DEF SwtchSave, IInv, TypeOK, Created
   <2> SUFFICES ASSUME NEW s, s = stk PROVE \A e \in 1 .. sp + 1 : FrameInv(s, e)'
     BY <2>1, <1>1
   <2>2. ASSUME NEW e \in 1 .. sp PROVE FrameInv(s, e)'
     BY <1>1, <1>3, <1>5, <1>7, <1>9, FrameKept DEF StackInv
   <2>3. ASSUME NEW e, e = sp + 1 PROVE FrameInv(s, e)'
     <3>1. mem'[s][e] = f /\ (e > 1 => mem'[s][e - 1] = mem[s][sp])
       BY <2>3, <1>3, <1>5
     <3> QED BY <3>1, <2>3, <1>1, <1>2, <1>3, <1>9 DEF CallerInv, FrameInv, FrameOK, SwFrame
   <2> QED BY <2>2, <2>3, <1>3
 <1> QED BY <1>1, <1>3, <1>5, <1>6, <1>7, <1>8, <1>9 DEF StacksInv, StackInv, SwFrame, IInv

\* Popping a context leaves every other frame explained.
LEMMA SwtchRetStacks == IInv /\ SwtchRet => StacksInv'
 <1> USE DEF At, kern, segs, cpu, dev
 <1> SUFFICES ASSUME IInv, SwtchRet PROVE StacksInv' OBVIOUS
 <1>1. /\ pc = "swtch_ret" /\ sp > 0 /\ mem[stk][sp].kind = "sw" /\ stk' = stk
       /\ sp' = sp - 1 /\ mem' = Popped /\ UNCHANGED <<context, state, ds>>
   BY DEF SwtchRet, IInv, ControlInv
 <1>2. /\ stk \in Stack /\ sp \in Nat /\ stk # BOOT /\ stk \in Created /\ StackInv(stk, sp)
   BY <1>1 DEF IInv, TypeOK, CurrentInv, BootInv, StacksInv, Handler, SwitchCode
 <1>3. /\ \A e \in 1 .. sp - 1 : mem'[stk][e] = mem[stk][e]
       /\ \A x \in Stack : x # stk => mem'[x] = mem[x]
   BY <1>1, <1>2 DEF IInv, TypeOK, Popped
 <1>4. Created' = Created /\ Created \subseteq Stack BY <1>1 DEF Created, Stack
 <1>5. pc' # "swtch_load"
   BY <1>1, <1>2 DEF SwtchRet, StackInv, FrameInv, FrameOK, Stoppable
 <1>6. ASSUME NEW x \in Created, x # stk
       PROVE \A e \in 1 .. context[x].depth : FrameInv(x, e)'
   <2>1. context[x].depth \in Nat /\ StackInv(x, context[x].depth)
     BY <1>6 DEF IInv, StacksInv, TypeOK, Created, Ptr
   <2> QED BY <2>1, <1>1, <1>3, <1>4, <1>6, FrameKept DEF StackInv
 <1>7. ASSUME NEW s, s = stk PROVE \A e \in 1 .. sp - 1 : FrameInv(s, e)'
   BY <1>7, <1>1, <1>2, <1>3, <1>4, FrameKept DEF StackInv
 <1> QED BY <1>1, <1>2, <1>3, <1>4, <1>5, <1>6, <1>7 DEF StacksInv, StackInv, IInv

\* swtch() returns to thread_trampoline(), to yield()'s caller or into the tick
\* that switched, with the IF flag that belongs there.
LEMMA SwtchRetControl == IInv /\ SwtchRet => ControlInv'
 <1> USE DEF At, kern, segs, cpu, dev
 <1> SUFFICES ASSUME IInv, SwtchRet PROVE ControlInv' OBVIOUS
 <1>1. /\ pc = "swtch_ret" /\ sp > 0 /\ mem[stk][sp].kind = "sw" /\ stk' = stk
       /\ sp' = sp - 1 /\ mem' = Popped /\ pc' = mem[stk][sp].pc /\ intr' = mem[stk][sp].intr
   BY DEF SwtchRet, IInv, ControlInv
 <1>2. /\ stk \in Stack /\ sp \in 1 .. MaxDepth /\ stk # BOOT /\ StackInv(stk, sp)
   BY <1>1 DEF IInv, TypeOK, CurrentInv, BootInv, StacksInv, Handler, SwitchCode
 <1>3. \A e \in 1 .. sp - 1 : mem'[stk][e] = mem[stk][e]
   BY <1>1, <1>2 DEF IInv, TypeOK, Popped
 <1>4. FrameOK(stk, sp) BY <1>2 DEF StackInv, FrameInv
 <1>5. CASE sp = 1 /\ pc' \in {"tramp", "thr_ret"} /\ intr'
   BY <1>1, <1>2, <1>5 DEF ControlInv, RegInv, ThreadCode, Handler, SwitchCode, KlogPCs, NoWildJump
 <1>6. CASE sp > 1 /\ pc' = "irq_ret" /\ ~intr' /\ mem[stk][sp - 1].kind = "irq"
   BY <1>1, <1>2, <1>3, <1>6 DEF ControlInv, RegInv, ThreadCode, Handler, SwitchCode, KlogPCs, NoWildJump
 <1> QED BY <1>1, <1>4, <1>5, <1>6 DEF FrameOK

\* What iret finds on the stack: a trapframe of this thread, which says where
\* the thread was, in which ring and with which IF.
LEMMA IretFacts ==
  ASSUME IInv, Iret
  PROVE
    /\ UNCHANGED <<current, run_queue, next, state, context, esp0, stk, cons>>
    /\ pc = "irq_ret" /\ sp > 0 /\ mem[stk][sp].kind = "irq" /\ sp' = sp - 1
    /\ stk \in Stack /\ sp \in 1 .. MaxDepth
    /\ mem' = Popped /\ pc' = mem[stk][sp].pc /\ intr' = mem[stk][sp].intr
    /\ ring' = mem[stk][sp].ring /\ reg' = mem[stk][sp].reg
    /\ stk # BOOT => stk \in Created /\ StackInv(stk, sp) /\ FrameInv(stk, sp)
    /\ stk = BOOT => /\ sp = 1 /\ pc' \in {"start", "sw_state", "sw_cur"}
                     /\ intr' /\ ring' = 0
    /\ stk # BOOT => pc' \in Stoppable \union {"swtch_ret"}
    /\ ring' = 3 <=> pc' = "user"
    /\ ring' = 3 => ds = "UDATA"
    /\ ds' = ds
 <1> USE DEF At, kern, segs, cpu, dev
 <1>1. /\ pc = "irq_ret" /\ sp > 0 /\ mem[stk][sp].kind = "irq"
   BY DEF Iret, IInv, ControlInv, Handler
 <1>2. /\ UNCHANGED <<current, run_queue, next, state, context, esp0, stk, cons>>
       /\ sp' = sp - 1 /\ mem' = Popped /\ pc' = mem[stk][sp].pc /\ intr' = mem[stk][sp].intr
       /\ ring' = mem[stk][sp].ring /\ reg' = mem[stk][sp].reg /\ ds' = AfterIret(ring')
   BY <1>1 DEF Iret
 <1>3. stk \in Stack /\ sp \in 1 .. MaxDepth BY <1>1 DEF IInv, TypeOK
 <1>4. stk # BOOT => stk \in Created /\ StackInv(stk, sp) /\ FrameInv(stk, sp)
   BY <1>3 DEF IInv, StacksInv, CurrentInv, StackInv
 <1>5. stk = BOOT => /\ sp = 1 /\ pc' \in {"start", "sw_state", "sw_cur"}
                     /\ intr' /\ ring' = 0
   BY <1>1, <1>2 DEF IInv, BootInv, Handler
 <1>6. /\ stk # BOOT => pc' \in Stoppable \union {"swtch_ret"}
       /\ ring' = 3 <=> pc' = "user"
       /\ ring' = 3 => ds = "UDATA"
   BY <1>1, <1>2, <1>4, <1>5 DEF FrameInv, FrameOK, Stoppable
 <1>7. ds' = ds BY <1>2, <1>6 DEF AfterIret
 <1> QED BY <1>1, <1>2, <1>3, <1>4, <1>5, <1>6, <1>7

\* The iret returns to the current thread, in its ring and segments.
LEMMA IretCurrent == IInv /\ Iret => CurrentInv' /\ UserInv'
 <1> USE DEF At, kern, segs, cpu, dev
 <1> SUFFICES ASSUME IInv, Iret PROVE CurrentInv' /\ UserInv' OBVIOUS
 <1>1. pc' \notin Window \union {"klog_off"} BY IretFacts DEF Window, Stoppable
 <1>2. Created' = Created BY IretFacts DEF Created
 <1> QED BY IretFacts, <1>1, <1>2 DEF IInv, CurrentInv, Window, UserInv

\* Popping a trapframe leaves every other frame explained.
LEMMA IretStacks == IInv /\ Iret => StacksInv'
 <1> USE DEF At, kern, segs, cpu, dev
 <1> SUFFICES ASSUME IInv, Iret PROVE StacksInv' OBVIOUS
 <1>1. pc' # "swtch_load" BY IretFacts DEF Stoppable
 <1>2. Created' = Created /\ Created \subseteq Stack BY IretFacts DEF Created, Stack
 <1>3. /\ \A e \in 1 .. sp - 1 : mem'[stk][e] = mem[stk][e]
       /\ \A x \in Stack : x # stk => mem'[x] = mem[x]
   BY IretFacts DEF IInv, TypeOK, Popped
 <1>6. ASSUME NEW x \in Created, x # stk
       PROVE \A e \in 1 .. context[x].depth : FrameInv(x, e)'
   <2>1. context[x].depth \in Nat /\ StackInv(x, context[x].depth)
     BY <1>6 DEF IInv, StacksInv, TypeOK, Created, Ptr
   <2> QED BY <2>1, <1>2, <1>3, <1>6, IretFacts, FrameKept DEF StackInv
 <1>7. ASSUME NEW s, s = stk, s # BOOT PROVE \A e \in 1 .. sp - 1 : FrameInv(s, e)'
   BY <1>7, <1>2, <1>3, IretFacts, FrameKept DEF StackInv
 <1> QED BY <1>1, <1>2, <1>3, <1>6, <1>7, IretFacts DEF StacksInv, StackInv, IInv

\* Where irq0 can be taken: in a thread's own code, in yield() before `current'
\* moves, or after swtch() loaded esp; the trapframe goes on the stack of the
\* thread that runs.
LEMMA TakeIrqFacts ==
  ASSUME IInv, WellMasked, TakeIrq
  PROVE
    /\ intr /\ pc \in Stoppable \union {"swtch_ret", "start"} /\ pc \notin Window
    /\ pc' = "irq" /\ ~intr' /\ ring' = 0 /\ reg' = NoReg
    /\ stk' = stk /\ sp' = sp + 1 /\ sp + 1 < MaxDepth
    /\ stk \in Stack /\ sp \in Nat
    /\ mem' = [mem EXCEPT ![stk][sp + 1] =
                [kind |-> "irq", pc |-> pc, intr |-> intr, ring |-> ring, reg |-> reg]]
    /\ pc \in Stoppable \union {"start"} => sp = 0
    /\ stk = BOOT <=> pc \in {"start"} \/ (pc \in {"sw_state", "sw_cur"} /\ reg.link = "start_ret")
    /\ pc \in SwitchCode \union {"yield"} =>
         reg.link = (IF stk = BOOT THEN "start_ret" ELSE "thr_ret")
    /\ UNCHANGED <<current, run_queue, next, state, context, esp0, ds, cons>>
 <1> USE DEF At, kern, segs, cpu, dev
 <1>1. intr /\ ~Shielded /\ (ring = 3 \/ sp + 2 <= MaxDepth) BY DEF TakeIrq, IrqReady
 <1>2. stk \in Stack /\ sp \in Nat /\ pc \in PC BY DEF IInv, TypeOK
 <1>3. pc \notin Window
   <2> SUFFICES ASSUME pc \in Window PROVE FALSE OBVIOUS
   <2>1. reg.link \in {"thr_ret", "start_ret"}
     BY <1>1 DEF Window, IInv, ControlInv, CallerInv, SwitchCode
   <2>2. reg.link = "thr_ret" => stk \in Yielders
     BY <1>1 DEF Window, IInv, ControlInv, CallerInv, SwitchCode
   <2> QED BY <2>1, <2>2, <1>1 DEF Shielded, WellMasked
 <1>4. pc \in Stoppable \union {"swtch_ret", "start"}
   BY <1>1, <1>2, <1>3 DEF PC, SwitchPCs, Window, Links, KlogPCs, Stoppable, IInv, ControlInv,
      Handler, ThreadCode, NoWildJump
 <1>5. pc \in Stoppable \union {"start"} => sp = 0
   BY <1>1 DEF Stoppable, IInv, ControlInv, CallerInv, ThreadCode, SwitchCode
 <1>6. pc \in SwitchCode \union {"yield"} =>
         reg.link = (IF stk = BOOT THEN "start_ret" ELSE "thr_ret")
   BY <1>1, <1>3, <1>4 DEF Stoppable, IInv, ControlInv, CallerInv, SwitchCode, BootInv, Handler, Window
 <1>7. stk = BOOT <=> pc \in {"start"} \/ (pc \in {"sw_state", "sw_cur"} /\ reg.link = "start_ret")
   BY <1>1, <1>4, <1>6 DEF Stoppable, IInv, ControlInv, CallerInv, SwitchCode, BootInv, Handler, ThreadCode
 <1>8. ring = 3 => esp0 = stk /\ sp = 0
   BY <1>5 DEF IInv, UserInv, Stoppable, CurrentInv, ControlInv, ThreadCode, Window, Created
 <1>9. /\ (IF ring = 3 THEN esp0 ELSE stk) = stk
       /\ (IF ring = 3 THEN 1 ELSE sp + 1) = sp + 1
       /\ sp + 1 < MaxDepth
   BY <1>1, <1>2, <1>8
 <1>10. /\ pc' = "irq" /\ ~intr' /\ ring' = 0 /\ reg' = NoReg
        /\ stk' = stk /\ sp' = sp + 1
        /\ mem' = [mem EXCEPT ![stk][sp + 1] =
                [kind |-> "irq", pc |-> pc, intr |-> intr, ring |-> ring, reg |-> reg]]
        /\ UNCHANGED <<current, run_queue, next, state, context, esp0, ds, cons>>
   BY <1>9 DEF TakeIrq
 <1> QED BY <1>1, <1>2, <1>3, <1>4, <1>5, <1>6, <1>7, <1>9, <1>10

\* The interrupt gate enters the handler on the current thread's stack.
LEMMA TakeIrqControl == IInv /\ WellMasked /\ TakeIrq => CurrentInv' /\ ControlInv'
 <1> USE DEF At, kern, segs, cpu, dev
 <1> SUFFICES ASSUME IInv, WellMasked, TakeIrq PROVE CurrentInv' /\ ControlInv' OBVIOUS
 <1>1. sp + 1 \in 1 .. MaxDepth BY TakeIrqFacts
 <1>2. mem'[stk][sp + 1].kind = "irq" BY <1>1, TakeIrqFacts DEF IInv, TypeOK
 <1>3. Created' = Created BY TakeIrqFacts DEF Created
 <1>4. ControlInv' BY <1>1, <1>2, TakeIrqFacts
    DEF ControlInv, RegInv, ThreadCode, Handler, SwitchCode, KlogPCs, NoWildJump, NoReg
 <1>5. CurrentInv' BY <1>3, TakeIrqFacts DEF IInv, CurrentInv, Window, Stoppable
 <1> QED BY <1>4, <1>5

\* On the boot stack a tick interrupts only scheduler_start().
LEMMA TakeIrqBoot == IInv /\ WellMasked /\ TakeIrq => BootInv'
 <1> USE DEF At, kern, segs, cpu, dev
 <1> SUFFICES ASSUME IInv, WellMasked, TakeIrq, stk = BOOT PROVE BootInv'
   BY TakeIrqFacts DEF BootInv
 <1>1. sp + 1 \in 1 .. MaxDepth /\ sp = 0 BY TakeIrqFacts DEF Stoppable
 <1>2. mem'[BOOT][1] = [kind |-> "irq", pc |-> pc, intr |-> intr, ring |-> ring, reg |-> reg]
    BY <1>1, TakeIrqFacts DEF IInv, TypeOK
 <1>3. ring = 0 BY TakeIrqFacts DEF IInv, UserInv, TypeOK
 <1>5. RegInv(BOOT, pc, reg) /\ Created' = Created BY TakeIrqFacts DEF IInv, ControlInv, Created
 <1>6. RegInv(BOOT, mem'[BOOT][1].pc, mem'[BOOT][1].reg) BY <1>2, <1>5
 <1> QED BY <1>1, <1>2, <1>3, <1>5, TakeIrqFacts DEF BootInv, Handler, SwitchCode, RegInv, Leaving, IInv

\* The trapframe is explained by the frame below it, and disturbs no other.
LEMMA TakeIrqStacks == IInv /\ WellMasked /\ TakeIrq => StacksInv'
 <1> USE DEF At, kern, segs, cpu, dev
 <1> SUFFICES ASSUME IInv, WellMasked, TakeIrq PROVE StacksInv' OBVIOUS
 <1> DEFINE f == [kind |-> "irq", pc |-> pc, intr |-> intr, ring |-> ring, reg |-> reg]
 <1>1. sp + 1 \in 1 .. MaxDepth BY TakeIrqFacts
 <1>2. Created' = Created /\ Created \subseteq Stack BY TakeIrqFacts DEF Created, Stack
 <1>3. /\ mem'[stk][sp + 1] = f
       /\ \A e \in 1 .. sp : mem'[stk][e] = mem[stk][e]
       /\ \A x \in Stack : x # stk => mem'[x] = mem[x]
   BY <1>1, TakeIrqFacts DEF IInv, TypeOK
 <1>4. ASSUME NEW x \in Created, x # stk
       PROVE \A e \in 1 .. context[x].depth : FrameInv(x, e)'
   <2>1. context[x].depth \in Nat /\ StackInv(x, context[x].depth)
     BY <1>4 DEF IInv, StacksInv, TypeOK, Created, Ptr
   <2> QED BY <2>1, <1>2, <1>3, <1>4, TakeIrqFacts, FrameKept DEF StackInv
 <1>5. ASSUME stk # BOOT, NEW s, s = stk PROVE \A e \in 1 .. sp + 1 : FrameInv(s, e)'
   <2>1. ASSUME NEW e \in 1 .. sp PROVE FrameInv(s, e)'
     BY <1>5, <1>2, <1>3, TakeIrqFacts, FrameKept DEF StackInv, IInv, StacksInv
   <2>2. ASSUME NEW e, e = sp + 1 PROVE FrameInv(s, e)'
     <3>1. mem'[s][e] = f /\ (e > 1 => mem'[s][e - 1] = mem[s][sp])
       BY <1>5, <2>2, <1>3, TakeIrqFacts
     <3>2. FrameOK(s, e)'
       <4>1. CASE pc = "swtch_ret"
         BY <4>1, <3>1, <2>2, <1>5, TakeIrqFacts DEF FrameOK, IInv, ControlInv
       <4>2. CASE pc # "swtch_ret"
         BY <4>2, <3>1, <2>2, <1>5, TakeIrqFacts DEF FrameOK
       <4> QED BY <4>1, <4>2
     <3>3. RegInv(s, pc, reg) /\ (ring = 3 <=> pc = "user") /\ (ring = 3 => ds = "UDATA")
       BY <1>5 DEF IInv, ControlInv, UserInv
     <3>4. pc \in SwitchCode \union {"yield"} => reg.link = "thr_ret" /\ s \in Yielders
       BY <1>5, TakeIrqFacts DEF IInv, ControlInv, CallerInv, SwitchCode, Stoppable
     <3> QED BY <3>1, <3>2, <3>3, <3>4, <2>2, <1>2, TakeIrqFacts DEF FrameInv, RegInv, Leaving
   <2> QED BY <2>1, <2>2, TakeIrqFacts
 <1> QED BY <1>2, <1>3, <1>4, <1>5, TakeIrqFacts DEF StacksInv, StackInv, IInv

-----------------------------------------------------------------------------
(***************************************************************************)
(* Every step keeps every part of the invariant.                           *)
(***************************************************************************)
\* The invariant is kept by the pit's request.
LEMMA PitFireStep ==
  ASSUME IInv, PitFire PROVE IInv'
 <1> USE DEF PitFire, kern, segs, cpu, dev
 <1>1. TypeOK' BY PitFireType
 <1>2. QueueInv' BY DEF IInv, QueueInv, Created
 <1>3. CurrentInv' BY DEF IInv, CurrentInv, Window, Created
<1>4. BootInv' BY DEF IInv, BootInv, Handler, SwitchCode, Created, RegInv,
       Leaving
<1>5. ControlInv' BY DEF IInv, ControlInv, RegInv, ThreadCode, Handler,
       SwitchCode, KlogPCs, NoWildJump, CallerInv, Leaving, Created
<1>6. StacksInv' BY DEF IInv, StacksInv, StackInv, FrameInv, FrameOK, RegInv,
       Leaving, Created
 <1>7. UserInv' BY DEF IInv, UserInv
 <1> QED BY <1>1, <1>2, <1>3, <1>4, <1>5, <1>6, <1>7 DEF IInv

\* The invariant is kept by the interrupt gate.
LEMMA TakeIrqStep ==
  ASSUME IInv, WellMasked, TakeIrq PROVE IInv'
 <1> USE DEF TakeIrq, IrqReady, Shielded, Window, kern, segs, cpu, dev
 <1>1. TypeOK' BY TakeIrqType
 <1>2. QueueInv' BY DEF IInv, QueueInv, Created
 <1>3. CurrentInv' BY TakeIrqControl
 <1>4. BootInv' BY TakeIrqBoot
 <1>5. ControlInv' BY TakeIrqControl
 <1>6. StacksInv' BY TakeIrqStacks
 <1>7. UserInv' BY DEF IInv, UserInv, ControlInv, ThreadCode, KlogPCs
 <1> QED BY <1>1, <1>2, <1>3, <1>4, <1>5, <1>6, <1>7 DEF IInv

\* The invariant is kept by irq_dispatch() up to pic_eoi().
LEMMA IrqEoiStep ==
  ASSUME IInv, IrqEoi PROVE IInv'
 <1> USE DEF IrqEoi, At, kern, segs, cpu, dev
 <1>1. TypeOK' BY IrqEoiType
 <1>2. QueueInv' BY DEF IInv, QueueInv, Created
 <1>3. CurrentInv' BY DEF IInv, CurrentInv, Window, Created
<1>4. BootInv' BY DEF IInv, BootInv, Handler, SwitchCode, Created, RegInv,
       Leaving
<1>5. ControlInv' BY DEF IInv, ControlInv, RegInv, ThreadCode, Handler,
       SwitchCode, KlogPCs, NoWildJump
<1>6. StacksInv' BY DEF IInv, StacksInv, StackInv, FrameInv, FrameOK, RegInv,
       Leaving, Created
 <1>7. UserInv' BY DEF IInv, UserInv
 <1> QED BY <1>1, <1>2, <1>3, <1>4, <1>5, <1>6, <1>7 DEF IInv

\* The invariant is kept by hardclock().
LEMMA HardclockStep ==
  ASSUME IInv, Hardclock PROVE IInv'
 <1> USE DEF Hardclock, At, kern, segs, cpu, dev
 <1>1. TypeOK' BY HardclockType
 <1>2. QueueInv' BY DEF IInv, QueueInv, Created
 <1>3. CurrentInv' BY DEF IInv, CurrentInv, Window, Created
<1>4. BootInv' BY DEF IInv, BootInv, Handler, SwitchCode, Created, RegInv,
       Leaving
<1>5. ControlInv' BY DEF IInv, ControlInv, RegInv, ThreadCode, Handler,
       SwitchCode, KlogPCs, NoWildJump, CallerInv, Leaving, Created
<1>6. StacksInv' BY DEF IInv, StacksInv, StackInv, FrameInv, FrameOK, RegInv,
       Leaving, Created
 <1>7. UserInv' BY DEF IInv, UserInv
 <1> QED BY <1>1, <1>2, <1>3, <1>4, <1>5, <1>6, <1>7 DEF IInv

\* The invariant is kept by the end of isr_common_stub.
LEMMA IretStep ==
  ASSUME IInv, Iret PROVE IInv'
 <1> USE DEF Iret, At, Popped, kern, segs, cpu, dev
 <1>1. TypeOK' BY IretType
 <1>2. QueueInv' BY DEF IInv, QueueInv, Created
 <1>3. CurrentInv' BY IretCurrent
<1>4. BootInv' BY DEF IInv, BootInv, Handler, SwitchCode, Created, RegInv,
       Leaving, ControlInv, ThreadCode, Window, CallerInv, CurrentInv
 <1>5. ControlInv'
   <2> HIDE DEF Iret
   <2>1. CASE stk = BOOT
     <3>1. /\ RegInv(BOOT, pc', reg')
           /\ pc' # "start" => reg'.link = "start_ret"
           /\ pc' = "start" => reg'.prev = NULL
       BY <2>1, IretFacts DEF IInv, BootInv, Handler, RegInv
     <3>2. Created' = Created BY IretFacts DEF Created
     <3> QED BY <2>1, <3>1, <3>2, IretFacts
         DEF ControlInv, RegInv, Leaving, CallerInv, ThreadCode, Handler,
             SwitchCode, KlogPCs, NoWildJump
   <2>2. CASE stk # BOOT
     <3>1. FrameOK(stk, sp) /\ RegInv(stk, pc', reg')
       BY <2>2, IretFacts DEF FrameInv
     <3>2. pc' \in SwitchCode \union {"yield"} =>
             reg'.link = "thr_ret" /\ stk \in Yielders
       BY <2>2, IretFacts DEF FrameInv
     <3>3. CASE sp = 1 /\ pc' \in Stoppable /\ intr'
       <4>1. Created' = Created BY IretFacts DEF Created
       <4>2. RegInv(stk, pc, reg)' BY <3>1, <4>1, IretFacts DEF RegInv, Leaving
       <4>3. sp' = 0 /\ stk' = stk BY <3>3, IretFacts
       <4>4. pc' \in SwitchCode \union {"yield"} => CallerInv(sp)'
         BY <3>2, <3>3, <4>3 DEF CallerInv
       <4>5. /\ pc' \notin {"kmain", "start", "swtch_load", "swtch_save",
                          "swtch_ret"} \union Handler \union KlogPCs
             /\ NoWildJump'
         BY <3>3 DEF Stoppable, Handler, KlogPCs, NoWildJump
       <4> QED BY <2>2, <3>3, <4>2, <4>3, <4>4, <4>5
           DEF ControlInv, ThreadCode, Handler, SwitchCode
     <3>4. CASE sp > 1 /\ pc' = "swtch_ret" /\ mem[stk][sp - 1].kind = "sw"
       <4>1. mem'[stk][sp - 1] = mem[stk][sp - 1]
         BY <3>4, IretFacts DEF IInv, TypeOK
       <4> QED BY <2>2, <3>1, <3>4, <4>1, IretFacts
           DEF ControlInv, RegInv, ThreadCode, Handler, SwitchCode, KlogPCs,
               NoWildJump
     <3> QED BY <3>1, <3>3, <3>4, IretFacts DEF FrameOK
   <2> QED BY <2>1, <2>2
 <1>6. StacksInv' BY IretStacks
 <1>7. UserInv' BY IretCurrent
 <1> QED BY <1>1, <1>2, <1>3, <1>4, <1>5, <1>6, <1>7 DEF IInv

\* The invariant is kept by thread_create().
LEMMA ThreadCreateStep ==
  ASSUME IInv, NEW t \in Thread, ThreadCreate(t) PROVE IInv'
 <1> USE DEF ThreadCreate, At, kern, segs, cpu, dev
 <1>1. TypeOK' BY ThreadCreateType
 <1>2. QueueInv' BY DEF IInv, QueueInv, Created, TypeOK, ThreadOrNull
 <1>3. CurrentInv' BY DEF IInv, CurrentInv, Window, Created
 <1>4. BootInv' BY DEF IInv, BootInv, ControlInv, ThreadCode
<1>5. ControlInv' BY DEF IInv, ControlInv, RegInv, ThreadCode, Handler,
       SwitchCode, KlogPCs, NoWildJump
 <1>6. StacksInv' BY ThreadCreateStacks
 <1>7. UserInv' BY DEF IInv, UserInv
 <1> QED BY <1>1, <1>2, <1>3, <1>4, <1>5, <1>6, <1>7 DEF IInv

\* The invariant is kept by sti() in kmain().
LEMMA StiStep ==
  ASSUME IInv, WellMasked, Sti PROVE IInv'
 <1> USE DEF Sti, At, kern, segs, cpu, dev
 <1>1. TypeOK' BY StiType
 <1>2. QueueInv' BY DEF IInv, QueueInv, Created
 <1>3. CurrentInv' BY DEF IInv, CurrentInv, Window, Created
 <1>4. BootInv' BY StiBoot
<1>5. ControlInv' BY DEF IInv, ControlInv, RegInv, ThreadCode, Handler,
       SwitchCode, KlogPCs, NoWildJump
<1>6. StacksInv' BY DEF IInv, StacksInv, StackInv, FrameInv, FrameOK, RegInv,
       Leaving, Created
 <1>7. UserInv' BY DEF IInv, UserInv
 <1> QED BY <1>1, <1>2, <1>3, <1>4, <1>5, <1>6, <1>7 DEF IInv

\* The invariant is kept by scheduler_start().
LEMMA SchedulerStartStep ==
  ASSUME IInv, SchedulerStart PROVE IInv'
 <1> USE DEF SchedulerStart, At, kern, segs, cpu, dev
 <1>1. TypeOK' BY SchedulerStartType
 <1>2. QueueInv' BY DEF IInv, QueueInv, Created
 <1>3. CurrentInv' BY DEF IInv, CurrentInv, Window, Created
 <1>4. BootInv' BY SchedulerStartControl
 <1>5. ControlInv' BY SchedulerStartControl
<1>6. StacksInv' BY DEF IInv, StacksInv, StackInv, FrameInv, FrameOK, RegInv,
       Leaving, Created
 <1>7. UserInv' BY DEF IInv, UserInv
 <1> QED BY <1>1, <1>2, <1>3, <1>4, <1>5, <1>6, <1>7 DEF IInv

\* The invariant is kept by the tests at the top of yield().
LEMMA YieldEnterStep ==
  ASSUME IInv, YieldEnter PROVE IInv'
 <1> USE DEF YieldEnter, At, kern, segs, cpu, dev
 <1>1. TypeOK' BY YieldEnterType
 <1>2. QueueInv' BY DEF IInv, QueueInv, Created
 <1>3. CurrentInv'
   <2>1. pc' \notin Window
     BY DEF IInv, ControlInv, CallerInv, SwitchCode, Window
   <2> QED BY <2>1 DEF IInv, CurrentInv, Window, Created
<1>4. BootInv' BY DEF IInv, BootInv, Handler, SwitchCode, Created, RegInv,
       Leaving, ControlInv, ThreadCode, Window, CallerInv, CurrentInv
 <1>5. ControlInv' BY YieldEnterControl
 <1>6. StacksInv'
   <2>1. pc' # "swtch_load" BY DEF IInv, ControlInv, CallerInv, SwitchCode
   <2> QED BY <2>1 DEF IInv, StacksInv, StackInv, FrameInv, FrameOK, RegInv,
                       Leaving, Created
 <1>7. UserInv'
   <2>1. pc' \notin {"user", "klog_off"}
     BY DEF IInv, ControlInv, CallerInv, SwitchCode
   <2> QED BY <2>1 DEF IInv, UserInv
 <1> QED BY <1>1, <1>2, <1>3, <1>4, <1>5, <1>6, <1>7 DEF IInv

\* The invariant is kept by prev->state = THREAD_READY.
LEMMA YieldReadyStep ==
  ASSUME IInv, YieldReady PROVE IInv'
 <1> USE DEF YieldReady, At, kern, segs, cpu, dev
 <1>1. TypeOK' BY YieldReadyType
 <1>2. QueueInv' BY SwitchQueue
 <1>3. CurrentInv' BY DEF IInv, CurrentInv, Window, Created
<1>4. BootInv' BY DEF IInv, BootInv, Handler, SwitchCode, Created, RegInv,
       Leaving
<1>5. ControlInv' BY DEF IInv, ControlInv, RegInv, ThreadCode, Handler,
       SwitchCode, KlogPCs, NoWildJump, CallerInv, Leaving, Created
<1>6. StacksInv' BY DEF IInv, StacksInv, StackInv, FrameInv, FrameOK, RegInv,
       Leaving, Created, ControlInv, SwitchCode, CurrentInv, TypeOK
 <1>7. UserInv' BY DEF IInv, UserInv
 <1> QED BY <1>1, <1>2, <1>3, <1>4, <1>5, <1>6, <1>7 DEF IInv

\* The invariant is kept by t->state = THREAD_RUNNING.
LEMMA SwitchStateStep ==
  ASSUME IInv, SwitchState PROVE IInv'
 <1> USE DEF SwitchState, At, kern, segs, cpu, dev
 <1>1. TypeOK' BY SwitchStateType
 <1>2. QueueInv' BY SwitchQueue
 <1>3. CurrentInv' BY DEF IInv, CurrentInv, Window, Created
<1>4. BootInv' BY DEF IInv, BootInv, Handler, SwitchCode, Created, RegInv,
       Leaving
<1>5. ControlInv' BY DEF IInv, ControlInv, RegInv, ThreadCode, Handler,
       SwitchCode, KlogPCs, NoWildJump, CallerInv, Leaving, Created
<1>6. StacksInv' BY DEF IInv, StacksInv, StackInv, FrameInv, FrameOK, RegInv,
       Leaving, Created, ControlInv, SwitchCode, CurrentInv, TypeOK
 <1>7. UserInv' BY DEF IInv, UserInv
 <1> QED BY <1>1, <1>2, <1>3, <1>4, <1>5, <1>6, <1>7 DEF IInv

\* The invariant is kept by current = t.
LEMMA SwitchCurrentStep ==
  ASSUME IInv, SwitchCurrent PROVE IInv'
 <1> USE DEF SwitchCurrent, At, kern, segs, cpu, dev
 <1>1. TypeOK' BY SwitchCurrentType
 <1>2. QueueInv' BY DEF IInv, QueueInv, Created
 <1>3. CurrentInv' BY DEF IInv, CurrentInv, Window, Created
<1>4. BootInv' BY DEF IInv, BootInv, Handler, SwitchCode, Created, RegInv,
       Leaving
<1>5. ControlInv' BY DEF IInv, ControlInv, RegInv, ThreadCode, Handler,
       SwitchCode, KlogPCs, NoWildJump, CallerInv, Leaving, Created
<1>6. StacksInv' BY DEF IInv, StacksInv, StackInv, FrameInv, FrameOK, RegInv,
       Leaving, Created
 <1>7. UserInv' BY DEF IInv, UserInv
 <1> QED BY <1>1, <1>2, <1>3, <1>4, <1>5, <1>6, <1>7 DEF IInv

\* The invariant is kept by tss_set_kstack().
LEMMA SwitchTssStep ==
  ASSUME IInv, SwitchTss PROVE IInv'
 <1> USE DEF SwitchTss, At, kern, segs, cpu, dev
 <1>1. TypeOK' BY SwitchTssType
 <1>2. QueueInv' BY DEF IInv, QueueInv, Created
 <1>3. CurrentInv' BY DEF IInv, CurrentInv, Window, Created
<1>4. BootInv' BY DEF IInv, BootInv, Handler, SwitchCode, Created, RegInv,
       Leaving
<1>5. ControlInv' BY DEF IInv, ControlInv, RegInv, ThreadCode, Handler,
       SwitchCode, KlogPCs, NoWildJump, CallerInv, Leaving, Created
<1>6. StacksInv' BY DEF IInv, StacksInv, StackInv, FrameInv, FrameOK, RegInv,
       Leaving, Created
 <1>7. UserInv' BY DEF IInv, UserInv
 <1> QED BY <1>1, <1>2, <1>3, <1>4, <1>5, <1>6, <1>7 DEF IInv

\* The invariant is kept by the read of current->context.
LEMMA SwitchArgStep ==
  ASSUME IInv, SwitchArg PROVE IInv'
 <1> USE DEF SwitchArg, At, kern, segs, cpu, dev
 <1>1. TypeOK' BY SwitchArgType
 <1>2. QueueInv' BY DEF IInv, QueueInv, Created
 <1>3. CurrentInv' BY DEF IInv, CurrentInv, Window, Created
<1>4. BootInv' BY DEF IInv, BootInv, Handler, SwitchCode, Created, RegInv,
       Leaving
<1>5. ControlInv' BY DEF IInv, ControlInv, RegInv, ThreadCode, Handler,
       SwitchCode, KlogPCs, NoWildJump, CallerInv, Leaving, Created,
       CurrentInv, Window, QueueInv, BootInv
<1>6. StacksInv' BY DEF IInv, StacksInv, StackInv, FrameInv, FrameOK, RegInv,
       Leaving, Created
 <1>7. UserInv' BY DEF IInv, UserInv
 <1> QED BY <1>1, <1>2, <1>3, <1>4, <1>5, <1>6, <1>7 DEF IInv

\* The invariant is kept by the save half of swtch().
LEMMA SwtchSaveStep ==
  ASSUME IInv, SwtchSave PROVE IInv'
 <1> USE DEF SwtchSave, At, kern, segs, cpu, dev
 <1>1. TypeOK' BY SwtchSaveType
 <1>2. QueueInv' BY DEF IInv, QueueInv, Created
 <1>3. CurrentInv' BY DEF IInv, CurrentInv, Window, Created
<1>4. BootInv' BY DEF IInv, BootInv, Handler, SwitchCode, Created, RegInv,
       Leaving
 <1>5. ControlInv'
   <2>1. CallerInv(sp) /\ Leaving(stk, reg) /\ reg.new = context[reg.to]
     BY DEF IInv, ControlInv, RegInv, SwitchCode
   <2>2. sp \in Nat /\ sp + 1 \in 1 .. MaxDepth /\ stk \in Stack
     BY SwtchSaveType DEF IInv, TypeOK
   <2>3. mem'[stk][sp + 1] = SwFrame(reg.link, intr)
     BY <2>2 DEF IInv, TypeOK
   <2>4. mem'[stk][sp] = mem[stk][sp] BY <2>2 DEF IInv, TypeOK
   <2>5. context'[reg.to] = context[reg.to]
     BY <2>1 DEF Leaving, IInv, TypeOK, Created
   <2>6. Created' = Created BY DEF Created
   <2> QED BY <2>1, <2>2, <2>3, <2>4, <2>5, <2>6
       DEF ControlInv, CallerInv, RegInv, Leaving, ThreadCode, Handler,
           SwitchCode, KlogPCs, NoWildJump
 <1>6. StacksInv' BY SwtchSaveStacks
 <1>7. UserInv' BY DEF IInv, UserInv
 <1> QED BY <1>1, <1>2, <1>3, <1>4, <1>5, <1>6, <1>7 DEF IInv

\* The invariant is kept by the load of esp in swtch().
LEMMA SwtchLoadStep ==
  ASSUME IInv, SwtchLoad PROVE IInv'
 <1> USE DEF SwtchLoad, At, kern, segs, cpu, dev
 <1>1. TypeOK' BY SwtchLoadType
 <1>2. QueueInv' BY DEF IInv, QueueInv, Created
<1>3. CurrentInv' BY DEF IInv, CurrentInv, Window, Created, ControlInv,
       RegInv, SwitchCode, Leaving, TypeOK, Handler, BootInv, QueueInv,
       StacksInv
 <1>4. BootInv' BY SwtchLoadBoot
 <1>5. ControlInv'
   <2>1. reg.to \in Created /\ reg.to # stk /\ reg.new = context[reg.to]
     BY DEF IInv, ControlInv, RegInv, Leaving, SwitchCode
   <2>2. /\ stk' = reg.to /\ sp' > 0
         /\ mem'[stk'][sp'].kind = "sw"
     BY <2>1 DEF IInv, StacksInv
   <2> QED BY <2>2 DEF ControlInv, RegInv, NoReg, ThreadCode, Handler,
                       SwitchCode, KlogPCs, NoWildJump
 <1>6. StacksInv' BY SwtchLoadStacks
 <1>7. UserInv' BY DEF IInv, UserInv
 <1> QED BY <1>1, <1>2, <1>3, <1>4, <1>5, <1>6, <1>7 DEF IInv

\* The invariant is kept by the return of swtch().
LEMMA SwtchRetStep ==
  ASSUME IInv, SwtchRet PROVE IInv'
 <1> USE DEF SwtchRet, At, Popped, kern, segs, cpu, dev
 <1>1. TypeOK' BY SwtchRetType
 <1>2. QueueInv' BY DEF IInv, QueueInv, Created
 <1>3. CurrentInv'
   <2>1. pc' \notin Window
     BY DEF IInv, ControlInv, CurrentInv, BootInv, Handler, SwitchCode,
            StacksInv, StackInv, FrameInv, FrameOK, TypeOK, Stoppable, Window
   <2> QED BY <2>1 DEF IInv, CurrentInv, Window, Created
<1>4. BootInv' BY DEF IInv, BootInv, Handler, SwitchCode, Created, RegInv,
       Leaving
 <1>5. ControlInv' BY SwtchRetControl
 <1>6. StacksInv' BY SwtchRetStacks
 <1>7. UserInv'
   <2>1. pc' \notin {"user", "klog_off"}
     BY DEF IInv, ControlInv, CurrentInv, BootInv, Handler, SwitchCode,
            StacksInv, StackInv, FrameInv, FrameOK, TypeOK
   <2> QED BY <2>1 DEF IInv, UserInv
 <1> QED BY <1>1, <1>2, <1>3, <1>4, <1>5, <1>6, <1>7 DEF IInv

\* The invariant is kept by thread_trampoline().
LEMMA TrampolineStep ==
  ASSUME IInv, Trampoline PROVE IInv'
 <1> USE DEF Trampoline, At, kern, segs, cpu, dev
 <1>1. TypeOK' BY TrampolineType
 <1>2. QueueInv' BY DEF IInv, QueueInv, Created
 <1>3. CurrentInv' BY DEF IInv, CurrentInv, Window, Created
 <1>4. BootInv' BY DEF IInv, BootInv, ControlInv, ThreadCode
 <1>5. ControlInv'
   <2>1. pc' \in {"user", "body"} /\ intr' /\ stk # BOOT /\ sp = 0
     BY DEF IInv, ControlInv, ThreadCode, KlogPCs
   <2> QED BY <2>1 DEF ControlInv, RegInv, ThreadCode, Handler, SwitchCode,
                       KlogPCs, NoWildJump
<1>6. StacksInv' BY DEF IInv, StacksInv, StackInv, FrameInv, FrameOK, RegInv,
       Leaving, Created
 <1>7. UserInv'
   <2>1. CASE current \in Users BY <2>1 DEF IInv, UserInv
   <2>2. CASE current \notin Users BY <2>2 DEF IInv, UserInv
   <2> QED BY <2>1, <2>2
 <1> QED BY <1>1, <1>2, <1>3, <1>4, <1>5, <1>6, <1>7 DEF IInv

\* The invariant is kept by the call of klog().
LEMMA BodyStep ==
  ASSUME IInv, Body PROVE IInv'
 <1> USE DEF Body, At, kern, segs, cpu, dev
 <1>1. TypeOK' BY KlogType
 <1>2. QueueInv' BY DEF IInv, QueueInv, Created
 <1>3. CurrentInv' BY DEF IInv, CurrentInv, Window, Created
 <1>4. BootInv' BY DEF IInv, BootInv, ControlInv, ThreadCode
<1>5. ControlInv' BY DEF IInv, ControlInv, RegInv, ThreadCode, Handler,
       SwitchCode, KlogPCs, NoWildJump
<1>6. StacksInv' BY DEF IInv, StacksInv, StackInv, FrameInv, FrameOK, RegInv,
       Leaving, Created
 <1>7. UserInv' BY DEF IInv, UserInv
 <1> QED BY <1>1, <1>2, <1>3, <1>4, <1>5, <1>6, <1>7 DEF IInv

\* The invariant is kept by cli_save() in vklog().
LEMMA KlogCliStep ==
  ASSUME IInv, KlogCli PROVE IInv'
 <1> USE DEF KlogCli, At, kern, segs, cpu, dev
 <1>1. TypeOK' BY KlogType
 <1>2. QueueInv' BY DEF IInv, QueueInv, Created
 <1>3. CurrentInv' BY DEF IInv, CurrentInv, Window, Created
 <1>4. BootInv' BY DEF IInv, BootInv, ControlInv, ThreadCode
<1>5. ControlInv' BY DEF IInv, ControlInv, RegInv, ThreadCode, Handler,
       SwitchCode, KlogPCs, NoWildJump
<1>6. StacksInv' BY DEF IInv, StacksInv, StackInv, FrameInv, FrameOK, RegInv,
       Leaving, Created
 <1>7. UserInv' BY DEF IInv, UserInv
 <1> QED BY <1>1, <1>2, <1>3, <1>4, <1>5, <1>6, <1>7 DEF IInv

\* The invariant is kept by cons_log(1).
LEMMA KlogOnStep ==
  ASSUME IInv, KlogOn PROVE IInv'
 <1> USE DEF KlogOn, At, kern, segs, cpu, dev
 <1>1. TypeOK' BY KlogType
 <1>2. QueueInv' BY DEF IInv, QueueInv, Created
 <1>3. CurrentInv' BY DEF IInv, CurrentInv, Window, Created
<1>4. BootInv' BY DEF IInv, BootInv, Handler, SwitchCode, Created, RegInv,
       Leaving
<1>5. ControlInv' BY DEF IInv, ControlInv, RegInv, ThreadCode, Handler,
       SwitchCode, KlogPCs, NoWildJump
<1>6. StacksInv' BY DEF IInv, StacksInv, StackInv, FrameInv, FrameOK, RegInv,
       Leaving, Created
 <1>7. UserInv' BY DEF IInv, UserInv
 <1> QED BY <1>1, <1>2, <1>3, <1>4, <1>5, <1>6, <1>7 DEF IInv

\* The invariant is kept by cons_log(0).
LEMMA KlogOffStep ==
  ASSUME IInv, KlogOff PROVE IInv'
 <1> USE DEF KlogOff, At, kern, segs, cpu, dev
 <1>1. TypeOK' BY KlogType
 <1>2. QueueInv' BY DEF IInv, QueueInv, Created
 <1>3. CurrentInv' BY DEF IInv, CurrentInv, Window, Created
<1>4. BootInv' BY DEF IInv, BootInv, Handler, SwitchCode, Created, RegInv,
       Leaving
<1>5. ControlInv' BY DEF IInv, ControlInv, RegInv, ThreadCode, Handler,
       SwitchCode, KlogPCs, NoWildJump
<1>6. StacksInv' BY DEF IInv, StacksInv, StackInv, FrameInv, FrameOK, RegInv,
       Leaving, Created
 <1>7. UserInv' BY DEF IInv, UserInv
 <1> QED BY <1>1, <1>2, <1>3, <1>4, <1>5, <1>6, <1>7 DEF IInv

\* The invariant is kept by sti_restore() in vklog().
LEMMA KlogRstStep ==
  ASSUME IInv, KlogRst PROVE IInv'
 <1> USE DEF KlogRst, At, kern, segs, cpu, dev
 <1>1. TypeOK' BY KlogRstType
 <1>2. QueueInv' BY DEF IInv, QueueInv, Created
 <1>3. CurrentInv' BY DEF IInv, CurrentInv, Window, Created
<1>4. BootInv' BY DEF IInv, BootInv, Handler, SwitchCode, Created, RegInv,
       Leaving
<1>5. ControlInv' BY DEF IInv, ControlInv, RegInv, ThreadCode, Handler,
       SwitchCode, KlogPCs, NoWildJump, CallerInv, Leaving, Created,
       CurrentInv, Window, QueueInv, BootInv, TypeOK, SwFrame, NoReg
<1>6. StacksInv' BY DEF IInv, StacksInv, StackInv, FrameInv, FrameOK, RegInv,
       Leaving, Created
 <1>7. UserInv' BY DEF IInv, UserInv
 <1> QED BY <1>1, <1>2, <1>3, <1>4, <1>5, <1>6, <1>7 DEF IInv

\* The invariant is kept by the return of yield().
LEMMA YieldReturnStep ==
  ASSUME IInv, YieldReturn PROVE IInv'
 <1> USE DEF YieldReturn, At, kern, segs, cpu, dev
 <1>1. TypeOK' BY YieldReturnType
 <1>2. QueueInv' BY DEF IInv, QueueInv, Created
 <1>3. CurrentInv' BY DEF IInv, CurrentInv, Window, Created
 <1>4. BootInv' BY DEF IInv, BootInv, ControlInv, ThreadCode
<1>5. ControlInv' BY DEF IInv, ControlInv, RegInv, ThreadCode, Handler,
       SwitchCode, KlogPCs, NoWildJump
<1>6. StacksInv' BY DEF IInv, StacksInv, StackInv, FrameInv, FrameOK, RegInv,
       Leaving, Created
 <1>7. UserInv' BY DEF IInv, UserInv
 <1> QED BY <1>1, <1>2, <1>3, <1>4, <1>5, <1>6, <1>7 DEF IInv

-----------------------------------------------------------------------------
(***************************************************************************)
(* The theorems.                                                           *)
(***************************************************************************)

\* The state at the entry of kmain() satisfies the invariant.
LEMMA InitIInv == Init => IInv
 <1> SUFFICES ASSUME Init PROVE IInv OBVIOUS
 <1>1. TypeOK
   <2>1. NoPtr \in Ptr /\ BOOT \in Stack BY DEF NoPtr, Ptr, Stack
   <2>2. context \in [Thread -> Ptr] BY <2>1 DEF Init
   <2>3. mem \in [Stack -> [1 .. MaxDepth -> Frame]] BY NoFrameType DEF Init
   <2>4. /\ next \in [Thread -> ThreadOrNull]
         /\ state \in [Thread -> {"none", "READY", "RUNNING"}]
         /\ current \in ThreadOrNull /\ run_queue \in ThreadOrNull
         /\ esp0 \in ThreadOrNull /\ cons \in Stack \union {NULL}
     BY DEF Init, ThreadOrNull
   <2>5. \A t \in Created : next[t] # NULL BY DEF Init, Created
   <2>6. /\ ds \in {"KDATA", "UDATA", "null"} /\ pc \in PC /\ intr \in BOOLEAN
         /\ ring \in {0, 3} /\ irr \in BOOLEAN /\ isr \in BOOLEAN
     BY DEF Init, PC
   <2>7. stk \in Stack /\ reg \in Reg BY <2>1, NoRegType DEF Init
   <2>8. sp \in 0 .. MaxDepth /\ ticks \in 0 .. TickMod - 1 BY DEF Init
   <2> QED BY <2>2, <2>3, <2>4, <2>5, <2>6, <2>7, <2>8 DEF TypeOK
 <1>2. Created = {} BY DEF Init, Created
 <1>3. QueueInv /\ CurrentInv /\ BootInv
   BY <1>2 DEF Init, QueueInv, CurrentInv, BootInv, Window, Handler, SwitchCode
 <1>4. ControlInv
   BY DEF Init, ControlInv, ThreadCode, Handler, SwitchCode, KlogPCs, RegInv,
          NoReg, NoWildJump
 <1>5. StacksInv /\ UserInv BY <1>2 DEF Init, StacksInv, UserInv
 <1> QED BY <1>1, <1>3, <1>4, <1>5 DEF IInv

\* A step that changes nothing keeps the invariant.
LEMMA StutterIInv == IInv /\ UNCHANGED vars => IInv'
 <1> SUFFICES ASSUME IInv, UNCHANGED vars PROVE IInv' OBVIOUS
 <1> USE DEF vars, kern, segs, cpu, dev
 <1>1. TypeOK' /\ QueueInv' /\ CurrentInv'
   BY DEF IInv, TypeOK, QueueInv, CurrentInv, Created
 <1>2. BootInv' BY DEF IInv, BootInv, RegInv, Leaving, Created
 <1>3. ControlInv'
   BY DEF IInv, ControlInv, RegInv, Leaving, CallerInv, NoWildJump, Created
 <1>4. StacksInv'
   BY DEF IInv, StacksInv, StackInv, FrameInv, FrameOK, RegInv, Leaving, Created
 <1>5. UserInv' BY DEF IInv, UserInv
 <1> QED BY <1>1, <1>2, <1>3, <1>4, <1>5 DEF IInv

\* Every step of the system keeps the invariant.
LEMMA NextIInv ==
  ASSUME WellMasked, IInv, [Next]_vars PROVE IInv'
 <1>1. CASE UNCHANGED vars BY <1>1, StutterIInv
 <1>2. CASE PitFire BY <1>2, PitFireStep
 <1>3. CASE IrqPath
   BY <1>3, TakeIrqStep, IrqEoiStep, HardclockStep, IretStep DEF IrqPath
 <1>4. CASE Boot
   BY <1>4, ThreadCreateStep, StiStep, SchedulerStartStep DEF Boot
 <1>5. CASE Switch
   BY <1>5, YieldEnterStep, YieldReadyStep, SwitchStateStep, SwitchCurrentStep,
      SwitchTssStep, SwitchArgStep, SwtchSaveStep, SwtchLoadStep, SwtchRetStep
      DEF Switch
 <1>6. CASE Run
   BY <1>6, TrampolineStep, BodyStep, KlogCliStep, KlogOnStep, KlogOffStep,
      KlogRstStep, YieldReturnStep DEF Run
 <1> QED BY <1>1, <1>2, <1>3, <1>4, <1>5, <1>6 DEF Next, Cpu

\* The invariant holds in every reachable state: for any set of threads, any
\* mix of kernel and user threads and of threads that yield, and any arrival
\* of irq0 outside the switches that WellMasked names.
THEOREM Invariance == ASSUME WellMasked PROVE Spec => []IInv
 <1>1. Init => IInv BY InitIInv
 <1>2. IInv /\ [Next]_vars => IInv' BY NextIInv
 <1> QED BY <1>1, <1>2, PTL DEF Spec

\* The state is well typed, and next[] of a thread that exists is never NULL.
THEOREM TypeCorrect == ASSUME WellMasked PROVE Spec => []TypeOK
 <1>1. IInv => TypeOK BY DEF IInv
 <1> QED BY <1>1, Invariance, PTL

\* Outside the window of switch_to(), `current' is the thread whose stack the
\* CPU runs on.
THEOREM StackIsCurrents == ASSUME WellMasked PROVE Spec => []OwnStack
 <1>1. IInv => OwnStack BY DEF IInv, CurrentInv, OwnStack
 <1> QED BY <1>1, Invariance, PTL

\* The saved context of every thread off the CPU can be resumed, to the last
\* frame of its stack, however cooperative and timer switches are mixed.
THEOREM ContextsIntact == ASSUME WellMasked PROVE Spec => []SavedContextsIntact
 <1>1. IInv => SavedContextsIntact
   BY DEF IInv, StacksInv, StackInv, FrameInv, SavedContextsIntact
 <1> QED BY <1>1, Invariance, PTL

\* swtch() and iret never return into anything else, and scheduler_start()
\* panics on neither of its two tests.
THEOREM NeverWild == ASSUME WellMasked PROVE Spec => []NoWildJump
 <1>1. IInv => NoWildJump BY DEF IInv, ControlInv
 <1> QED BY <1>1, Invariance, PTL

\* In ring 3 the tss names the running thread's own kernel stack.
THEOREM TssFollows == ASSUME WellMasked PROVE Spec => []Esp0IsOwners
 <1>1. IInv => Esp0IsOwners
   <2> SUFFICES ASSUME IInv, ring = 3 PROVE esp0 = stk /\ current = stk
     BY DEF Esp0IsOwners
   <2>1. pc = "user" /\ stk # BOOT
     BY DEF IInv, UserInv, ControlInv, ThreadCode, KlogPCs
   <2>2. current = stk /\ current # NULL
     BY <2>1 DEF IInv, CurrentInv, Window, Created
   <2> QED BY <2>1, <2>2 DEF IInv, CurrentInv
 <1> QED BY <1>1, Invariance, PTL

\* Ring 3 always runs with its own data segments.
THEOREM SegmentsForUser == ASSUME WellMasked PROVE Spec => []UserSegments
 <1>1. IInv => UserSegments BY DEF IInv, UserInv, UserSegments
 <1> QED BY <1>1, Invariance, PTL

\* Every thread gets back its own IF flag, whichever way it lost the CPU.
THEOREM FlagsRestored == ASSUME WellMasked PROVE Spec => []InterruptsRestored
 <1>1. IInv => InterruptsRestored
   <2> SUFFICES ASSUME IInv PROVE InterruptsRestored OBVIOUS
   <2>1. /\ pc \in {"tramp", "body", "klog", "user", "thr_ret"} => intr
         /\ pc \in {"irq", "hardclock", "irq_ret"} \union KlogPCs => ~intr
     BY DEF IInv, ControlInv, ThreadCode, Handler, KlogPCs
   <2>2. pc \in {"yield"} \union SwitchCode =>
           /\ reg.link = "irq_ret" => ~intr
           /\ reg.link \in {"thr_ret", "start_ret"} => intr
     BY DEF IInv, ControlInv, CallerInv, SwitchCode
   <2>3. pc = "swtch_ret" => reg.link = "none"
     BY DEF IInv, ControlInv, RegInv
   <2> QED BY <2>1, <2>2, <2>3
       DEF InterruptsRestored, SwitchPCs, SwitchCode, Window
 <1> QED BY <1>1, Invariance, PTL

\* A console line of klog() is written whole by one thread.
THEOREM KlogLines == ASSUME WellMasked PROVE Spec => []LinesWhole
 <1>1. IInv => LinesWhole
   BY DEF IInv, UserInv, ControlInv, ThreadCode, KlogPCs, TypeOK, Stack, LinesWhole
 <1> QED BY <1>1, Invariance, PTL

\* Linking a new thread behind the head keeps the run queue one ring: a set
\* closed under the new links, without the new thread, was closed under the
\* old ones.
LEMMA RingThreadCreate ==
  ASSUME IInv, OneRing, NEW t \in Thread, ThreadCreate(t)
  PROVE  OneRing'
 <1>1. /\ t \notin Created
       /\ Created' = Created \union {t}
       /\ Created \subseteq Thread
   BY DEF IInv, TypeOK, ThreadCreate, Created
 <1>2. CASE run_queue = NULL
   <2>1. Created' = {t} BY <1>1, <1>2 DEF OneRing
   <2>2. run_queue' = t /\ next'[t] = t
     BY <1>2 DEF ThreadCreate, IInv, TypeOK
   <2> QED BY <2>1, <2>2 DEF OneRing
 <1>3. CASE run_queue # NULL
   <2>1. run_queue \in Created /\ \A x \in Created : next[x] \in Created
     BY <1>3 DEF OneRing
   <2>2. /\ run_queue' = run_queue
         /\ next'[run_queue] = t
         /\ next'[t] = next[run_queue]
         /\ \A x \in Created : x # run_queue => next'[x] = next[x]
     BY <1>1, <1>3, <2>1 DEF ThreadCreate, IInv, TypeOK
   <2>3. ASSUME NEW S \in SUBSET Created', S # {},
                \A x \in S : next'[x] \in S
         PROVE  S = Created'
     <3> DEFINE T == S \ {t}
     <3>1. T \subseteq Created BY <1>1
     <3>2. T # {}
       <4>1. t \in S => next'[t] \in S /\ next'[t] # t
         BY <1>1, <2>1, <2>2, <2>3
       <4> QED BY <2>3, <4>1
     <3>3. ASSUME NEW x \in T PROVE next[x] \in T
       <4>1. next[x] # t BY <1>1, <2>1, <3>1
       <4>2. CASE x = run_queue BY <2>2, <2>3, <4>1, <4>2
       <4>3. CASE x # run_queue BY <2>2, <2>3, <3>1, <4>1, <4>3
       <4> QED BY <4>2, <4>3
     <3>4. T = Created BY <3>1, <3>2, <3>3 DEF OneRing
     <3>5. t \in S BY <2>1, <2>2, <2>3, <3>4
     <3> QED BY <1>1, <3>4, <3>5
   <2>4. \A x \in Created' : next'[x] \in Created' BY <1>1, <2>1, <2>2
   <2>5. run_queue' \in Created' /\ run_queue' # NULL BY <1>1, <1>3, <2>1, <2>2
   <2> QED BY <1>1, <2>3, <2>4, <2>5 DEF OneRing
 <1> QED BY <1>2, <1>3

\* Only kmain() adds threads or links; no step removes one.
LEMMA QueueKept ==
  ASSUME IInv, [Next]_vars, ~ \E t \in Thread : ThreadCreate(t)
  PROVE  Created' = Created /\ UNCHANGED <<run_queue, next>>
 <1> USE DEF kern
 <1>1. CASE YieldReady \/ SwitchState
   <2>1. reg.prev \in Created \/ pc # "y_ready"
     BY DEF IInv, ControlInv, RegInv, Leaving, SwitchCode, BootInv, CurrentInv,
            Handler
   <2>2. reg.to \in Created \/ pc # "sw_state"
     BY DEF IInv, ControlInv, RegInv, Leaving, SwitchCode
   <2>3. CASE YieldReady BY <2>1, <2>3 DEF YieldReady, At, Created, IInv, TypeOK
   <2>4. CASE SwitchState BY <2>2, <2>4 DEF SwitchState, At, Created, IInv, TypeOK
   <2> QED BY <1>1, <2>3, <2>4
 <1>2. CASE UNCHANGED vars BY <1>2 DEF vars, Created
 <1>3. CASE PitFire \/ IrqPath
   BY <1>3 DEF PitFire, IrqPath, TakeIrq, IrqEoi, Hardclock, Iret, Created
 <1>4. CASE Sti \/ SchedulerStart BY <1>4 DEF Sti, SchedulerStart, Created
 <1>5. CASE \/ YieldEnter \/ SwitchCurrent \/ SwitchTss \/ SwitchArg
            \/ SwtchSave \/ SwtchLoad \/ SwtchRet
   BY <1>5 DEF YieldEnter, SwitchCurrent, SwitchTss, SwitchArg, SwtchSave,
               SwtchLoad, SwtchRet, Created
 <1>6. CASE Run
   BY <1>6 DEF Run, Trampoline, Body, KlogCli, KlogOn, KlogOff, KlogRst,
               YieldReturn, Created
 <1> QED BY <1>1, <1>2, <1>3, <1>4, <1>5, <1>6 DEF Next, Cpu, Boot, Switch

\* The run queue is one ring through every thread created so far.
THEOREM QueueIsRing == ASSUME WellMasked PROVE Spec => []OneRing
 <1>1. Init => OneRing BY DEF Init, OneRing, Created
 <1>2. IInv /\ OneRing /\ [Next]_vars => OneRing'
   <2> SUFFICES ASSUME IInv, OneRing, [Next]_vars PROVE OneRing' OBVIOUS
   <2>1. CASE \E t \in Thread : ThreadCreate(t) BY <2>1, RingThreadCreate
   <2>2. CASE ~ \E t \in Thread : ThreadCreate(t)
     <3>1. Created' = Created /\ UNCHANGED <<run_queue, next>>
       BY <2>2, QueueKept
     <3> QED BY <3>1 DEF OneRing
   <2> QED BY <2>1, <2>2
 <1> QED BY <1>1, <1>2, Invariance, PTL DEF Spec

-----------------------------------------------------------------------------
(***************************************************************************)
(* The scheduler of Sched implements the round robin of RoundRobin: its    *)
(* initial state is one of RoundRobin's, and each of its steps is a step   *)
(* of RoundRobin or leaves the mapped variables alone.                     *)
(***************************************************************************)

-----------------------------------------------------------------------------
(***************************************************************************)
(* A switch goes to the successor of the thread that called it.            *)
(***************************************************************************)

\* The frames in memory stay headed where they were when the ring is left
\* alone and no frame of a tick is added.
LEMMA HeadedKept ==
  ASSUME NextInRing, UNCHANGED <<run_queue, next>>,
         \A s \in Stack : \A e \in 1 .. MaxDepth :
           mem'[s][e] = mem[s][e] \/ mem'[s][e].kind # "irq"
  PROVE  \A s \in Stack : \A e \in 1 .. MaxDepth :
           mem'[s][e].kind = "irq" /\ mem'[s][e].pc \in SwitchCode =>
             Headed(s, mem[s][e].reg)'
  BY DEF NextInRing, Headed

\* A popped frame is no frame of a tick.
LEMMA PoppedFrames ==
  ASSUME IInv, mem' = Popped
  PROVE  \A s \in Stack : \A e \in 1 .. MaxDepth :
           mem'[s][e] = mem[s][e] \/ mem'[s][e].kind # "irq"
 <1>1. mem' = [mem EXCEPT ![stk][sp] = NoFrame] BY DEF Popped
 <1> QED BY <1>1 DEF IInv, TypeOK, NoFrame

\* Every step keeps the heading of the switches under way.
LEMMA RingStep ==
  ASSUME WellMasked, IInv, RingInv, [Next]_vars PROVE RingInv'
 <1> USE SchedAssumption
 <1> USE DEF kern, segs, cpu, dev
 <1>1. CASE \/ UNCHANGED vars \/ PitFire \/ IrqEoi \/ Hardclock \/ Sti \/ Run
   <2>1. /\ UNCHANGED <<mem, next, run_queue>>
         /\ \/ pc' = pc /\ UNCHANGED <<stk, reg>>
            \/ pc' \notin SwitchCode \union {"kmain"}
     BY <1>1 DEF vars, PitFire, IrqEoi, Hardclock, Sti, Run, Trampoline, Body,
        KlogCli, KlogOn, KlogOff, KlogRst, YieldReturn, SwitchCode
   <2> QED BY <2>1 DEF RingInv, NextInRing, Headed
 <1>2. CASE SchedulerStart
   <2>1. /\ stk = BOOT /\ stk' = stk /\ UNCHANGED <<mem, next, run_queue>>
         /\ pc' # "kmain" /\ (pc' \in SwitchCode => reg'.to = run_queue)
     BY <1>2 DEF SchedulerStart, At, IInv, TypeOK, Reg, ControlInv, SwitchCode
   <2> QED BY <2>1, HeadedKept DEF RingInv, NextInRing, Headed
 <1>3. CASE YieldEnter
   <2>1. /\ stk' = stk /\ UNCHANGED <<mem, next, run_queue>>
         /\ current = (IF stk = BOOT THEN NULL ELSE stk)
         /\ reg.link \in Links
     BY <1>3 DEF YieldEnter, At, IInv, TypeOK, Reg, CurrentInv, Window
   <2>2. CASE current # NULL /\ next[current] # current
     <3>1. reg'.to = next[current] /\ pc' = "y_ready"
       BY <1>3, <2>2 DEF YieldEnter, IInv, TypeOK, Reg
     <3> QED BY <2>1, <2>2, <3>1, HeadedKept DEF RingInv, NextInRing, Headed
   <2>3. CASE current = NULL \/ next[current] = current
     <3>1. pc' = reg.link BY <1>3, <2>3 DEF YieldEnter
     <3>2. pc' \notin SwitchCode \union {"kmain"}
       BY <2>1, <3>1 DEF Links, SwitchCode
     <3> QED BY <2>1, <3>2, HeadedKept DEF RingInv, NextInRing
   <2> QED BY <2>2, <2>3
 <1>4. CASE YieldReady \/ SwitchState \/ SwitchCurrent \/ SwitchTss \/ SwitchArg
   <2>1. /\ UNCHANGED <<mem, stk, next, run_queue>> /\ reg'.to = reg.to
         /\ pc \in SwitchCode /\ pc' # "kmain"
     BY <1>4 DEF YieldReady, SwitchState, SwitchCurrent, SwitchTss, SwitchArg, At,
        IInv, TypeOK, Reg, SwitchCode
   <2> QED BY <2>1, HeadedKept DEF RingInv, NextInRing, Headed
 <1>5. CASE SwtchSave
   <2>1. /\ UNCHANGED <<stk, reg, next, run_queue>>
         /\ pc \in SwitchCode /\ pc' # "kmain"
         /\ mem' = [mem EXCEPT ![stk][sp + 1] = SwFrame(reg.link, intr)]
     BY <1>5 DEF SwtchSave, At, SwitchCode
   <2>2. \A s \in Stack : \A e \in 1 .. MaxDepth :
           mem'[s][e] = mem[s][e] \/ mem'[s][e].kind # "irq"
     BY <2>1 DEF SwFrame, IInv, TypeOK
   <2> QED BY <2>1, <2>2, HeadedKept DEF RingInv, NextInRing, Headed
 <1>6. CASE SwtchLoad
   BY <1>6, HeadedKept DEF SwtchLoad, SwitchCode, RingInv, NextInRing
 <1>7. CASE SwtchRet
   <2>1. /\ pc' \notin SwitchCode \union {"kmain"} /\ mem' = Popped
         /\ UNCHANGED <<next, run_queue>>
     BY <1>7 DEF SwtchRet, At, IInv, ControlInv, CurrentInv, BootInv, Handler,
        SwitchCode, StacksInv, StackInv, FrameInv, FrameOK, TypeOK
   <2> QED BY <2>1, PoppedFrames, HeadedKept DEF RingInv, NextInRing
 <1>8. CASE Iret
   <2>1. /\ mem' = Popped /\ UNCHANGED <<next, run_queue, stk>>
         /\ stk \in Stack /\ sp \in 1 .. MaxDepth /\ mem[stk][sp].kind = "irq"
         /\ pc' = mem[stk][sp].pc /\ reg' = mem[stk][sp].reg
     BY <1>8, IretFacts
   <2>2. pc' # "kmain" BY <1>8, IretFacts DEF Stoppable
   <2>3. pc' \in SwitchCode => Headed(stk, reg)'
     BY <2>1 DEF RingInv, NextInRing, Headed
   <2> QED BY <2>1, <2>2, <2>3, PoppedFrames, HeadedKept DEF RingInv, NextInRing
 <1>9. CASE TakeIrq
   <2> DEFINE f == [kind |-> "irq", pc |-> pc, intr |-> intr, ring |-> ring,
                    reg |-> reg]
   <2>1. /\ mem' = [mem EXCEPT ![stk][sp + 1] = f]
         /\ UNCHANGED <<next, run_queue>> /\ pc' = "irq"
     BY <1>9, TakeIrqFacts
   <2>2. ASSUME NEW s \in Stack, NEW e \in 1 .. MaxDepth,
                mem'[s][e].kind = "irq", mem'[s][e].pc \in SwitchCode
         PROVE  Headed(s, mem[s][e].reg)'
     <3>1. CASE s = stk /\ e = sp + 1
       <4>1. mem'[s][e] = f BY <2>1, <3>1 DEF IInv, TypeOK
       <4> QED BY <2>1, <2>2, <3>1, <4>1 DEF RingInv, NextInRing, Headed
     <3>2. CASE ~(s = stk /\ e = sp + 1)
       <4>1. mem'[s][e] = mem[s][e] BY <2>1, <3>2 DEF IInv, TypeOK
       <4> QED BY <2>1, <2>2, <4>1 DEF RingInv, NextInRing, Headed
     <3> QED BY <3>1, <3>2
   <2> QED BY <2>1, <2>2 DEF RingInv, NextInRing, SwitchCode
 <1>10. CASE \E t \in Thread : ThreadCreate(t)
   <2> PICK t \in Thread : ThreadCreate(t) BY <1>10
   <2>1. /\ pc = "kmain" /\ pc' = "kmain"
         /\ mem' = [mem EXCEPT ![t][1] = SwFrame("tramp", TRUE)]
     BY DEF ThreadCreate, At
   <2>2. \A s \in Stack : \A e \in 1 .. MaxDepth : mem'[s][e].kind # "irq"
     BY <2>1 DEF RingInv, SwFrame, IInv, TypeOK
   <2> QED BY <2>1, <2>2 DEF RingInv, NextInRing, SwitchCode
 <1> QED BY <1>1, <1>2, <1>3, <1>4, <1>5, <1>6, <1>7, <1>8, <1>9, <1>10
     DEF Next, Cpu, IrqPath, Boot, Switch

\* No switch is under way at the entry of kmain().
LEMMA InitRing == Init => RingInv
  BY SchedAssumption DEF Init, RingInv, NextInRing, SwitchCode, NoFrame

\* A switch goes to the successor in the ring of the thread that called it,
\* however long a tick stopped it half way.
THEOREM SwitchesFollowRing == ASSUME WellMasked PROVE Spec => []NextInRing
 <1>1. IInv /\ RingInv /\ [Next]_vars => RingInv' BY RingStep
 <1>2. RingInv => NextInRing BY DEF RingInv
 <1> QED BY <1>1, <1>2, InitRing, Invariance, PTL DEF Spec

-----------------------------------------------------------------------------
(***************************************************************************)
(* The refinement.                                                         *)
(***************************************************************************)

\* Two functions that differ in one value.
LEMMA OneUpdate ==
  ASSUME NEW S, NEW f, NEW g, NEW k \in S, NEW v,
         f = [x \in S |-> f[x]], g = [x \in S |-> g[x]],
         g[k] = v, \A x \in S : x # k => g[x] = f[x]
  PROVE  g = [f EXCEPT ![k] = v]
  OBVIOUS

\* A thread that is off the CPU is where its first frame says it is.
LEMMA OffCpu ==
  ASSUME IInv, NEW t \in Created, t # stk
  PROVE  OwnPc(t) = mem[t][1].pc
  BY DEF IInv, StacksInv, OwnPc, Depth

\* A step that leaves the set of threads and the ring alone, and the thread on
\* the CPU at the same point of its own program, is a stutter of RoundRobin.
LEMMA ProgressKept ==
  ASSUME IInv, IInv', Created' = Created, UNCHANGED <<run_queue, next, stk>>,
         \A s \in Stack : s # stk => mem'[s] = mem[s],
         stk # BOOT => PointOf(OwnPc(stk))' = PointOf(OwnPc(stk))
  PROVE  UNCHANGED RR!rrvars
 <1>1. UNCHANGED Running BY DEF Running
 <1>2. Created \subseteq Thread /\ Thread \subseteq Stack
   BY DEF Created, Stack
 <1>3. ASSUME NEW t \in Created
       PROVE  PointOf(OwnPc(t))' = PointOf(OwnPc(t))
   <2>1. CASE t = stk BY <1>2, <1>3, <2>1, SchedAssumption
   <2>2. CASE t # stk
     <3>1. t \in Created' /\ (t # stk)' BY <1>2, <2>2
     <3>2. OwnPc(t)' = mem'[t][1].pc
       BY <3>1 DEF IInv, StacksInv, OwnPc, Depth
     <3> QED BY <1>2, <2>2, <3>2, OffCpu DEF PointOf
   <2> QED BY <2>1, <2>2
 <1>4. UNCHANGED Progress BY <1>2, <1>3 DEF Progress
 <1> QED BY <1>1, <1>4 DEF RR!rrvars

\* A step of the program of the thread on the CPU is a step of RoundRobin.
LEMMA ProgramStep ==
  ASSUME IInv, IInv', UNCHANGED <<run_queue, next, state, stk, mem>>,
         stk # BOOT, sp = 0, sp' = 0,
         PointOf(pc') \in RR!After(stk, PointOf(pc))
  PROVE  RR!Next
 <1>1. /\ Created' = Created /\ Created \subseteq Thread /\ stk \in Created
       /\ stk \in Thread
   BY DEF Created, IInv, CurrentInv
 <1>2. ASSUME NEW t \in Created, t # stk
       PROVE  PointOf(OwnPc(t))' = PointOf(OwnPc(t))
   <2>1. t \in Created' /\ (t # stk)' BY <1>1, <1>2
   <2>2. OwnPc(t)' = mem'[t][1].pc
     BY <2>1 DEF IInv, StacksInv, OwnPc, Depth
   <2> QED BY <2>2, <1>2, OffCpu DEF PointOf
 <1>3. Progress[stk] = PointOf(pc) BY <1>1 DEF Progress, OwnPc, Depth
 <1>4. Progress' = [Progress EXCEPT ![stk] = PointOf(pc')]
   <2>1. (IF stk \in Created THEN PointOf(OwnPc(stk)) ELSE "none")' = PointOf(pc')
     BY <1>1 DEF OwnPc, Depth, PointOf
   <2>2. \A t \in Thread : t # stk =>
           (IF t \in Created THEN PointOf(OwnPc(t)) ELSE "none")' = Progress[t]
     BY <1>1, <1>2 DEF Progress
   <2>3. Progress'[stk] = PointOf(pc') BY <1>1, <2>1 DEF Progress
   <2>4. \A t \in Thread : t # stk => Progress'[t] = Progress[t]
     BY <2>2 DEF Progress
   <2>5. /\ Progress = [t \in Thread |-> Progress[t]]
         /\ Progress' = [t \in Thread |-> Progress'[t]]
     BY DEF Progress
   <2> QED BY <1>1, <2>3, <2>4, <2>5, OneUpdate
 <1>5. Running = stk /\ UNCHANGED Running BY DEF Running
 <1>6. RR!Step(stk) BY <1>3, <1>4, <1>5 DEF RR!Step
 <1> QED BY <1>1, <1>6 DEF RR!Next

\* The creation of a thread is one of RoundRobin.
LEMMA CreateStep ==
  ASSUME IInv, IInv', NEW t \in Thread, ThreadCreate(t)
  PROVE  RR!Next
 <1>1. /\ stk = BOOT /\ stk' = BOOT /\ t \notin Created
       /\ Created' = Created \union {t} /\ Created \subseteq Thread
   BY DEF ThreadCreate, At, cpu, Created, IInv, ControlInv, TypeOK
 <1>2. Running = NULL /\ Running' = NULL BY <1>1 DEF Running
 <1>3. Progress[t] = "none" BY <1>1 DEF Progress
 <1>4. t # BOOT /\ t \in Stack /\ 1 \in 1 .. MaxDepth
   BY SchedAssumption DEF Stack
 <1>5. /\ context'[t].depth = 1
       /\ mem'[t][1] = SwFrame("tramp", TRUE)
   BY <1>4 DEF ThreadCreate, IInv, TypeOK
 <1> DEFINE q(x) == (IF x \in Created THEN PointOf(OwnPc(x)) ELSE "none")'
 <1>6. q(t) = "tramp"
   BY <1>1, <1>4, <1>5
      DEF OwnPc, Depth, PointOf, SwFrame, SwitchPCs, Window
 <1>7. ASSUME NEW x \in Thread, x # t PROVE q(x) = Progress[x]
   <2>1. CASE x \in Created
     <3>1. x # stk /\ x \in Created' /\ (x # stk)'
       BY <1>1, <2>1, SchedAssumption
     <3>2. OwnPc(x)' = mem'[x][1].pc
       BY <3>1 DEF IInv, StacksInv, OwnPc, Depth
     <3>3. mem'[x] = mem[x] BY <1>7, <1>4 DEF ThreadCreate, IInv, TypeOK, Stack
     <3>4. OwnPc(x) = mem[x][1].pc BY <2>1, <3>1, OffCpu
     <3> QED BY <2>1, <3>1, <3>2, <3>3, <3>4 DEF Progress, PointOf
   <2>2. CASE x \notin Created BY <1>1, <1>7, <2>2 DEF Progress
   <2> QED BY <2>1, <2>2
 <1>8. Progress' = [x \in Thread |-> q(x)] BY DEF Progress
 <1>9. Progress = [x \in Thread |-> Progress[x]] BY DEF Progress
 <1>10. Progress' = [Progress EXCEPT ![t] = "tramp"]
   <2> HIDE DEF q
   <2> QED BY <1>6, <1>7, <1>8, <1>9
 <1>11. \/ run_queue = NULL /\ run_queue' = t
           /\ next' = [next EXCEPT ![t] = t]
        \/ run_queue # NULL /\ UNCHANGED run_queue
           /\ next' = [next EXCEPT ![t] = next[run_queue], ![run_queue] = t]
   BY DEF ThreadCreate
 <1>12. RR!Create(t) BY <1>2, <1>3, <1>10, <1>11 DEF RR!Create
 <1> QED BY <1>12 DEF RR!Next

\* The load of esp is the turn of RoundRobin: the first, or the successor's.
LEMMA TurnStep ==
  ASSUME IInv, IInv', RingInv, SwtchLoad
  PROVE  RR!Next
 <1> USE SchedAssumption
 <1>1. /\ pc = "swtch_load" /\ sp > 0
       /\ reg.to \in Created \ {stk} /\ Headed(stk, reg)
       /\ reg.new = context[reg.to]
       /\ UNCHANGED <<run_queue, next, state, context, mem>>
   BY DEF SwtchLoad, At, kern, IInv, ControlInv, RegInv, Leaving, SwitchCode,
      RingInv, NextInRing
 <1>2. /\ stk' = reg.to /\ sp' = context[reg.to].depth
       /\ Created' = Created /\ Created \subseteq Thread
   BY <1>1 DEF SwtchLoad, IInv, StacksInv, Created
 <1>3. Running' = reg.to BY <1>1, <1>2 DEF Running
 <1>4. ASSUME NEW t \in Created
       PROVE  OwnPc(t) = mem[t][1].pc /\ OwnPc(t)' = mem[t][1].pc
   <2>1. context[t].depth > 0 BY <1>1 DEF IInv, StacksInv
   <2>2. OwnPc(t) = mem[t][1].pc BY <2>1, <1>1 DEF OwnPc, Depth, IInv, TypeOK
   <2>3. OwnPc(t)' = mem'[t][1].pc BY <2>1, <1>1, <1>2 DEF OwnPc, Depth
   <2> QED BY <1>1, <2>2, <2>3
 <1>5. UNCHANGED Progress
   <2>1. \A t \in Created : PointOf(OwnPc(t))' = PointOf(OwnPc(t))
     BY <1>4 DEF PointOf
   <2> QED BY <1>2, <2>1 DEF Progress
 <1>6. CASE stk = BOOT
   <2>1. Running = NULL /\ reg.to = run_queue /\ run_queue # NULL
     BY <1>1, <1>2, <1>6 DEF Running, Headed
   <2>2. RR!Start BY <1>1, <1>3, <1>5, <2>1 DEF RR!Start
   <2> QED BY <2>2 DEF RR!Next
 <1>7. CASE stk # BOOT
   <2>1. /\ Running = stk /\ stk \in Created /\ stk # NULL
         /\ reg.to = next[stk]
     BY <1>1, <1>2, <1>7 DEF Running, Headed, IInv, CurrentInv
   <2>2. FrameOK(stk, 1)
     BY <1>1, <1>7 DEF IInv, TypeOK, StacksInv, StackInv, FrameInv
   <2>3. mem[stk][1].pc \in Stoppable BY <2>2 DEF FrameOK, Stoppable
   <2>4. Progress[stk] = PointOf(mem[stk][1].pc) /\ stk \in Thread
     BY <2>1, <1>2, <1>4 DEF Progress
   <2>5. Progress[stk] \notin RR!Critical
     BY <2>3, <2>4 DEF Stoppable, PointOf, RR!Critical
   <2>6. RR!Rotate BY <1>1, <1>3, <1>5, <2>1, <2>5 DEF RR!Rotate
   <2> QED BY <2>6 DEF RR!Next
 <1> QED BY <1>6, <1>7

\* The tick's own path leaves what it interrupted at the same point.
LEMMA IrqStutter ==
  ASSUME WellMasked, IInv, IInv', IrqPath PROVE UNCHANGED RR!rrvars
 <1> USE SchedAssumption
 <1>1. CASE IrqEoi \/ Hardclock
   <2>1. /\ UNCHANGED <<current, run_queue, next, state, context, mem, stk, sp>>
         /\ sp > 0
     BY <1>1 DEF IrqEoi, Hardclock, At, kern, IInv, ControlInv, Handler
   <2>2. PointOf(OwnPc(stk))' = PointOf(OwnPc(stk))
     BY <2>1 DEF OwnPc, Depth, PointOf, IInv, TypeOK
   <2> QED BY <2>1, <2>2, ProgressKept DEF Created
 <1>2. CASE TakeIrq
   <2>1. /\ UNCHANGED <<run_queue, next, state, stk>> /\ sp' = sp + 1
         /\ sp \in Nat /\ sp + 1 < MaxDepth /\ stk \in Stack
         /\ mem' = [mem EXCEPT ![stk][sp + 1] =
              [kind |-> "irq", pc |-> pc, intr |-> intr, ring |-> ring, reg |-> reg]]
     BY <1>2, TakeIrqFacts
   <2>2. \A s \in Stack : s # stk => mem'[s] = mem[s]
     BY <2>1 DEF IInv, TypeOK
   <2>3. OwnPc(stk)' = OwnPc(stk)
     <3>1. OwnPc(stk)' = mem'[stk][1].pc BY <2>1 DEF OwnPc, Depth
     <3>2. CASE sp = 0
       BY <2>1, <3>1, <3>2 DEF OwnPc, Depth, IInv, TypeOK
     <3>3. CASE sp # 0
       BY <2>1, <3>1, <3>3 DEF OwnPc, Depth, IInv, TypeOK
     <3> QED BY <3>2, <3>3
   <2> QED BY <2>1, <2>2, <2>3, ProgressKept DEF Created, PointOf
 <1>3. CASE Iret
   <2>1. /\ UNCHANGED <<run_queue, next, state, stk>> /\ sp' = sp - 1
         /\ stk \in Stack /\ sp \in 1 .. MaxDepth
         /\ mem' = [mem EXCEPT ![stk][sp] = NoFrame]
         /\ pc' = mem[stk][sp].pc
     BY <1>3, IretFacts DEF Popped
   <2>2. \A s \in Stack : s # stk => mem'[s] = mem[s]
     BY <2>1 DEF IInv, TypeOK
   <2>3. OwnPc(stk)' = OwnPc(stk)
     <3>1. OwnPc(stk) = mem[stk][1].pc BY <2>1 DEF OwnPc, Depth
     <3>2. CASE sp = 1
       BY <2>1, <3>1, <3>2 DEF OwnPc, Depth
     <3>3. CASE sp # 1
       BY <2>1, <3>1, <3>3 DEF OwnPc, Depth, IInv, TypeOK
     <3> QED BY <3>2, <3>3
   <2> QED BY <2>1, <2>2, <2>3, ProgressKept DEF Created, PointOf
 <1> QED BY <1>1, <1>2, <1>3 DEF IrqPath

\* yield() is one point of the program of its caller up to the load of esp.
LEMMA SwitchStutter ==
  ASSUME IInv, IInv', Switch, ~SwtchLoad PROVE UNCHANGED RR!rrvars
 <1> USE SchedAssumption
 <1>1. CASE \/ YieldEnter \/ YieldReady \/ SwitchState \/ SwitchCurrent
            \/ SwitchTss \/ SwitchArg
   <2>1. /\ UNCHANGED <<run_queue, next, context, mem, stk, sp>>
         /\ Created' = Created
         /\ pc \in {"yield"} \union (SwitchCode \ {"swtch_load"})
         /\ pc' \in {"yield"} \union SwitchCode \/ pc' = reg.link
     <3>1. CASE YieldEnter
       BY <3>1 DEF YieldEnter, At, kern, cpu, SwitchCode, Created
     <3>2. CASE YieldReady
       <4>1. stk # BOOT
         BY <3>2 DEF YieldReady, At, IInv, BootInv, Handler, SwitchCode
       <4>2. reg.prev \in Created
         BY <3>2, <4>1 DEF YieldReady, At, SwitchCode, IInv, ControlInv, RegInv,
            Leaving, CurrentInv
       <4>3. Created' = Created
         BY <3>2, <4>2 DEF YieldReady, Created, IInv, TypeOK
       <4> QED BY <3>2, <4>3 DEF YieldReady, At, cpu, SwitchCode
     <3>3. CASE SwitchState
       BY <3>3 DEF SwitchState, At, cpu, SwitchCode, Created, IInv, TypeOK,
          ControlInv, RegInv, Leaving
     <3>4. CASE SwitchCurrent \/ SwitchTss \/ SwitchArg
       BY <3>4 DEF SwitchCurrent, SwitchTss, SwitchArg, At, kern, cpu,
          SwitchCode, Created
     <3> QED BY <1>1, <3>1, <3>2, <3>3, <3>4
   <2>2. CASE sp > 0
     BY <2>1, <2>2, ProgressKept DEF OwnPc, Depth, PointOf, IInv, TypeOK
   <2>3. CASE sp = 0 /\ stk # BOOT
     <3>1. reg.link = "thr_ret" BY <2>1, <2>3 DEF IInv, ControlInv, CallerInv
     <3>2. PointOf(pc) = "yield" /\ PointOf(pc') = "yield"
       BY <2>1, <3>1 DEF PointOf, SwitchPCs, Window, SwitchCode
     <3>3. OwnPc(stk) = pc /\ OwnPc(stk)' = pc' BY <2>1, <2>3 DEF OwnPc, Depth
     <3>4. PointOf(OwnPc(stk))' = PointOf(OwnPc(stk))
       BY <3>2, <3>3 DEF PointOf
     <3> QED BY <2>1, <3>4, ProgressKept
   <2>4. CASE stk = BOOT BY <2>1, <2>4, ProgressKept
   <2> QED BY <2>2, <2>3, <2>4 DEF IInv, TypeOK
 <1>2. CASE SwtchSave
   <2>1. /\ UNCHANGED <<run_queue, next, state, stk>> /\ sp' = sp + 1
         /\ sp \in Nat /\ sp < MaxDepth /\ stk \in Stack
         /\ mem' = [mem EXCEPT ![stk][sp + 1] = SwFrame(reg.link, intr)]
         /\ pc = "swtch_save" /\ CallerInv(sp)
     BY <1>2 DEF SwtchSave, At, IInv, TypeOK, ControlInv, SwitchCode
   <2>2. \A s \in Stack : s # stk => mem'[s] = mem[s]
     BY <2>1 DEF IInv, TypeOK
   <2>3. ASSUME stk # BOOT PROVE PointOf(OwnPc(stk))' = PointOf(OwnPc(stk))
     <3>1. OwnPc(stk)' = mem'[stk][1].pc BY <2>1 DEF OwnPc, Depth
     <3>2. CASE sp = 0
       <4>1. reg.link = "thr_ret" BY <2>1, <2>3, <3>2 DEF CallerInv
       <4>2. OwnPc(stk)' = "thr_ret" /\ OwnPc(stk) = "swtch_save"
         BY <2>1, <3>1, <3>2, <4>1 DEF OwnPc, Depth, SwFrame, IInv, TypeOK
       <4> QED BY <4>2 DEF PointOf, SwitchPCs, Window
     <3>3. CASE sp # 0
       <4>1. OwnPc(stk)' = OwnPc(stk)
         BY <2>1, <3>1, <3>3 DEF OwnPc, Depth, IInv, TypeOK
       <4> QED BY <4>1 DEF PointOf
     <3> QED BY <3>2, <3>3
   <2> QED BY <2>1, <2>2, <2>3, ProgressKept DEF Created
 <1>3. CASE SwtchRet
   <2>1. /\ UNCHANGED <<run_queue, next, state, stk>> /\ sp' = sp - 1
         /\ stk \in Stack /\ sp \in 1 .. MaxDepth
         /\ mem' = [mem EXCEPT ![stk][sp] = NoFrame]
         /\ pc' = mem[stk][sp].pc
     BY <1>3 DEF SwtchRet, At, kern, Popped, IInv, TypeOK, ControlInv
   <2>2. \A s \in Stack : s # stk => mem'[s] = mem[s]
     BY <2>1 DEF IInv, TypeOK
   <2>3. OwnPc(stk)' = OwnPc(stk)
     <3>1. OwnPc(stk) = mem[stk][1].pc BY <2>1 DEF OwnPc, Depth
     <3>2. CASE sp = 1
       BY <2>1, <3>1, <3>2 DEF OwnPc, Depth
     <3>3. CASE sp # 1
       BY <2>1, <3>1, <3>3 DEF OwnPc, Depth, IInv, TypeOK
     <3> QED BY <3>2, <3>3
   <2> QED BY <2>1, <2>2, <2>3, ProgressKept DEF Created, PointOf
 <1> QED BY <1>1, <1>2, <1>3 DEF Switch

\* The steps of a thread's own program.
LEMMA RunStep == ASSUME IInv, IInv', Run PROVE RR!Next
 <1> USE SchedAssumption
 <1>1. /\ UNCHANGED <<run_queue, next, state, stk, mem, sp>>
       /\ pc \in ThreadCode
   BY DEF Run, Trampoline, Body, KlogCli, KlogOn, KlogOff, KlogRst,
      YieldReturn, At, kern, ThreadCode, KlogPCs
 <1>2. stk # BOOT /\ sp = 0 /\ current = stk
   BY <1>1 DEF IInv, ControlInv, CurrentInv, ThreadCode, KlogPCs, Window
 <1>3. PointOf(pc') \in RR!After(stk, PointOf(pc))
   BY <1>2 DEF Run, Trampoline, Body, KlogCli, KlogOn, KlogOff, KlogRst,
      YieldReturn, At, PointOf, SwitchPCs, Window, RR!After
 <1> QED BY <1>1, <1>2, <1>3, ProgramStep

\* Every step of the scheduler is a step of the round robin or a stutter.
LEMMA StepImplements ==
  ASSUME WellMasked, IInv, IInv', RingInv, [Next]_vars
  PROVE  [RR!Next]_(RR!rrvars)
 <1>1. CASE UNCHANGED vars \/ PitFire
   <2>1. UNCHANGED <<run_queue, next, state, context, stk, sp, pc, mem>>
     BY <1>1 DEF vars, PitFire, kern, cpu
   <2> QED BY <2>1, ProgressKept DEF Created, OwnPc, Depth, PointOf
 <1>2. CASE IrqPath BY <1>2, IrqStutter
 <1>3. CASE Sti \/ SchedulerStart
   <2>1. UNCHANGED <<run_queue, next, state, stk, mem>> /\ stk = BOOT
     BY <1>3 DEF Sti, SchedulerStart, At, kern, IInv, ControlInv
   <2> QED BY <2>1, ProgressKept DEF Created
 <1>4. CASE \E t \in Thread : ThreadCreate(t) BY <1>4, CreateStep
 <1>5. CASE SwtchLoad BY <1>5, TurnStep
 <1>6. CASE Switch /\ ~SwtchLoad BY <1>6, SwitchStutter
 <1>7. CASE Run BY <1>7, RunStep
 <1> QED BY <1>1, <1>2, <1>3, <1>4, <1>5, <1>6, <1>7 DEF Next, Cpu, Boot

\* No thread exists at the entry of kmain().
LEMMA InitImplements == Init => RR!Init
  BY SchedAssumption DEF Init, RR!Init, Running, Progress, Created

\* The scheduler implements the round robin of thread.h: whatever the ticks
\* do, turns pass in ring order, none ends inside klog(), and a thread that
\* gets the CPU back is at the point of its program where it lost it.
THEOREM ImplementsSafety == ASSUME WellMasked PROVE Spec => RoundRobinSafety
 <1>1. IInv /\ IInv' /\ RingInv /\ [Next]_vars => [RR!Next]_(RR!rrvars)
   BY StepImplements
 <1>2. IInv /\ RingInv /\ [Next]_vars => RingInv' BY RingStep
 <1> QED BY <1>1, <1>2, InitRing, InitImplements, Invariance, PTL
     DEF Spec, RoundRobinSafety
=============================================================================
