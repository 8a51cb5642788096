------------------------------- MODULE Sched -------------------------------
(***************************************************************************)
(* The scheduler of mkrn (src/src/kern/subr_thread.c) together with the    *)
(* code a context switch runs through: swtch() (amd64/switch.S), the irq0  *)
(* path (amd64/idt_stubs.S, amd64/irq.c, amd64/pit.c), the first entry to  *)
(* ring 3 (amd64/user_enter.S) and the klog() critical section             *)
(* (subr_log.c).                                                           *)
(*                                                                         *)
(* There is one CPU.  One action is one interruptible point of the code:   *)
(* irq0 may arrive before any of them while the IF flag is on.             *)
(***************************************************************************)
EXTENDS Naturals, FiniteSets

CONSTANTS
  Thread,     \* the threads kmain() may create
  Users,      \* those made by thread_create_user()
  Yielders,   \* kernel threads whose loop calls yield()
  NULL,
  BOOT,       \* the stack kmain() runs on; it belongs to no thread
  Masked,     \* environment assumption: switches that irq0 does not cut
  MaxDepth,   \* BOUND: frames a kernel stack holds
  TickMod     \* BOUND: ticks is counted modulo this

ASSUME SchedAssumption ==
  /\ Users \subseteq Thread
  /\ Yielders \subseteq Thread \ Users
  /\ NULL \notin Thread
  /\ BOOT \notin Thread \union {NULL}
  /\ Masked \subseteq {"yield", "start"}
  /\ MaxDepth \in Nat /\ MaxDepth >= 2
  /\ TickMod \in Nat \ {0}

VARIABLES
  current, run_queue, next, state, context,   \* subr_thread.c
  esp0, ds,                                   \* the tss and the data segments
  pc, intr, ring, stk, sp, reg,               \* the CPU
  mem,                                        \* the kernel stacks
  irr, isr, ticks,                            \* irq0 in the 8259, the clock
  cons                                        \* the console

kern == <<current, run_queue, next, state, context>>
segs == <<esp0, ds>>
cpu  == <<pc, intr, ring, stk, sp, reg>>
dev  == <<irr, isr, ticks>>
vars == <<kern, segs, cpu, mem, dev, cons>>

-----------------------------------------------------------------------------
Stack  == Thread \union {BOOT}
ThreadOrNull == Thread \union {NULL}
Links  == {"none", "thr_ret", "irq_ret", "start_ret"}
Window == {"sw_tss", "sw_arg", "swtch_save", "swtch_load"}
SwitchPCs == Window \union {"sw_state", "sw_cur", "swtch_ret"}
KlogPCs == {"klog_on", "klog_off", "klog_rst"}
PC == {"kmain", "start", "tramp", "user", "body", "klog", "yield", "y_ready",
       "irq", "hardclock", "panic", "wild"}
      \union SwitchPCs \union KlogPCs \union (Links \ {"none"})

\* A struct context * : which stack it points into and at which frame.
Ptr == [stk : Stack, depth : 0 .. MaxDepth]
NoPtr == [stk |-> BOOT, depth |-> 0]

\* The registers live across the code of yield() and scheduler_start():
\* its locals, the argument of switch_to() and the return address.
Reg == [prev : ThreadOrNull, to : ThreadOrNull, new : Ptr, link : Links]
NoReg == [prev |-> NULL, to |-> NULL, new |-> NoPtr, link |-> "none"]

\* What is on a kernel stack: a struct context ("sw") or a trapframe ("irq").
Frame == [kind : {"none", "sw", "irq"}, pc : PC, intr : BOOLEAN,
          ring : {0, 3}, reg : Reg]
NoFrame == [kind |-> "none", pc |-> "wild", intr |-> FALSE, ring |-> 0,
            reg |-> NoReg]
SwFrame(ret, if) == [kind |-> "sw", pc |-> ret, intr |-> if, ring |-> 0,
                     reg |-> NoReg]

\* What lies above esp is dead: a popped frame is forgotten.
Popped == [mem EXCEPT ![stk][sp] = NoFrame]

Created == {t \in Thread : state[t] # "none"}

Init ==
  /\ current = NULL /\ run_queue = NULL
  /\ next = [t \in Thread |-> NULL]
  /\ state = [t \in Thread |-> "none"]
  /\ context = [t \in Thread |-> NoPtr]
  /\ esp0 = NULL /\ ds = "KDATA"
  /\ pc = "kmain" /\ intr = FALSE /\ ring = 0 /\ stk = BOOT /\ sp = 0
  /\ reg = NoReg
  /\ mem = [s \in Stack |-> [d \in 1 .. MaxDepth |-> NoFrame]]
  /\ irr = FALSE /\ isr = FALSE /\ ticks = 0
  /\ cons = NULL

-----------------------------------------------------------------------------
(***************************************************************************)
(* irq0.  Window is where `current' is already the next thread and the     *)
(* stack in use is still the previous one's.  It runs with IF off when a   *)
(* tick opened it, with IF on when yield() or scheduler_start() did;       *)
(* Masked lists those of the latter the environment does not interrupt.    *)
(***************************************************************************)
Shielded ==
  /\ pc \in Window
  /\ \/ reg.link = "thr_ret" /\ "yield" \in Masked
     \/ reg.link = "start_ret" /\ "start" \in Masked

IrqReady == /\ intr /\ irr /\ ~isr
            /\ ~Shielded
            /\ ring = 3 \/ sp + 2 <= MaxDepth

\* The CPU executes the instruction at pc p: no interrupt is due before it.
At(p) == pc = p /\ ~IrqReady

\* The pit asserts its line; the 8259 latches one request.
PitFire == /\ ~irr
           /\ irr' = TRUE
           /\ UNCHANGED <<kern, segs, cpu, mem, isr, ticks, cons>>

\* The interrupt gate: from ring 3 the CPU first moves to the stack in the
\* tss; the stub saves every register; the gate turns IF off.
TakeIrq ==
  LET s == IF ring = 3 THEN esp0 ELSE stk
      d == IF ring = 3 THEN 1 ELSE sp + 1
  IN /\ IrqReady
     /\ stk' = s /\ sp' = d
     /\ mem' = [mem EXCEPT ![s][d] = [kind |-> "irq", pc |-> pc, intr |-> intr,
                                      ring |-> ring, reg |-> reg]]
     /\ pc' = "irq" /\ intr' = FALSE /\ ring' = 0 /\ reg' = NoReg
     /\ irr' = FALSE /\ isr' = TRUE
     /\ UNCHANGED <<kern, segs, ticks, cons>>

\* Mutant: the handler runs and the end of interrupt is never sent before it.
IrqEoi_None == /\ At("irq")
               /\ pc' = "hardclock"
               /\ UNCHANGED <<kern, segs, intr, ring, stk, sp, reg, mem, irr,
                              isr, ticks, cons>>

\* irq_dispatch(): pic_eoi() comes before the handler.
IrqEoi == /\ At("irq")
          /\ isr' = FALSE
          /\ pc' = "hardclock"
          /\ UNCHANGED <<kern, segs, intr, ring, stk, sp, reg, mem, irr, ticks, cons>>

\* hardclock(): ticks++, then scheduler_tick(), which is yield().
Hardclock == /\ At("hardclock")
             /\ ticks' = (ticks + 1) % TickMod
             /\ pc' = "yield"
             /\ reg' = [reg EXCEPT !.link = "irq_ret"]
             /\ UNCHANGED <<kern, segs, intr, ring, stk, sp, mem, irr, isr, cons>>

\* The data segment survives an iret to ring 3 only if ring 3 may use it.
AfterIret(r) == IF r = 3 /\ ds = "KDATA" THEN "null" ELSE ds

\* popa and iret at the end of isr_common_stub.
Iret ==
  /\ At("irq_ret")
  /\ IF sp = 0 \/ mem[stk][sp].kind # "irq"
     THEN /\ pc' = "wild"
          /\ UNCHANGED <<intr, ring, sp, reg, ds, mem>>
     ELSE LET f == mem[stk][sp]
          IN /\ pc' = f.pc /\ intr' = f.intr /\ ring' = f.ring /\ reg' = f.reg
             /\ ds' = AfterIret(f.ring)
             /\ sp' = sp - 1 /\ mem' = Popped
  /\ UNCHANGED <<kern, esp0, stk, dev, cons>>

-----------------------------------------------------------------------------
(***************************************************************************)
(* Boot: kmain() creates the threads with IF off, then sti().              *)
(***************************************************************************)

\* thread_create() and thread_create_user(): thread_new() links t behind the
\* head of the circular queue, thread_init_context() builds its first frame.
ThreadCreate(t) ==
  /\ At("kmain")
  /\ t \notin Created
  /\ state' = [state EXCEPT ![t] = "READY"]
  /\ IF run_queue = NULL
     THEN next' = [next EXCEPT ![t] = t] /\ run_queue' = t
     ELSE /\ next' = [next EXCEPT ![t] = next[run_queue], ![run_queue] = t]
          /\ UNCHANGED run_queue
  /\ mem' = [mem EXCEPT ![t][1] = SwFrame("tramp", TRUE)]
  /\ context' = [context EXCEPT ![t] = [stk |-> t, depth |-> 1]]
  /\ UNCHANGED <<current, segs, cpu, dev, cons>>

\* sti(): the kernel threads exist; a user task is skipped if memory is short.
Sti == /\ At("kmain")
       /\ Thread \ Users \subseteq Created
       /\ intr' = TRUE
       /\ pc' = "start"
       /\ UNCHANGED <<kern, segs, ring, stk, sp, reg, mem, dev, cons>>

\* scheduler_start(): its switch_to() and swtch() are those of yield().
SchedulerStart ==
  /\ At("start")
  /\ IF run_queue = NULL
     THEN pc' = "panic" /\ UNCHANGED reg
     ELSE /\ pc' = "sw_state"
          /\ reg' = [reg EXCEPT !.to = run_queue, !.link = "start_ret"]
  /\ UNCHANGED <<kern, segs, intr, ring, stk, sp, mem, dev, cons>>

-----------------------------------------------------------------------------
(***************************************************************************)
(* yield(), switch_to() and swtch().                                       *)
(***************************************************************************)
\* Mutant: the ring is walked two links at a time.
YieldEnter_SkipsOne ==
  /\ At("yield")
  /\ IF current = NULL
     THEN pc' = reg.link /\ UNCHANGED reg
     ELSE IF next[current] = current
     THEN pc' = reg.link /\ UNCHANGED reg
     ELSE /\ pc' = "y_ready"
          /\ reg' = [reg EXCEPT !.prev = current, !.to = next[next[current]]]
  /\ UNCHANGED <<kern, segs, intr, ring, stk, sp, mem, dev, cons>>

YieldEnter ==
  /\ At("yield")
  /\ IF current = NULL
     THEN pc' = reg.link /\ UNCHANGED reg
     ELSE IF next[current] = current
     THEN pc' = reg.link /\ UNCHANGED reg
     ELSE /\ pc' = "y_ready"
          /\ reg' = [reg EXCEPT !.prev = current, !.to = next[current]]
  /\ UNCHANGED <<kern, segs, intr, ring, stk, sp, mem, dev, cons>>

YieldReady == /\ At("y_ready")
              /\ state' = [state EXCEPT ![reg.prev] = "READY"]
              /\ pc' = "sw_state"
              /\ UNCHANGED <<current, run_queue, next, context, segs, intr,
                             ring, stk, sp, reg, mem, dev, cons>>

SwitchState == /\ At("sw_state")
               /\ state' = [state EXCEPT ![reg.to] = "RUNNING"]
               /\ pc' = "sw_cur"
               /\ UNCHANGED <<current, run_queue, next, context, segs, intr,
                              ring, stk, sp, reg, mem, dev, cons>>

SwitchCurrent == /\ At("sw_cur")
                 /\ current' = reg.to
                 /\ pc' = "sw_tss"
                 /\ UNCHANGED <<run_queue, next, state, context, segs, intr,
                                ring, stk, sp, reg, mem, dev, cons>>

\* Mutant: switch_to() does not call tss_set_kstack().
SwitchTss_Skipped == /\ At("sw_tss")
                     /\ pc' = "sw_arg"
                     /\ UNCHANGED <<kern, segs, intr, ring, stk, sp, reg, mem,
                                    dev, cons>>

SwitchTss == /\ At("sw_tss")
             /\ esp0' = reg.to
             /\ pc' = "sw_arg"
             /\ UNCHANGED <<kern, ds, intr, ring, stk, sp, reg, mem, dev, cons>>

\* The caller reads `current' again for the second argument of swtch().
SwitchArg == /\ At("sw_arg")
             /\ reg' = [reg EXCEPT !.new = context[current]]
             /\ pc' = "swtch_save"
             /\ UNCHANGED <<kern, segs, intr, ring, stk, sp, mem, dev, cons>>

\* Mutant: swtch(&current->context, ...), the thread that comes in.
SwtchSave_ToCurrent ==
  /\ At("swtch_save")
  /\ mem' = [mem EXCEPT ![stk][sp + 1] = SwFrame(reg.link, intr)]
  /\ sp' = sp + 1
  /\ context' = IF reg.prev = NULL THEN context
                ELSE [context EXCEPT ![current] = [stk |-> stk, depth |-> sp + 1]]
  /\ pc' = "swtch_load"
  /\ UNCHANGED <<current, run_queue, next, state, segs, intr, ring, stk, reg,
                 dev, cons>>

\* swtch(): push the context, *old = esp.  scheduler_start() passes a dummy.
SwtchSave ==
  /\ At("swtch_save")
  /\ mem' = [mem EXCEPT ![stk][sp + 1] = SwFrame(reg.link, intr)]
  /\ sp' = sp + 1
  /\ context' = IF reg.prev = NULL THEN context
                ELSE [context EXCEPT ![reg.prev] = [stk |-> stk, depth |-> sp + 1]]
  /\ pc' = "swtch_load"
  /\ UNCHANGED <<current, run_queue, next, state, segs, intr, ring, stk, reg,
                 dev, cons>>

\* swtch(): esp = new.
SwtchLoad == /\ At("swtch_load")
             /\ stk' = reg.new.stk /\ sp' = reg.new.depth
             /\ pc' = "swtch_ret" /\ reg' = NoReg
             /\ UNCHANGED <<kern, segs, intr, ring, mem, dev, cons>>

\* Mutant: no pushf/popf, the IF flag of the old thread stays.
SwtchRet_NoPopf ==
  /\ At("swtch_ret")
  /\ IF sp = 0 \/ mem[stk][sp].kind # "sw"
     THEN pc' = "wild" /\ UNCHANGED <<sp, mem>>
     ELSE pc' = mem[stk][sp].pc /\ sp' = sp - 1 /\ mem' = Popped
  /\ UNCHANGED <<kern, segs, intr, ring, stk, reg, dev, cons>>

\* swtch(): pop the registers and eflags of the new thread, ret.
SwtchRet ==
  /\ At("swtch_ret")
  /\ IF sp = 0 \/ mem[stk][sp].kind # "sw"
     THEN pc' = "wild" /\ UNCHANGED <<intr, sp, mem>>
     ELSE /\ pc' = mem[stk][sp].pc
          /\ intr' = mem[stk][sp].intr
          /\ sp' = sp - 1 /\ mem' = Popped
  /\ UNCHANGED <<kern, segs, ring, stk, reg, dev, cons>>

-----------------------------------------------------------------------------
(***************************************************************************)
(* What the threads do: thread_trampoline(), then a loop that logs a line  *)
(* and, for the threads of main.c, yields.  A user thread only spins.      *)
(***************************************************************************)
Trampoline ==
  /\ At("tramp")
  /\ IF current \in Users
     THEN pc' = "user" /\ ring' = 3 /\ intr' = TRUE /\ ds' = "UDATA"
     ELSE pc' = "body" /\ UNCHANGED <<ring, intr, ds>>
  /\ UNCHANGED <<kern, esp0, stk, sp, reg, mem, dev, cons>>

\* The thread's loop calls klog().
Body == /\ At("body")
        /\ pc' = "klog"
        /\ UNCHANGED <<kern, segs, intr, ring, stk, sp, reg, mem, dev, cons>>

\* Mutant: vklog() does not turn interrupts off.
KlogCli_NoCli == /\ At("klog")
                 /\ pc' = "klog_on"
                 /\ UNCHANGED <<kern, segs, intr, ring, stk, sp, reg, mem, dev, cons>>

\* vklog(): cli_save().
KlogCli == /\ At("klog")
           /\ intr' = FALSE
           /\ pc' = "klog_on"
           /\ UNCHANGED <<kern, segs, ring, stk, sp, reg, mem, dev, cons>>

\* cons_log(1) and the first half of the line.
KlogOn == /\ At("klog_on")
          /\ cons' = stk
          /\ pc' = "klog_off"
          /\ UNCHANGED <<kern, segs, intr, ring, stk, sp, reg, mem, dev>>

\* The end of the line and cons_log(0).
KlogOff == /\ At("klog_off")
           /\ cons' = NULL
           /\ pc' = "klog_rst"
           /\ UNCHANGED <<kern, segs, intr, ring, stk, sp, reg, mem, dev>>

\* sti_restore(): klog() was entered with IF on; then the loop goes on.
KlogRst ==
  /\ At("klog_rst")
  /\ intr' = TRUE
  /\ IF stk \in Yielders
     THEN pc' = "yield" /\ reg' = [NoReg EXCEPT !.link = "thr_ret"]
     ELSE pc' = "body" /\ UNCHANGED reg
  /\ UNCHANGED <<kern, segs, ring, stk, sp, mem, dev, cons>>

\* yield() returns to the loop.
YieldReturn == /\ At("thr_ret")
               /\ pc' = "body" /\ reg' = NoReg
               /\ UNCHANGED <<kern, segs, intr, ring, stk, sp, mem, dev, cons>>

-----------------------------------------------------------------------------
IrqPath == TakeIrq \/ IrqEoi \/ Hardclock \/ Iret
Boot == (\E t \in Thread : ThreadCreate(t)) \/ Sti \/ SchedulerStart
Switch == \/ YieldEnter \/ YieldReady \/ SwitchState \/ SwitchCurrent
          \/ SwitchTss \/ SwitchArg \/ SwtchSave \/ SwtchLoad \/ SwtchRet
Run == \/ Trampoline \/ Body \/ KlogCli \/ KlogOn \/ KlogOff \/ KlogRst
       \/ YieldReturn

Cpu == IrqPath \/ Boot \/ Switch \/ Run
Next == PitFire \/ Cpu

\* Steps of the code a tick interrupts, not of the tick's own path.
OwnStep == Cpu /\ pc \notin {"irq", "hardclock", "irq_ret"}
               /\ reg.link # "irq_ret" /\ ~IrqReady

\* A user thread spins in ring 3: its steps leave the kernel's state alone.
UserSpins == pc = "user" /\ ~IrqReady

\* The CPU never stops fetching, the pit was programmed to fire forever, and
\* a tick is over long before the next (100 Hz): code other than the tick's
\* path keeps getting instructions executed, a user's loop included.
Fairness == /\ WF_vars(Cpu) /\ WF_vars(PitFire)
            /\ []<><<OwnStep>>_vars \/ []<>UserSpins
Spec == Init /\ [][Next]_vars /\ Fairness

-----------------------------------------------------------------------------
(***************************************************************************)
(* What must hold.                                                         *)
(***************************************************************************)

\* Types.  A thread that exists is linked into the run queue: next is never
\* NULL for it, which yield() takes for granted (prev->next == prev).
TypeOK ==
  /\ current \in ThreadOrNull /\ run_queue \in ThreadOrNull
  /\ next \in [Thread -> ThreadOrNull]
  /\ state \in [Thread -> {"none", "READY", "RUNNING"}]
  /\ \A t \in Created : next[t] # NULL
  /\ context \in [Thread -> Ptr]
  /\ esp0 \in ThreadOrNull /\ ds \in {"KDATA", "UDATA", "null"}
  /\ pc \in PC /\ intr \in BOOLEAN /\ ring \in {0, 3}
  /\ stk \in Stack /\ sp \in 0 .. MaxDepth /\ reg \in Reg
  /\ mem \in [Stack -> [1 .. MaxDepth -> Frame]]
  /\ irr \in BOOLEAN /\ isr \in BOOLEAN /\ ticks \in 0 .. TickMod - 1
  /\ cons \in Stack \union {NULL}

\* Outside the few instructions between `current = t' and the load of esp,
\* the CPU runs on the stack of the thread `current' names: every handler and
\* thread_trampoline() trust `current' to be the thread they run in.
OwnStack == pc \notin Window => current = (IF stk = BOOT THEN NULL ELSE stk)

\* Where a thread may be when a tick stops it with nothing else on its stack.
Stoppable == {"tramp", "body", "klog", "yield", "y_ready", "sw_state", "sw_cur",
              "thr_ret", "user"}

\* Frame e of stack s is one that the frames below it explain: a thread's
\* first frame is thread_init_context()'s, a yield() or a tick; a tick's switch
\* lies on its trapframe; a tick inside swtch() lies on the context it pops.
FrameOK(s, e) ==
  LET f == mem[s][e]
  IN \/ e = 1 /\ f.kind = "sw" /\ f.pc \in {"tramp", "thr_ret"} /\ f.intr
     \/ e = 1 /\ f.kind = "irq" /\ f.pc \in Stoppable /\ f.intr
     \/ e > 1 /\ f.kind = "sw" /\ f.pc = "irq_ret" /\ ~f.intr
              /\ mem[s][e - 1].kind = "irq"
     \/ e > 1 /\ f.kind = "irq" /\ f.pc = "swtch_ret" /\ f.intr
              /\ mem[s][e - 1].kind = "sw"

\* The context of every thread that is off the CPU points into that thread's
\* own stack, at a context swtch() can pop, above frames that can all be
\* unwound: no switch, cooperative or preemptive, overwrites a saved thread.
SavedContextsIntact ==
  \A t \in Created :
    t # stk \/ pc = "swtch_load" =>
      /\ context[t].stk = t
      /\ context[t].depth > 0
      /\ mem[t][context[t].depth].kind = "sw"
      /\ \A e \in 1 .. context[t].depth : FrameOK(t, e)

\* No switch returns into something that is not a saved context or trapframe,
\* and neither panic of scheduler_start() is reached (`inalcancavel').
NoWildJump == pc \notin {"wild", "panic", "start_ret"}

\* In ring 3 the tss holds the stack of the running thread: the next tick must
\* not build its trapframe on the stack of another thread.
Esp0IsOwners == ring = 3 => esp0 = stk /\ current = stk

\* Ring 3 always runs with data segments it may use, also when it is resumed
\* by an interrupt stub that does not save them.
UserSegments == ring = 3 => ds = "UDATA"

\* IF follows the thread, not the switch: whichever way the CPU came back to a
\* thread, its own code runs with interrupts on, and the handler and the
\* klog() section run with interrupts off (the pushf/popf of swtch()).
InterruptsRestored ==
  /\ pc \in {"tramp", "body", "klog", "user", "thr_ret"} => intr
  /\ pc \in {"irq", "hardclock", "irq_ret"} \union KlogPCs => ~intr
  /\ pc \in {"yield", "y_ready"} \union SwitchPCs =>
       /\ reg.link = "irq_ret" => ~intr
       /\ reg.link \in {"thr_ret", "start_ret"} => intr

\* A console line is written by one thread from its first character to its
\* last: while the console is in log mode, the thread that set it is running.
LinesWhole == /\ cons # NULL => stk = cons /\ pc = "klog_off"
              /\ pc = "klog_off" => cons = stk

\* The run queue is one ring through every thread created so far.
OneRing ==
  /\ run_queue = NULL <=> Created = {}
  /\ run_queue # NULL => run_queue \in Created
  /\ \A t \in Created : next[t] \in Created
  /\ \A S \in SUBSET Created :
       S # {} /\ (\A t \in S : next[t] \in S) => S = Created

\* The code between the entry of yield() and the push of its context.
SwitchCode == {"y_ready", "sw_state", "sw_cur", "sw_tss", "sw_arg", "swtch_save",
               "swtch_load"}

\* Where a switch that leaves stack s, with the locals r, has to go.
Headed(s, r) == r.to = (IF s = BOOT THEN run_queue ELSE next[s])

\* A switch goes to the successor in the ring of the thread that called it,
\* also one that a tick stopped half way and that goes on many turns later.
NextInRing ==
  /\ pc \in SwitchCode => Headed(stk, reg)
  /\ \A s \in Stack : \A e \in 1 .. MaxDepth :
       mem[s][e].kind = "irq" /\ mem[s][e].pc \in SwitchCode =>
         Headed(s, mem[s][e].reg)

\* No thread is starved, whether or not the others ever call yield().
EveryThreadRuns == \A t \in Thread : [](t \in Created => <>(stk = t))

\* thread.h says a switch by yield() and one by the timer make no difference
\* to the thread switched out.  [Refuted when a tick may cut yield() itself.]
SwitchMotiveInvisible == NoWildJump

=============================================================================
