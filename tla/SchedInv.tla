------------------------------ MODULE SchedInv ------------------------------
(***************************************************************************)
(* The inductive invariant behind the safety properties of Sched: what     *)
(* each program counter says about the stack in use, the registers and the *)
(* IF flag, and what the frames of every stack say about each other.       *)
(***************************************************************************)
EXTENDS Sched

\* Environment assumption of the theorems: irq0 cuts no switch whose IF is on,
\* or no thread makes such a switch; and kmain() creates a kernel thread.
WellMasked == /\ "start" \in Masked
              /\ "yield" \in Masked \/ Yielders = {}
              /\ Thread # Users

Handler == {"irq", "hardclock", "irq_ret"}
ThreadCode == {"tramp", "body", "klog", "user", "thr_ret"} \union KlogPCs

\* The locals r of a switch that leaves stack s for another thread.
Leaving(s, r) == /\ r.prev = (IF s = BOOT THEN NULL ELSE s)
                 /\ r.to \in Created \ {s}

\* What is saved with, or known at, control point p on stack s.
RegInv(s, p, r) ==
  /\ p \in {"kmain", "start"} => r.prev = NULL
  /\ p \in SwitchCode => Leaving(s, r)
  /\ p = "swtch_ret" => r.link = "none"

\* yield() called by a thread, by scheduler_tick(), or scheduler_start(), with
\* d frames below it on the stack in use.
CallerInv(d) ==
  \/ reg.link = "thr_ret" /\ stk \in Yielders /\ d = 0 /\ intr
  \/ reg.link = "irq_ret" /\ d > 0 /\ mem[stk][d].kind = "irq" /\ ~intr
  \/ reg.link = "start_ret" /\ stk = BOOT /\ d = 0 /\ intr

\* A frame of a thread's stack, with what is saved in it.
FrameInv(s, e) ==
  /\ FrameOK(s, e)
  /\ mem[s][e].kind = "irq" =>
       /\ e < MaxDepth
       /\ mem[s][e].ring = 3 <=> mem[s][e].pc = "user"
       /\ mem[s][e].ring = 3 => ds = "UDATA"
       /\ RegInv(s, mem[s][e].pc, mem[s][e].reg)
       /\ mem[s][e].pc \in SwitchCode \union {"yield"} =>
            mem[s][e].reg.link = "thr_ret" /\ s \in Yielders

StackInv(s, d) == \A e \in 1 .. d : FrameInv(s, e)

\* The run queue holds the threads created so far.
QueueInv ==
  /\ run_queue = NULL <=> Created = {}
  /\ run_queue # NULL => run_queue \in Created
  /\ \A t \in Created : next[t] \in Created

\* The current thread, the stack in use and the tss.
CurrentInv ==
  /\ pc \in Window => current = reg.to
  /\ pc \notin Window => current = (IF stk = BOOT THEN NULL ELSE stk)
  /\ stk # BOOT => stk \in Created
  /\ current # NULL /\ pc # "sw_tss" => esp0 = current

\* kmain() and scheduler_start() on the boot stack, and a tick on top of them.
BootInv ==
  stk = BOOT =>
    /\ pc \in {"kmain", "start", "yield"} \union Handler \union (SwitchCode \ {"y_ready"})
    /\ pc \in SwitchCode => reg.link = "start_ret"
    /\ pc \in Handler \union {"yield"} =>
         /\ sp = 1
         /\ mem[BOOT][1].pc \in {"start", "sw_state", "sw_cur"}
         /\ mem[BOOT][1].intr /\ mem[BOOT][1].ring = 0
         /\ RegInv(BOOT, mem[BOOT][1].pc, mem[BOOT][1].reg)
         /\ mem[BOOT][1].pc # "start" => mem[BOOT][1].reg.link = "start_ret"
    /\ pc # "kmain" => run_queue # NULL

\* What the control point says of the stack in use, the registers and IF.
ControlInv ==
  /\ pc \in {"kmain", "start"} => stk = BOOT /\ sp = 0 /\ (intr <=> pc = "start")
  /\ pc \in ThreadCode => stk # BOOT /\ sp = 0 /\ (intr <=> pc \notin KlogPCs)
  /\ pc \in Handler => sp > 0 /\ mem[stk][sp].kind = "irq" /\ ~intr
  /\ pc \in {"irq", "hardclock"} => reg.prev = NULL
  /\ pc \in ({"yield"} \union SwitchCode) \ {"swtch_load"} => CallerInv(sp)
  /\ pc = "swtch_load" => /\ sp > 0 /\ CallerInv(sp - 1)
                          /\ mem[stk][sp] = SwFrame(reg.link, intr)
  /\ pc = "swtch_ret" => sp > 0 /\ mem[stk][sp].kind = "sw"
  /\ RegInv(stk, pc, reg)
  /\ pc \in {"swtch_save", "swtch_load"} => reg.new = context[reg.to]
  /\ NoWildJump

\* The stack in use, and the saved ones.
StacksInv ==
  /\ stk # BOOT => StackInv(stk, sp)
  /\ \A t \in Created :
       t # stk \/ pc = "swtch_load" =>
         /\ context[t].stk = t
         /\ context[t].depth > 0
         /\ mem[t][context[t].depth].kind = "sw"
         /\ StackInv(t, context[t].depth)

\* Privilege, data segments and the console.
UserInv == /\ ring = 3 <=> pc = "user"
           /\ ring = 3 => ds = "UDATA"
           /\ cons = (IF pc = "klog_off" THEN stk ELSE NULL)

\* Inductive: it is true initially, every step keeps it, and it implies the
\* safety properties of Sched (theorems in SchedProofs).
IInv == /\ TypeOK /\ QueueInv /\ CurrentInv /\ BootInv /\ ControlInv
        /\ StacksInv /\ UserInv

\* NextInRing is inductive with what makes ThreadCreate() harmless to it: no
\* tick has stopped anything while kmain() still edits the ring.
RingInv ==
  /\ NextInRing
  /\ pc = "kmain" =>
       \A s \in Stack : \A e \in 1 .. MaxDepth : mem[s][e].kind # "irq"
=============================================================================
