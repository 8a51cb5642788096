------------------------------ MODULE SchedRR -------------------------------
(***************************************************************************)
(* The scheduler of Sched implements RoundRobin: what each thread sees of  *)
(* itself is read off the CPU or, when it is off the CPU or under a tick,  *)
(* off the first frame of its kernel stack.                                *)
(***************************************************************************)
EXTENDS Sched

\* How much of its own stack a thread has in use.
Depth(t) == IF stk = t THEN sp ELSE context[t].depth

\* The instruction of its own program a thread is at.
OwnPc(t) == IF Depth(t) = 0 THEN pc ELSE mem[t][1].pc

\* All of yield() is one point of the program of the thread that called it.
PointOf(p) ==
  IF p \in {"yield", "y_ready", "thr_ret"} \union SwitchPCs THEN "yield" ELSE p

\* What RoundRobin calls `running' and `at'.
Running  == IF stk = BOOT THEN NULL ELSE stk
Progress == [t \in Thread |-> IF t \in Created THEN PointOf(OwnPc(t)) ELSE "none"]

RR == INSTANCE RoundRobin WITH head <- run_queue, succ <- next,
                               running <- Running, at <- Progress

\* Every behaviour of the detailed scheduler, with its ticks, frames and
\* switches, is a behaviour of the round robin that thread.h describes: turns
\* pass in ring order, none ends inside klog(), and a thread resumes where it
\* stopped.
RoundRobinSafety == RR!Init /\ [][RR!Next]_(RR!rrvars)

\* The same with its fairness: the detailed scheduler also keeps the turns
\* coming.
ImplementsRoundRobin == RR!Spec
=============================================================================
