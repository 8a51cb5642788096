------------------------------ MODULE Utility ------------------------------
(***************************************************************************)
(* What the user programs have in common: the file system, and processes   *)
(* that each run one program on it, one system call at a time.             *)
(*                                                                         *)
(* A command has the name of the program, its options, its operands and    *)
(* the umask.  A process has the operands it has not come to yet, where it *)
(* is, the frames of its recursion and its exit status.  HISTORY: cut says *)
(* whether it was told "no", and whether a readdir() of it failed.         *)
(***************************************************************************)
EXTENDS FileSystem

VARIABLES
  fs,
  proc,
  out,         \* what a process wrote to its standard output
  before       \* HISTORY: the file system at the start

vars == <<fs, proc, out, before>>

Start(cmd) ==
  [cmd |-> cmd, pc |-> IF cmd.prog = "idle" THEN "exited" ELSE "main", ops |-> cmd.operands,
   status |-> 0, cut |-> {}, stack |-> <<>>, v |-> None]

Has(me, option) == option \in me.cmd.options
At(p, prog, pc) == proc[p].cmd.prog = prog /\ proc[p].pc = pc
Goto(me, pc) == [me EXCEPT !.pc = pc]
Failed(me) == [me EXCEPT !.status = 1]
Locals(me, v) == [me EXCEPT !.v = v]

Becomes(p, new) == proc' = [proc EXCEPT ![p] = new]
NoOutput == UNCHANGED <<out, before>>
Silently == UNCHANGED <<fs, out, before>>

\* The loop over the operands: the process takes the Current one and becomes next, or it
\* exits; without operands all but cat exit by usage().
Current(p) == Head(proc[p].ops)
Taken(p) == [proc[p] EXCEPT !.ops = Tail(@)]
Operand(p, prog, next) ==
  /\ At(p, prog, "main")
  /\ Becomes(p, IF proc[p].ops # <<>> THEN next
                ELSE IF proc[p].cmd.operands = <<>> /\ prog # "cat" THEN Goto(Failed(proc[p]), "exited")
                ELSE Goto(proc[p], "exited"))
  /\ Silently

Exited(p, prog) == At(p, prog, "exited")
Alone(p) == \A q \in DOMAIN proc \ {p} : proc[q].cmd.prog = "idle"
=============================================================================
