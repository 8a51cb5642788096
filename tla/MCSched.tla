------------------------------ MODULE MCSched -------------------------------
(***************************************************************************)
(* Small instances of the scheduler: two kernel threads (thread_a and      *)
(* thread_b of main.c) and one user thread.                                *)
(***************************************************************************)
EXTENDS SchedRR, SchedInv, TLC
CONSTANTS a, b, u
MCThread == {a, b, u}
MCUsers == {u}
MCKernel == {a, b}
MCBoth == {"yield", "start"}
MCStart == {"start"}
\* thread_a and thread_b run the same program.
MCSymmetry == Permutations({a, b})
=============================================================================
