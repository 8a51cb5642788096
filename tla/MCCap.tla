------------------------------- MODULE MCCap --------------------------------
(***************************************************************************)
(* Two threads on a table that starts with one slot and doubles twice.     *)
(***************************************************************************)
EXTENDS Cap, TLC
CONSTANTS t, u, task, vmo
MCProc == {t, u}
MCKinds == {task, vmo}
MCSymmetry == Permutations({t, u}) \union Permutations({task, vmo})
=============================================================================
