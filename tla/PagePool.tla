------------------------------ MODULE PagePool ------------------------------
(***************************************************************************)
(* What the page allocator of mkrn promises (sys/pmm.h): a pool of pages,  *)
(* empty at first, of which an allocation takes any one; it fails only     *)
(* when the pool is empty.                                                 *)
(***************************************************************************)
CONSTANTS Page, NoMem

VARIABLES pool, got    \* the free pages; what the last allocation returned

poolvars == <<pool, got>>

Init == pool = {} /\ got = NoMem

Give == \E S \in SUBSET Page : pool' = pool \union S /\ UNCHANGED got
Keep == \E S \in SUBSET Page : pool' = pool \ S /\ UNCHANGED got

Take == \/ \E p \in pool : pool' = pool \ {p} /\ got' = p
        \/ pool = {} /\ got' = NoMem /\ UNCHANGED pool

Next == Give \/ Keep \/ Take
Spec == Init /\ [][Next]_poolvars
=============================================================================
