---------------------------- MODULE AddressSpace ----------------------------
(***************************************************************************)
(* What sys/vmm.h and machine/pmap.h promise: an address space is a        *)
(* function from virtual pages to mappings, and a call touches one page of *)
(* it.  A page that is mapped is unmapped before it is mapped to something *)
(* else.                                                                   *)
(***************************************************************************)
CONSTANTS VPage, None
VARIABLE space

Init == space = [v \in VPage |-> None]

Only(v) == \A u \in VPage \ {v} : space'[u] = space[u]

Map(v) == space[v] = None /\ space'[v] # None /\ Only(v)
Unmap(v) == space[v] # None /\ space'[v] = None /\ Only(v)

Next == \E v \in VPage : Map(v) \/ Unmap(v)

Spec == Init /\ [][Next]_space
=============================================================================
