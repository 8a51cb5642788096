-------------------------------- MODULE Pmm ---------------------------------
(***************************************************************************)
(* The physical page allocator of mkrn (src/src/kern/subr_pmm.c): a bitmap *)
(* with one bit per page, set while the page is taken, the counter of free *)
(* pages and the cursor at which the next search starts.  It takes no lock *)
(* and turns no interrupt off: every caller runs in kmain(), before sti(). *)
(***************************************************************************)
EXTENDS Integers, FiniteSets

CONSTANTS
  PageSize,   \* PAGE_SIZE
  NoMem,      \* PMM_ENOMEM
  MaxPages,   \* BOUND: pages of the largest machine
  MaxAddr     \* BOUND: the addresses and lengths passed to Pmm alone

ASSUME PmmAssumption ==
  /\ PageSize \in Nat \ {0}
  /\ MaxPages \in Nat \ {0} /\ MaxAddr \in Nat
  /\ NoMem \notin Nat

VARIABLES
  busy,          \* the pages whose bit in bitmap[] is set
  npages_total, npages_free, alloc_cursor,
  ret            \* the page pmm_alloc() returned last

pvars == <<busy, npages_total, npages_free, alloc_cursor, ret>>

Page == 0 .. MaxPages - 1
Known == 0 .. npages_total - 1

\* Before pmm_init() there is no bitmap.
Init ==
  /\ busy = {}
  /\ npages_total = 0 /\ npages_free = 0 /\ alloc_cursor = 0
  /\ ret = NoMem

-----------------------------------------------------------------------------

\* The first page that starts at or after x.
RoundUp(x) == (x + PageSize - 1) \div PageSize

\* The page x lies in.
RoundDown(x) == x \div PageSize

\* The pages a loop from first to last - 1 visits.
Span(first, last) == {p \in Known : first <= p /\ p < last}

\* pmm_reserve() rounds outwards, pmm_free_region() inwards.
Covering(base, len) ==
  IF len = 0 THEN {} ELSE Span(RoundDown(base), RoundUp(base + len))
Inside(base, len) ==
  IF len = 0 THEN {} ELSE Span(RoundUp(base), RoundDown(base + len))

\* pmm_init(): every page taken.
PmmInit(n) ==
  /\ busy' = 0 .. n - 1
  /\ npages_total' = n /\ npages_free' = 0 /\ alloc_cursor' = 0
  /\ UNCHANGED ret

\* Mutant: pages taken already are counted once more.
PmmReserve_Recounts(base, len) ==
  LET S == Covering(base, len)
  IN /\ busy' = busy \union S
     /\ npages_free' = npages_free - Cardinality(S)
     /\ UNCHANGED <<npages_total, alloc_cursor, ret>>

PmmReserve(base, len) ==
  LET S == Covering(base, len)
  IN /\ busy' = busy \union S
     /\ npages_free' = npages_free - Cardinality(S \ busy)
     /\ UNCHANGED <<npages_total, alloc_cursor, ret>>

PmmFreeRegion(base, len) ==
  LET S == Inside(base, len)
  IN /\ busy' = busy \ S
     /\ npages_free' = npages_free + Cardinality(S \intersect busy)
     /\ UNCHANGED <<npages_total, alloc_cursor, ret>>

\* The i-th page the search looks at.
Visited(i) == IF alloc_cursor + i < npages_total THEN alloc_cursor + i
              ELSE alloc_cursor + i - npages_total

\* Mutant: the search stops one page short.
Hits_OneShort == {i \in 0 .. npages_total - 2 : Visited(i) \notin busy}

\* The steps of the search at which it finds a free page.
Hits == {i \in 0 .. npages_total - 1 : Visited(i) \notin busy}

\* pmm_alloc(): the first free page from the cursor on, once around.
PmmAlloc ==
  \/ /\ Hits = {}
     /\ ret' = NoMem
     /\ UNCHANGED <<busy, npages_total, npages_free, alloc_cursor>>
  \/ \E i \in Hits :
       /\ \A j \in Hits : i <= j
       /\ ret' = Visited(i)
       /\ busy' = busy \union {Visited(i)}
       /\ npages_free' = npages_free - 1
       /\ alloc_cursor' = Visited(i + 1)
       /\ UNCHANGED npages_total

\* pmm_free() of the page at paddr.
PmmFree(paddr) ==
  LET p == RoundDown(paddr)
  IN /\ IF p \in Known /\ p \in busy
        THEN busy' = busy \ {p} /\ npages_free' = npages_free + 1
        ELSE UNCHANGED <<busy, npages_free>>
     /\ UNCHANGED <<npages_total, alloc_cursor, ret>>

\* Callers in any order, with any ranges.
Next ==
  \/ npages_total = 0 /\ \E n \in 1 .. MaxPages : PmmInit(n)
  \/ npages_total # 0 /\ PmmAlloc
  \/ npages_total # 0 /\
       \E base \in 0 .. MaxAddr :
         \/ PmmFree(base)
         \/ \E len \in 0 .. MaxAddr :
              PmmReserve(base, len) \/ PmmFreeRegion(base, len)

Spec == Init /\ [][Next]_pvars

-----------------------------------------------------------------------------
\* Types.
PmmTypeOK ==
  /\ npages_total \in 0 .. MaxPages
  /\ busy \subseteq Known
  /\ npages_free \in 0 .. npages_total
  /\ alloc_cursor \in Nat /\ (npages_total # 0 => alloc_cursor \in Known)
  /\ ret \in Page \union {NoMem}

\* npages_free is the number of clear bits after every mix of overlapping
\* reserves, frees, allocations and double frees.
CounterFollows == npages_free = Cardinality(Known \ busy)

Bytes(p) == PageSize * p .. PageSize * p + PageSize - 1

\* pmm_reserve() takes every page that the range touches: `errar reservando de
\* mais e seguro'.
ReserveRoundsOut ==
  [][\A base, len \in 0 .. MaxAddr : PmmReserve(base, len) =>
       \A p \in Known : Bytes(p) \intersect (base .. base + len - 1) # {} =>
         p \in busy']_pvars

\* pmm_free_region() never frees a page that the range does not fill: `errar
\* liberando de mais nao e'.
FreeRoundsIn ==
  [][\A base, len \in 0 .. MaxAddr : PmmFreeRegion(base, len) =>
       \A p \in busy \ busy' : Bytes(p) \subseteq base .. base + len - 1]_pvars

Pool == INSTANCE PagePool WITH pool <- Known \ busy, got <- ret

\* pmm_alloc() hands out a free page, which nobody has until it is freed, and
\* fails only if there is none, wherever the cursor stands.
ImplementsPool == Pool!Spec
=============================================================================
