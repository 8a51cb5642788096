----------------------------- MODULE PmapProofs -----------------------------
(***************************************************************************)
(* Proofs about kmain()'s way from the boot loader's memory map to the     *)
(* address space with everything in it (PmmBoot, Pmap), for every machine, *)
(* page and table size and layout that the assumptions allow.              *)
(***************************************************************************)
EXTENDS Pmap, SequenceTheorems, FiniteSetTheorems, Arithmetic

-----------------------------------------------------------------------------
(***************************************************************************)
(* The page allocator by itself, for machines and pages of every size.     *)
(***************************************************************************)

\* Some of n pages are finitely many, and at most n.
LEMMA PageCount ==
  ASSUME NEW n \in Nat, NEW S \in SUBSET (0 .. n - 1)
  PROVE  IsFiniteSet(S) /\ Cardinality(S) \in 0 .. n
<1>1. IsFiniteSet(0 .. n - 1) /\ Cardinality(0 .. n - 1) = n
  BY FS_Interval
<1>2. IsFiniteSet(S) /\ Cardinality(S) <= n
  BY <1>1, FS_Subset
<1>. QED
  BY <1>2, FS_CardinalityType

\* Taking pages S beside the pages B costs as many free pages as S adds to B.
LEMMA TakenCount ==
  ASSUME NEW n \in Nat, NEW B \in SUBSET (0 .. n - 1), NEW S \in SUBSET (0 .. n - 1)
  PROVE  Cardinality((0 .. n - 1) \ (B \union S)) =
           Cardinality((0 .. n - 1) \ B) - Cardinality(S \ B)
<1>. DEFINE F == (0 .. n - 1) \ B
<1>1. IsFiniteSet(F)
  BY PageCount
<1>2. Cardinality(F \ S) = Cardinality(F) - Cardinality(F \intersect S)
  BY <1>1, FS_Difference
<1>3. F \ S = (0 .. n - 1) \ (B \union S) /\ F \intersect S = S \ B
  OBVIOUS
<1>. QED
  BY <1>2, <1>3

\* Freeing pages S gains as many free pages as S has of the taken ones.
LEMMA FreedCount ==
  ASSUME NEW n \in Nat, NEW B \in SUBSET (0 .. n - 1), NEW S \in SUBSET (0 .. n - 1)
  PROVE  Cardinality((0 .. n - 1) \ (B \ S)) =
           Cardinality((0 .. n - 1) \ B) + Cardinality(S \intersect B)
<1>. DEFINE F == (0 .. n - 1) \ (B \ S)
            T == S \intersect B
<1>1. IsFiniteSet(F) /\ IsFiniteSet(F \ T) /\ IsFiniteSet(T)
  BY PageCount, FS_Subset
<1>2. Cardinality(F \ T) = Cardinality(F) - Cardinality(F \intersect T)
  BY <1>1, FS_Difference
<1>3. F \ T = (0 .. n - 1) \ B /\ F \intersect T = T
  OBVIOUS
<1>4. Cardinality(F) \in Nat /\ Cardinality(F \ T) \in Nat /\ Cardinality(T) \in Nat
  BY <1>1, FS_CardinalityType
<1>. QED
  BY <1>2, <1>3, <1>4

\* The search looks at every page there is, and at no other.
LEMMA SearchGoesAround ==
  ASSUME PmmTypeOK
  PROVE  /\ \A i \in 0 .. npages_total - 1 : Visited(i) \in Known
         /\ \A i \in 0 .. npages_total - 1 : Visited(i + 1) \in Known
         /\ \A p \in Known : \E i \in 0 .. npages_total - 1 : Visited(i) = p
<1>1. npages_total \in Nat /\ alloc_cursor \in Nat
  BY PmmAssumption DEF PmmTypeOK
<1>2. npages_total # 0 => alloc_cursor < npages_total
  BY <1>1 DEF PmmTypeOK, Known
<1>3. ASSUME NEW p \in Known
      PROVE  \E i \in 0 .. npages_total - 1 : Visited(i) = p
  <2>1. CASE p >= alloc_cursor
    <3>1. p - alloc_cursor \in 0 .. npages_total - 1 /\ Visited(p - alloc_cursor) = p
      BY <1>1, <1>2, <2>1 DEF Known, Visited
    <3>. QED
      BY <3>1
  <2>2. CASE p < alloc_cursor
    <3>. DEFINE i == p - alloc_cursor + npages_total
    <3>1. i \in 0 .. npages_total - 1 /\ Visited(i) = p
      BY <1>1, <1>2, <2>2 DEF Known, Visited
    <3>. QED
      BY <3>1
  <2>. QED
    BY <1>1, <2>1, <2>2 DEF Known
<1>4. ASSUME NEW i \in 0 .. npages_total - 1
      PROVE  Visited(i) \in Known /\ Visited(i + 1) \in Known
  BY <1>1, <1>2 DEF Known, Visited
<1>. QED
  BY <1>3, <1>4

-----------------------------------------------------------------------------
PmmInv == PmmTypeOK /\ CounterFollows

LEMMA InitHolds == Init => PmmInv
<1>. SUFFICES ASSUME Init PROVE PmmInv
  OBVIOUS
<1>1. 0 .. 0 - 1 = {}
  OBVIOUS
<1>2. Known = {} /\ Known \ busy = {}
  BY <1>1 DEF Init, Known
<1>3. Cardinality({}) = 0
  BY FS_EmptySet
<1>4. CounterFollows
  BY <1>2, <1>3 DEF Init, CounterFollows
<1>5. PmmTypeOK
  BY <1>2, PmmAssumption DEF Init, PmmTypeOK
<1>. QED
  BY <1>4, <1>5 DEF PmmInv

\* What the bitmap and the counter become when pages of a set are taken.
LEMMA Takes ==
  ASSUME PmmInv, NEW S \in SUBSET Known,
         busy' = busy \union S,
         npages_free' = npages_free - Cardinality(S \ busy),
         UNCHANGED npages_total
  PROVE  busy' \subseteq Known' /\ CounterFollows' /\ npages_free' \in 0 .. npages_total'
<1>1. npages_total \in Nat /\ busy \in SUBSET Known
  BY PmmAssumption DEF PmmInv, PmmTypeOK
<1>2. Cardinality(Known \ (busy \union S)) = Cardinality(Known \ busy) - Cardinality(S \ busy)
  BY <1>1, TakenCount DEF Known
<1>3. Cardinality(Known \ (busy \union S)) \in 0 .. npages_total
  BY <1>1, PageCount DEF Known
<1>4. Known' = Known /\ busy' \subseteq Known
  BY <1>1 DEF Known
<1>5. npages_free' = Cardinality(Known \ (busy \union S))
  BY <1>2 DEF PmmInv, CounterFollows
<1>6. CounterFollows'
  BY <1>4, <1>5 DEF CounterFollows
<1>. QED
  BY <1>3, <1>4, <1>5, <1>6

\* The same when pages of a set are freed.
LEMMA Frees ==
  ASSUME PmmInv, NEW S \in SUBSET Known,
         busy' = busy \ S,
         npages_free' = npages_free + Cardinality(S \intersect busy),
         UNCHANGED npages_total
  PROVE  busy' \subseteq Known' /\ CounterFollows' /\ npages_free' \in 0 .. npages_total'
<1>1. npages_total \in Nat /\ busy \in SUBSET Known
  BY PmmAssumption DEF PmmInv, PmmTypeOK
<1>2. Cardinality(Known \ (busy \ S)) = Cardinality(Known \ busy) + Cardinality(S \intersect busy)
  BY <1>1, FreedCount DEF Known
<1>3. Cardinality(Known \ (busy \ S)) \in 0 .. npages_total
  BY <1>1, PageCount DEF Known
<1>4. Known' = Known /\ busy' \subseteq Known
  BY <1>1 DEF Known
<1>5. npages_free' = Cardinality(Known \ (busy \ S))
  BY <1>2 DEF PmmInv, CounterFollows
<1>6. CounterFollows'
  BY <1>4, <1>5 DEF CounterFollows
<1>. QED
  BY <1>3, <1>4, <1>5, <1>6

LEMMA PmmInitStep ==
  ASSUME NEW n \in 1 .. MaxPages, PmmInv, PmmInit(n)
  PROVE  PmmInv'
<1>1. n \in Nat \ {0} /\ n <= MaxPages
  BY PmmAssumption
<1>2. Known' = 0 .. n - 1 /\ busy' = Known' /\ npages_total' = n
  BY <1>1 DEF PmmInit, Known
<1>3. Known' \ busy' = {}
  BY <1>2
<1>4. CounterFollows'
  BY <1>3, FS_EmptySet DEF PmmInit, CounterFollows
<1>5. npages_free' = 0 /\ alloc_cursor' = 0 /\ ret' = ret
  BY DEF PmmInit
<1>6. 0 \in Known'
  BY <1>1, <1>2
<1>7. n \in 0 .. MaxPages /\ 0 \in 0 .. n
  BY <1>1, PmmAssumption
<1>8. PmmTypeOK'
  BY <1>2, <1>5, <1>6, <1>7 DEF PmmInv, PmmTypeOK, Page
<1>. QED
  BY <1>4, <1>8 DEF PmmInv

LEMMA AllocStep ==
  ASSUME PmmInv, PmmAlloc
  PROVE  PmmInv'
<1>1. CASE UNCHANGED <<busy, npages_total, npages_free, alloc_cursor>> /\ ret' = NoMem
  BY <1>1 DEF PmmInv, PmmTypeOK, CounterFollows, Known, Page
<1>2. ASSUME NEW i \in Hits,
             ret' = Visited(i), busy' = busy \union {Visited(i)},
             npages_free' = npages_free - 1, alloc_cursor' = Visited(i + 1),
             UNCHANGED npages_total
      PROVE  PmmInv'
  <2>1. i \in 0 .. npages_total - 1 /\ Visited(i) \notin busy
    BY <1>2 DEF Hits
  <2>2. Visited(i) \in Known /\ Visited(i + 1) \in Known
    BY <2>1, SearchGoesAround DEF PmmInv
  <2>3. {Visited(i)} \ busy = {Visited(i)}
    BY <2>1
  <2>4. Cardinality({Visited(i)} \ busy) = 1
    BY <2>3, FS_Singleton
  <2>5. busy' \subseteq Known' /\ CounterFollows' /\ npages_free' \in 0 .. npages_total'
    BY <1>2, <2>2, <2>4, Takes
  <2>6. Known' = Known
    BY <1>2 DEF Known
  <2>7. npages_total \in 0 .. MaxPages /\ Known \subseteq Nat /\ Known \subseteq Page
    BY PmmAssumption DEF PmmInv, PmmTypeOK, Known, Page
  <2>8. PmmTypeOK'
    BY <1>2, <2>2, <2>5, <2>6, <2>7 DEF PmmTypeOK, Page
  <2>. QED
    BY <2>5, <2>8 DEF PmmInv
<1>. QED
  BY <1>1, <1>2 DEF PmmAlloc

\* The three operations that leave the cursor and the last result alone.
LEMMA RestOfType ==
  ASSUME PmmInv, UNCHANGED <<npages_total, alloc_cursor, ret>>,
         busy' \subseteq Known', CounterFollows', npages_free' \in 0 .. npages_total'
  PROVE  PmmInv'
BY DEF PmmInv, PmmTypeOK, Known, Page

LEMMA ReserveStep ==
  ASSUME NEW base, NEW len, PmmInv, PmmReserve(base, len)
  PROVE  PmmInv'
<1>1. Covering(base, len) \in SUBSET Known
  BY DEF Covering, Span
<1>. QED
  BY <1>1, Takes, RestOfType DEF PmmReserve

LEMMA FreeRegionStep ==
  ASSUME NEW base, NEW len, PmmInv, PmmFreeRegion(base, len)
  PROVE  PmmInv'
<1>1. Inside(base, len) \in SUBSET Known
  BY DEF Inside, Span
<1>. QED
  BY <1>1, Frees, RestOfType DEF PmmFreeRegion

LEMMA FreeStep ==
  ASSUME NEW paddr, PmmInv, PmmFree(paddr)
  PROVE  PmmInv'
<1>. DEFINE p == RoundDown(paddr)
<1>1. CASE p \in Known /\ p \in busy
  <2>1. {p} \intersect busy = {p}
    BY <1>1
  <2>2. Cardinality({p} \intersect busy) = 1
    BY <2>1, FS_Singleton
  <2>3. busy' = busy \ {p} /\ npages_free' = npages_free + 1
    BY <1>1 DEF PmmFree
  <2>. QED
    BY <1>1, <2>2, <2>3, Frees, RestOfType DEF PmmFree
<1>2. CASE ~(p \in Known /\ p \in busy)
  BY <1>2 DEF PmmFree, PmmInv, PmmTypeOK, CounterFollows, Known, Page
<1>. QED
  BY <1>1, <1>2

\* The counter of free pages never leaves the bitmap, whatever mix of
\* overlapping reserves, frees and allocations its callers make.
THEOREM CounterIsRight == Spec => [](PmmTypeOK /\ CounterFollows)
<1>1. PmmInv /\ [Next]_pvars => PmmInv'
  <2>. SUFFICES ASSUME PmmInv, [Next]_pvars PROVE PmmInv'
    OBVIOUS
  <2>1. CASE UNCHANGED pvars
    BY <2>1 DEF pvars, PmmInv, PmmTypeOK, CounterFollows, Known, Page
  <2>2. CASE Next
    BY <2>2, PmmInitStep, AllocStep, FreeStep, ReserveStep, FreeRegionStep DEF Next
  <2>. QED
    BY <2>1, <2>2
<1>. QED
  BY InitHolds, <1>1, PTL DEF Spec, PmmInv

-----------------------------------------------------------------------------
\* What a quotient by the page size says of the number.
LEMMA Quotient ==
  ASSUME NEW x \in Nat
  PROVE  /\ x \div PageSize \in Nat
         /\ PageSize * (x \div PageSize) <= x
         /\ x < PageSize * (x \div PageSize) + PageSize
BY PmmAssumption

\* MultiplesInOrder of the page size are in the order of their factors.
LEMMA MultiplesInOrder ==
  ASSUME NEW a \in Int, NEW b \in Int, PageSize * a < PageSize * b
  PROVE  a < b
<1>1. PageSize \in Nat /\ PageSize > 0
  BY PmmAssumption
<1>2. SUFFICES ASSUME a >= b PROVE FALSE
  OBVIOUS
<1>3. PageSize * a >= PageSize * b
  BY <1>1, <1>2
<1>4. PageSize * a \in Int /\ PageSize * b \in Int
  BY <1>1
<1>. QED
  BY <1>3, <1>4

\* A page that the range touches is one pmm_reserve() visits.
LEMMA CoveringIsWide ==
  ASSUME NEW base \in Nat, NEW len \in Nat, NEW p \in Known, npages_total \in Nat,
         Bytes(p) \intersect (base .. base + len - 1) # {}
  PROVE  p \in Covering(base, len)
<1>1. PageSize \in Nat /\ PageSize > 0 /\ p \in Nat
  BY PmmAssumption DEF Known
<1>2. PICK x \in Bytes(p) : x \in base .. base + len - 1
  OBVIOUS
<1>3. PageSize * p \in Nat /\ PageSize * (p + 1) = PageSize * p + PageSize
  BY <1>1
<1>4. x \in Nat /\ PageSize * p <= x /\ x < PageSize * (p + 1)
  BY <1>1, <1>2, <1>3 DEF Bytes
<1>5. base <= x /\ x < base + len /\ len # 0
  BY <1>2, <1>4
<1>6. RoundDown(base) <= p
  <2>. DEFINE q == base \div PageSize
  <2>1. q \in Nat /\ PageSize * q <= base
    BY Quotient
  <2>2. PageSize * q \in Int /\ PageSize * (p + 1) \in Int
    BY <1>1, <2>1
  <2>3. PageSize * q < PageSize * (p + 1)
    BY <1>4, <1>5, <2>1, <2>2
  <2>4. q < p + 1
    BY <1>1, <2>1, <2>3, MultiplesInOrder
  <2>. QED
    BY <1>1, <2>1, <2>4 DEF RoundDown
<1>7. p < RoundUp(base + len)
  <2>. DEFINE y == base + len + PageSize - 1
              q == y \div PageSize
  <2>1. y \in Nat
    BY <1>1
  <2>2. q \in Nat /\ y < PageSize * q + PageSize
    BY <2>1, Quotient
  <2>3. PageSize * q \in Int
    BY <1>1, <2>2
  <2>4. PageSize * p < PageSize * q
    BY <1>1, <1>3, <1>4, <1>5, <2>2, <2>3
  <2>5. p < q
    BY <1>1, <2>2, <2>4, MultiplesInOrder
  <2>. QED
    BY <2>5 DEF RoundUp
<1>. QED
  BY <1>5, <1>6, <1>7 DEF Covering, Span

\* A page that pmm_free_region() visits is one the range fills.
LEMMA InsideIsNarrow ==
  ASSUME NEW base \in Nat, NEW len \in Nat, NEW p \in Inside(base, len),
         npages_total \in Nat
  PROVE  Bytes(p) \subseteq base .. base + len - 1
<1>1. PageSize \in Nat /\ PageSize > 0
  BY PmmAssumption
<1>2. p \in Nat /\ RoundUp(base) <= p /\ p < RoundDown(base + len)
  BY DEF Inside, Span, Known
<1>3. PageSize * p \in Nat /\ PageSize * (p + 1) = PageSize * p + PageSize
  BY <1>1, <1>2
<1>4. base <= PageSize * p
  <2>. DEFINE y == base + PageSize - 1
              q == y \div PageSize
  <2>1. y \in Nat
    BY <1>1
  <2>2. q \in Nat /\ y < PageSize * q + PageSize
    BY <2>1, Quotient
  <2>3. q <= p
    BY <1>2 DEF RoundUp
  <2>4. PageSize * q \in Int /\ PageSize * q <= PageSize * p
    BY <1>1, <1>2, <2>2, <2>3
  <2>. QED
    BY <1>1, <1>3, <2>2, <2>4
<1>5. PageSize * (p + 1) <= base + len
  <2>. DEFINE q == (base + len) \div PageSize
  <2>1. q \in Nat /\ PageSize * q <= base + len
    BY Quotient
  <2>2. p + 1 <= q
    BY <1>2, <2>1 DEF RoundDown
  <2>3. PageSize * q \in Int /\ PageSize * (p + 1) <= PageSize * q
    BY <1>1, <1>2, <2>1, <2>2
  <2>. QED
    BY <1>1, <1>3, <2>1, <2>3
<1>. QED
  BY <1>1, <1>3, <1>4, <1>5 DEF Bytes

\* pmm_reserve() errs on the side of too much, for every size of page and
\* every range.
THEOREM RoundsOut == Spec => ReserveRoundsOut
<1>1. ASSUME PmmInv, [Next]_pvars
      PROVE  [\A base, len \in 0 .. MaxAddr : PmmReserve(base, len) =>
                \A p \in Known :
                  Bytes(p) \intersect (base .. base + len - 1) # {} => p \in busy']_pvars
  <2>1. MaxAddr \in Nat /\ npages_total \in Nat
    BY <1>1, PmmAssumption DEF PmmInv, PmmTypeOK
  <2>2. ASSUME NEW base \in 0 .. MaxAddr, NEW len \in 0 .. MaxAddr,
               PmmReserve(base, len), NEW p \in Known,
               Bytes(p) \intersect (base .. base + len - 1) # {}
        PROVE  p \in busy'
    <3>1. p \in Covering(base, len)
      BY <2>1, <2>2, CoveringIsWide
    <3>. QED
      BY <2>2, <3>1 DEF PmmReserve
  <2>. QED
    BY <2>2
<1>. QED
  BY CounterIsRight, <1>1, PTL DEF Spec, ReserveRoundsOut, PmmInv

\* pmm_free_region() errs on the side of too little.
THEOREM RoundsIn == Spec => FreeRoundsIn
<1>1. ASSUME PmmInv, [Next]_pvars
      PROVE  [\A base, len \in 0 .. MaxAddr : PmmFreeRegion(base, len) =>
                \A p \in busy \ busy' : Bytes(p) \subseteq base .. base + len - 1]_pvars
  <2>1. MaxAddr \in Nat /\ npages_total \in Nat
    BY <1>1, PmmAssumption DEF PmmInv, PmmTypeOK
  <2>2. ASSUME NEW base \in 0 .. MaxAddr, NEW len \in 0 .. MaxAddr,
               PmmFreeRegion(base, len), NEW p \in busy \ busy'
        PROVE  Bytes(p) \subseteq base .. base + len - 1
    <3>1. p \in Inside(base, len)
      BY <2>2 DEF PmmFreeRegion
    <3>2. base \in Nat /\ len \in Nat
      BY <2>1
    <3>. QED
      BY <2>1, <3>1, <3>2, InsideIsNarrow
  <2>. QED
    BY <2>2
<1>. QED
  BY CounterIsRight, <1>1, PTL DEF Spec, FreeRoundsIn, PmmInv

-----------------------------------------------------------------------------
\* No search that fails leaves a free page behind.
LEMMA FailsOnlyWhenFull ==
  ASSUME PmmInv
  PROVE  Hits = {} <=> Known \ busy = {}
BY SearchGoesAround DEF PmmInv, Hits

LEMMA StepRefines ==
  ASSUME PmmInv, [Next]_pvars
  PROVE  [Pool!Next]_(Pool!poolvars)
<1>. DEFINE F == Known \ busy
<1>1. Known \subseteq Page
  BY PmmAssumption DEF PmmInv, PmmTypeOK, Known, Page
<1>2. CASE UNCHANGED pvars
  BY <1>2 DEF pvars, Known, Pool!poolvars
<1>3. ASSUME NEW n \in 1 .. MaxPages, npages_total = 0, PmmInit(n)
      PROVE  UNCHANGED Pool!poolvars
  <2>1. n \in Nat
    BY PmmAssumption
  <2>2. Known = {} /\ Known' = busy'
    BY <1>3, <2>1 DEF PmmInit, Known
  <2>. QED
    BY <1>3, <2>2 DEF PmmInit, Pool!poolvars
<1>4. ASSUME NEW base, NEW len, PmmReserve(base, len)
      PROVE  Pool!Keep
  <2>. DEFINE S == Covering(base, len)
  <2>1. S \in SUBSET Page
    BY <1>1 DEF Covering, Span
  <2>2. (Known \ busy)' = F \ S /\ ret' = ret
    BY <1>4 DEF PmmReserve, Known
  <2>. QED
    BY <2>1, <2>2 DEF Pool!Keep
<1>5. ASSUME NEW base, NEW len, PmmFreeRegion(base, len)
      PROVE  Pool!Give
  <2>. DEFINE S == Inside(base, len)
  <2>1. S \in SUBSET Page /\ S \subseteq Known
    BY <1>1 DEF Inside, Span
  <2>2. (Known \ busy)' = F \union S /\ ret' = ret
    BY <1>5, <2>1 DEF PmmFreeRegion, Known
  <2>. QED
    BY <2>1, <2>2 DEF Pool!Give
<1>6. ASSUME NEW paddr, PmmFree(paddr)
      PROVE  Pool!Give
  <2>. DEFINE S == {RoundDown(paddr)} \intersect Known
  <2>1. S \in SUBSET Page /\ S \subseteq Known
    BY <1>1
  <2>2. (Known \ busy)' = F \union S /\ ret' = ret
    BY <1>6, <2>1 DEF PmmFree, Known
  <2>. QED
    BY <2>1, <2>2 DEF Pool!Give
<1>7. ASSUME PmmAlloc
      PROVE  Pool!Take
  <2>1. CASE Hits = {} /\ ret' = NoMem /\ UNCHANGED <<busy, npages_total>>
    BY <2>1, FailsOnlyWhenFull DEF Known, Pool!Take
  <2>2. ASSUME NEW i \in Hits, ret' = Visited(i),
               busy' = busy \union {Visited(i)}, UNCHANGED npages_total
        PROVE  Pool!Take
    <3>1. Visited(i) \in F
      BY SearchGoesAround DEF Hits, PmmInv
    <3>2. (Known \ busy)' = F \ {Visited(i)}
      BY <2>2 DEF Known
    <3>. QED
      BY <2>2, <3>1, <3>2 DEF Pool!Take
  <2>. QED
    BY <1>7, <2>1, <2>2 DEF PmmAlloc
<1>. QED
  BY <1>2, <1>3, <1>4, <1>5, <1>6, <1>7 DEF Next, Pool!Next

\* The bitmap, the counter and the moving cursor implement a plain pool of
\* pages: an allocation takes a free page, and fails only if there is none.
THEOREM PoolImplemented == Spec => ImplementsPool
<1>1. Init => Pool!Init
  BY DEF Init, Pool!Init, Known
<1>2. PmmInv /\ [Next]_pvars => [Pool!Next]_(Pool!poolvars)
  BY StepRefines
<1>. QED
  BY CounterIsRight, <1>1, <1>2, PTL DEF Spec, PmmInv, ImplementsPool, Pool!Spec

-----------------------------------------------------------------------------
Elems(q) == {q[i] : i \in DOMAIN q}

-----------------------------------------------------------------------------
(***************************************************************************)
(* The inductive invariant.                                                *)
(***************************************************************************)

\* The order of the phases; the test of vmm_map() goes from "smoke" to "heap".
Rank(phase) ==
  CASE phase \in {"size", "free", "reserve", "run"} -> 0
    [] phase = "low" -> 1
    [] phase \in {"kernel", "lcr3"} -> 2
    [] phase = "fb" -> 3
    [] phase = "smoke" -> 4
    [] phase = "heap" -> 5
    [] phase = "thread_a" -> 6
    [] phase = "thread_b" -> 7
    [] phase = "user" -> 8
    [] phase = "thread_u" -> 9
    [] phase \in {"up", "panic"} -> 10

Booting == {"size", "free", "reserve", "run"}
Places == Phases \union Booting \union {"lcr3", "up", "panic"}
ThreadPhases == {"thread_a", "thread_b", "thread_u"}

\* The allocator's state, as far as pmm_alloc() and pmm_free() rely on it.
PoolInv ==
  /\ npages_total \in Nat /\ npages_total <= Dirs * Slots
  /\ busy \subseteq Known
  /\ alloc_cursor \in Nat /\ (npages_total # 0 => alloc_cursor \in Known)

\* While the memory map is read, what is free and what the rest of it holds is RAM;
\* then, what is free and not yet to be taken back is usable.
InsideOf(S) == UNION {Inside(r.addr, r.len) : r \in S}
CoveredBy(S) == UNION {Covering(r.addr, r.len) : r \in S}
RamPages == {p \in Known : InRam(PageRegion(p))}

BootInv ==
  /\ machine \in Machines
  /\ boot \in Places
  /\ boot = "size" => busy = {} /\ bitmap = Region(0, 0) /\ npages_total = 0
  /\ \/ bitmap = BitmapFor(npages_total)
     \/ boot \in {"size", "panic"} /\ bitmap = Region(0, 0)
  /\ bitmap \in Regions
  /\ boot \in {"free", "reserve"} => todo \in Seq(Regions)
  /\ boot = "free" => RamPages = (Known \ busy) \union InsideOf(Elems(todo))
  /\ boot = "reserve" => Usable = (Known \ busy) \ CoveredBy(Elems(todo))
  /\ boot = "run" => Usable = Known \ busy

\* Until pmap_init() there is no address space.
Blank ==
  /\ cr3 = "boot" /\ pd = None /\ pgdir = [d \in 0 .. Dirs - 1 |-> None]
  /\ tables = [p \in {} |-> <<>>] /\ tlb = {} /\ hand = <<>>
  /\ next_thread_va = ThreadVABase

EmptyInv == boot \in Booting => Blank

\* Every directory entry has a table of its own, and every table a directory entry.
DirPages == {pgdir[d] : d \in 0 .. Dirs - 1} \ {None}
TableInv ==
  /\ pgdir \in [0 .. Dirs - 1 -> Nat \union {None}]
  /\ \A d, e \in 0 .. Dirs - 1 : pgdir[d] = pgdir[e] /\ pgdir[d] # None => d = e
  /\ tables \in [DirPages -> [0 .. Slots - 1 -> Entries \union {None}]]

\* The address space as a function.
Map == [v \in VPage |-> Lookup(v)]

\* The pages that come from pmm_alloc(), by what holds them.
Held == {SmokeVA, UserCodeVA, UserStackVA} \union (HeapBase .. HeapBase + HeapPages - 1)
        \union (ThreadVABase .. ThreadVABase + 9)
PdPages == {pd} \ {None}
MapPages == {Map[v].pa : v \in {u \in Held : Map[u] # None}}
HandPages == Elems(hand) \ {NoMem}
Owned == PdPages \union DirPages \union MapPages \union HandPages

\* The user task found no second page.
Skipped == Map[UserCodeVA] = None /\ Known \subseteq busy

HeldInv ==
  /\ pd \in Nat \union {None} /\ (boot \in Phases \union {"lcr3"} => pd # None)
  /\ PdPages \union DirPages \union MapPages \union HandPages \subseteq busy \intersect Usable
  /\ PdPages \intersect (DirPages \union MapPages \union HandPages) = {}
  /\ DirPages \intersect (MapPages \union HandPages) = {}
  /\ MapPages \intersect HandPages = {}
  /\ \A u, v \in Held : Map[u] # None /\ Map[v] # None /\ Map[u].pa = Map[v].pa => u = v
  /\ \A i, j \in DOMAIN hand : hand[i] = hand[j] /\ hand[i] # NoMem => i = j
  /\ boot \notin {"size", "free", "reserve", "panic"} =>
       /\ Known \ busy \subseteq Usable
       /\ boot # "up" => busy \intersect Usable = Owned
       /\ boot = "up" => \/ busy \intersect Usable = Owned
                         \/ Skipped /\ \E x : busy \intersect Usable = Owned \union {x}

\* The pages in kmain()'s locals are for the next pages to map.
HandInv ==
  /\ hand \in Seq(Known \union {NoMem})
  /\ boot \in {"low", "kernel", "lcr3", "fb"} => hand = <<>>
  /\ boot \in {"smoke", "heap"} \union ThreadPhases =>
       /\ Len(hand) <= 1 /\ NoMem \notin Elems(hand)
       /\ todo = <<>> => hand = <<>>
  /\ boot = "user" =>
       /\ Len(hand) <= Len(todo) /\ Len(todo) <= 2
       /\ Len(hand) # Len(todo) => Len(todo) = 2
       /\ Len(hand) = Len(todo) => NoMem \notin Elems(hand)
       /\ NoMem \in Elems(hand) => Known \subseteq busy

\* What a page of a phase may be mapped to; p is None if pmm_alloc() gives it.
Fits(phase, v, p, flags) ==
  /\ v \in Area(phase, machine)
  /\ CASE phase \in {"low", "fb"} -> p = v
       [] phase = "kernel" -> p \in KernelPages /\ v = KernBase + p
       [] OTHER -> TRUE
  /\ flags = CASE v = UserCodeVA -> {"USER"}
               [] v = UserStackVA -> {"RW", "USER"}
               [] OTHER -> {"RW"}
  /\ phase \in ThreadPhases => v \in {ThreadVABase + 1, ThreadVABase + 4, ThreadVABase + 7}

JobSet == [va : VPage, pa : Nat \union {None}, flags : SUBSET {"RW", "USER"}]
FromPmm == {"smoke", "heap", "user"} \union ThreadPhases

\* What is still to be mapped is not mapped, each page is to be mapped once, and a
\* stack goes above the next guard page.
TodoInv ==
  boot \in Phases =>
    /\ todo \in Seq(JobSet)
    /\ \A j \in Elems(todo) : /\ Fits(boot, j.va, j.pa, j.flags)
                              /\ (j.pa = None <=> boot \in FromPmm)
                              /\ Map[j.va] = None
    /\ \A i, k \in DOMAIN todo : todo[i].va = todo[k].va => i = k
    /\ boot \in ThreadPhases =>
         Len(todo) <= 1 /\ \A j \in Elems(todo) : j.va = next_thread_va + 1
    /\ boot = "smoke" /\ todo = <<>> => Map[SmokeVA] # None

NextVA ==
  /\ next_thread_va \in {ThreadVABase, ThreadVABase + 3, ThreadVABase + 6, ThreadVABase + 9}
  /\ Rank(boot) < Rank("thread_a") => next_thread_va = ThreadVABase
  /\ boot = "thread_a" =>
       next_thread_va = IF todo = <<>> THEN ThreadVABase + 3 ELSE ThreadVABase
  /\ boot = "thread_b" =>
       next_thread_va = IF todo = <<>> THEN ThreadVABase + 6 ELSE ThreadVABase + 3
  /\ boot = "user" => next_thread_va = ThreadVABase + 6
  /\ boot = "thread_u" =>
       next_thread_va = IF todo = <<>> THEN ThreadVABase + 9 ELSE ThreadVABase + 6

\* What is mapped was mapped by the phase it belongs to, and no later one; stacks lie
\* below the next guard page.
SpaceInv ==
  /\ \A v \in VPage :
       Map[v] # None =>
         \E x \in Phases : Rank(x) <= Rank(boot) /\ Fits(x, v, Map[v].pa, Map[v].flags)
  /\ \A v \in ThreadVABase .. ThreadVABase + 9 : Map[v] # None => v < next_thread_va

\* The TLB holds what the tables that are walked say.
TlbInv ==
  /\ cr3 \in {"boot", "own"}
  /\ cr3 = "boot" => \A c \in tlb : c[2] # None /\ BootWalk(c[1]) = c[2]
  /\ cr3 = "own" => \A c \in tlb : c[1] \in VPage /\ c[2] # None /\ Map[c[1]] = c[2]

\* A step maps one page that is not mapped, or unmaps one, or no page at all.
Changes(v) == (Map[v] = None <=> Map'[v] # None) /\ \A u \in VPage \ {v} : Map'[u] = Map[u]
SpaceStep == Map' = Map \/ \E v \in VPage : Changes(v)

KmainInv ==
  /\ PoolInv /\ BootInv /\ EmptyInv /\ TableInv /\ HeldInv /\ HandInv /\ TodoInv
  /\ NextVA /\ SpaceInv /\ TlbInv

-----------------------------------------------------------------------------
(***************************************************************************)
(* Bytes and pages, pages and tables.                                      *)
(***************************************************************************)

LEMMA Rounding ==
  ASSUME NEW x \in Nat
  PROVE  /\ RoundDown(x) \in Nat /\ PageSize * RoundDown(x) <= x
         /\ x < PageSize * RoundDown(x) + PageSize
         /\ RoundUp(x) \in Nat /\ x <= PageSize * RoundUp(x)
         /\ PageSize * RoundUp(x) < x + PageSize
<1>1. PageSize \in Nat /\ PageSize > 0 /\ PageSize \in Nat \ {0}
  BY PmmAssumption
<1>. DEFINE y == x + PageSize - 1
            d == x \div PageSize
            u == y \div PageSize
<1>2. y \in Nat
  BY <1>1
<1>3. d \in Nat /\ PageSize * d <= x /\ x < PageSize * d + PageSize
  BY <1>1, Division
<1>4. u \in Nat /\ PageSize * u <= y /\ y < PageSize * u + PageSize
  <2>. HIDE DEF y
  <2>. QED
    BY <1>1, <1>2, Division
<1>5. RoundDown(x) = d /\ RoundUp(x) = u
  BY DEF RoundDown, RoundUp
<1>. HIDE DEF d, u
<1>6. PageSize * u \in Int
  BY <1>1, <1>4
<1>. QED
  BY <1>1, <1>3, <1>4, <1>5, <1>6

LEMMA PageTimes ==
  ASSUME NEW a \in Int, NEW b \in Int, a < b
  PROVE  PageSize * a + PageSize <= PageSize * b /\ PageSize * a \in Int /\ PageSize * b \in Int
<1>1. PageSize \in Nat
  BY PmmAssumption
<1>2. PageSize * (a + 1) <= PageSize * b
  BY <1>1
<1>3. PageSize * (a + 1) = PageSize * a + PageSize
  BY <1>1
<1>. QED
  BY <1>1, <1>2, <1>3

\* The pages between two roundings inwards are those whose bytes lie inside.
LEMMA PagesInside ==
  ASSUME NEW p \in Nat, NEW a \in Nat, NEW e \in Nat
  PROVE  RoundUp(a) <= p /\ p < RoundDown(e) <=> a <= PageSize * p /\ PageSize * p + PageSize <= e
<1>. DEFINE u == RoundUp(a)
            d == RoundDown(e)
<1>1. /\ u \in Nat /\ a <= PageSize * u /\ PageSize * u < a + PageSize
      /\ d \in Nat /\ PageSize * d <= e /\ e < PageSize * d + PageSize
  BY Rounding
<1>2. PageSize \in Nat /\ PageSize * p \in Int /\ PageSize * u \in Int /\ PageSize * d \in Int
  BY <1>1, PmmAssumption
<1>. HIDE DEF u, d
<1>3. u <= p => PageSize * u <= PageSize * p
  <2>1. u = p \/ u < p \/ p < u
    BY <1>1
  <2>2. CASE u < p
    BY <1>1, <1>2, <2>2, PageTimes
  <2>. QED
    BY <1>1, <1>2, <2>1, <2>2
<1>4. p < u => PageSize * p + PageSize <= PageSize * u
  BY <1>1, PageTimes
<1>5. p < d => PageSize * p + PageSize <= PageSize * d
  BY <1>1, PageTimes
<1>6. d <= p => PageSize * d <= PageSize * p
  <2>1. CASE d < p
    BY <1>1, <1>2, <2>1, PageTimes
  <2>. QED
    BY <1>1, <1>2, <2>1
<1>7. u <= p /\ p < d <=> a <= PageSize * p /\ PageSize * p + PageSize <= e
  BY <1>1, <1>2, <1>3, <1>4, <1>5, <1>6
<1>. QED
  BY <1>7 DEF u, d

\* The pages between two roundings outwards are those with a byte inside.
LEMMA PagesCovering ==
  ASSUME NEW p \in Nat, NEW a \in Nat, NEW e \in Nat
  PROVE  RoundDown(a) <= p /\ p < RoundUp(e) <=> a < PageSize * p + PageSize /\ PageSize * p < e
<1>. DEFINE d == RoundDown(a)
            u == RoundUp(e)
<1>1. /\ u \in Nat /\ e <= PageSize * u /\ PageSize * u < e + PageSize
      /\ d \in Nat /\ PageSize * d <= a /\ a < PageSize * d + PageSize
  BY Rounding
<1>2. PageSize \in Nat /\ PageSize * p \in Int /\ PageSize * u \in Int /\ PageSize * d \in Int
  BY <1>1, PmmAssumption
<1>. HIDE DEF u, d
<1>3. d <= p => PageSize * d <= PageSize * p
  <2>1. CASE d < p
    BY <1>1, <1>2, <2>1, PageTimes
  <2>. QED
    BY <1>1, <1>2, <2>1
<1>4. p < d => PageSize * p + PageSize <= PageSize * d
  BY <1>1, PageTimes
<1>5. p < u => PageSize * p + PageSize <= PageSize * u
  BY <1>1, PageTimes
<1>6. u <= p => PageSize * u <= PageSize * p
  <2>1. CASE u < p
    BY <1>1, <1>2, <2>1, PageTimes
  <2>. QED
    BY <1>1, <1>2, <2>1
<1>7. d <= p /\ p < u <=> a < PageSize * p + PageSize /\ PageSize * p < e
  BY <1>1, <1>2, <1>3, <1>4, <1>5, <1>6
<1>. QED
  BY <1>7 DEF u, d

LEMMA PageOfItsAddress ==
  ASSUME NEW p \in Nat
  PROVE  RoundDown(PageSize * p) = p
<1>1. PageSize \in Nat \ {0} /\ 0 \in 0 .. PageSize - 1 /\ PageSize * p + 0 = PageSize * p
  BY PmmAssumption
<1>2. (PageSize * p + 0) \div PageSize = p
  BY <1>1, Remainder
<1>. QED
  BY <1>1, <1>2 DEF RoundDown

\* A page has an entry of the directory and one of its table, and no other has both.
LEMMA Entered ==
  ASSUME NEW v \in VPage
  PROVE  v \in Nat /\ Dir(v) \in 0 .. Dirs - 1 /\ Slot(v) \in 0 .. Slots - 1
<1>. DEFINE q == v \div Slots
            r == v % Slots
<1>1. Slots \in Nat \ {0} /\ Dirs \in Nat \ {0} /\ Slots * Dirs \in Nat /\ Slots * Dirs = Dirs * Slots
  BY PmapAssumption
<1>2. v \in Nat /\ v < Dirs * Slots
  BY <1>1 DEF VPage
<1>3. q \in Nat /\ r \in 0 .. Slots - 1 /\ Slots * q <= v
  BY <1>1, <1>2, Division
<1>. HIDE DEF q, r
<1>4. Slots * q < Slots * Dirs
  BY <1>1, <1>2, <1>3
<1>5. q < Dirs
  BY <1>1, <1>3, <1>4, Factors
<1>. QED
  BY <1>1, <1>2, <1>3, <1>5 DEF Dir, Slot, q, r

LEMMA EnteredOnce ==
  ASSUME NEW u \in VPage, NEW v \in VPage, Dir(u) = Dir(v), Slot(u) = Slot(v)
  PROVE  u = v
<1>1. Slots \in Nat \ {0} /\ u \in Nat /\ v \in Nat
  BY PmapAssumption, Entered
<1>2. u = Slots * Dir(u) + Slot(u)
  BY <1>1, Division DEF Dir, Slot
<1>3. v = Slots * Dir(v) + Slot(v)
  BY <1>1, Division DEF Dir, Slot
<1>. QED
  BY <1>2, <1>3

-----------------------------------------------------------------------------
(***************************************************************************)
(* Lists of work.                                                          *)
(***************************************************************************)

LEMMA TailElems ==
  ASSUME NEW S, NEW q \in Seq(S), q # <<>>
  PROVE  /\ Head(q) \in S /\ Tail(q) \in Seq(S) /\ Len(Tail(q)) = Len(q) - 1 /\ Len(q) > 0
         /\ Elems(q) = {Head(q)} \union Elems(Tail(q))
         /\ \A i \in DOMAIN Tail(q) : i + 1 \in DOMAIN q /\ Tail(q)[i] = q[i + 1]
         /\ 1 \in DOMAIN q /\ Head(q) = q[1] /\ \A i \in DOMAIN Tail(q) : i + 1 # 1
<1>1. Len(q) \in Nat /\ Len(q) # 0 /\ DOMAIN q = 1 .. Len(q)
  BY LenProperties, EmptySeq
<1>2. Head(q) = q[1] /\ Head(q) \in S
  BY HeadTailProperties
<1>3. Tail(q) \in Seq(S) /\ Len(Tail(q)) = Len(q) - 1 /\ \A i \in 1 .. Len(Tail(q)) : Tail(q)[i] = q[i + 1]
  BY HeadTailProperties
<1>4. DOMAIN Tail(q) = 1 .. Len(q) - 1
  BY <1>3, LenProperties
<1>5. \A i \in DOMAIN Tail(q) : i + 1 \in DOMAIN q /\ Tail(q)[i] = q[i + 1] /\ i + 1 # 1
  BY <1>1, <1>3, <1>4
<1>6. ASSUME NEW i \in DOMAIN q
      PROVE  q[i] = Head(q) \/ (i - 1 \in DOMAIN Tail(q) /\ q[i] = Tail(q)[i - 1])
  <2>1. CASE i = 1
    BY <1>2, <2>1
  <2>2. CASE i # 1
    <3>1. i - 1 \in DOMAIN Tail(q) /\ (i - 1) + 1 = i
      BY <1>1, <1>4, <2>2
    <3>. QED
      BY <1>5, <3>1
  <2>. QED
    BY <2>1, <2>2
<1>7. 1 \in DOMAIN q
  BY <1>1
<1>8. Elems(q) = {Head(q)} \union Elems(Tail(q))
  <2>. DEFINE t == Tail(q)
              h == Head(q)
  <2>1. /\ \A i \in DOMAIN t : i + 1 \in DOMAIN q /\ t[i] = q[i + 1]
        /\ \A i \in DOMAIN q : q[i] = h \/ (i - 1 \in DOMAIN t /\ q[i] = t[i - 1])
        /\ 1 \in DOMAIN q /\ h = q[1]
    BY <1>2, <1>5, <1>6, <1>7
  <2>. HIDE DEF t, h
  <2>2. ASSUME NEW x \in Elems(q)
        PROVE  x \in {h} \union Elems(t)
    BY <2>1 DEF Elems
  <2>3. ASSUME NEW x \in Elems(t)
        PROVE  x \in Elems(q)
    BY <2>1 DEF Elems
  <2>4. h \in Elems(q)
    BY <2>1 DEF Elems
  <2>5. Elems(q) = {h} \union Elems(t)
    BY <2>2, <2>3, <2>4
  <2>. QED
    BY <2>5 DEF t, h
<1>. QED
  BY <1>1, <1>2, <1>3, <1>5, <1>7, <1>8

LEMMA ConcatElems ==
  ASSUME NEW S, NEW q \in Seq(S), NEW r \in Seq(S)
  PROVE  Elems(q \o r) = Elems(q) \union Elems(r)
<1>. DEFINE m == Len(q)
            n == Len(r)
            s == q \o r
<1>1. m \in Nat /\ n \in Nat /\ DOMAIN q = 1 .. m /\ DOMAIN r = 1 .. n
  BY LenProperties
<1>2. s \in Seq(S) /\ Len(s) = m + n
      /\ \A i \in 1 .. m + n : s[i] = IF i <= m THEN q[i] ELSE r[i - m]
  BY ConcatProperties
<1>3. DOMAIN s = 1 .. m + n
  BY <1>2, LenProperties
<1>. HIDE DEF m, n, s
<1>4. ASSUME NEW i \in 1 .. m
      PROVE  i \in DOMAIN s /\ s[i] = q[i]
  BY <1>1, <1>2, <1>3
<1>5. ASSUME NEW i \in 1 .. n
      PROVE  i + m \in DOMAIN s /\ s[i + m] = r[i]
  <2>1. i + m \in 1 .. m + n /\ ~(i + m <= m) /\ (i + m) - m = i
    BY <1>1
  <2>. QED
    BY <1>2, <1>3, <2>1
<1>6. ASSUME NEW i \in DOMAIN s
      PROVE  (i \in 1 .. m /\ s[i] = q[i]) \/ (i - m \in 1 .. n /\ s[i] = r[i - m])
  BY <1>1, <1>2, <1>3
<1>7. Elems(s) = Elems(q) \union Elems(r)
  BY <1>1, <1>4, <1>5, <1>6 DEF Elems
<1>. QED
  BY <1>7 DEF s

LEMMA NoElems == Elems(<<>>) = {}
BY DEF Elems

-----------------------------------------------------------------------------
(***************************************************************************)
(* The page allocator: a page it gives is known and was free.              *)
(***************************************************************************)

LEMMA Allocates ==
  ASSUME PoolInv, PmmAlloc
  PROVE  /\ PoolInv' /\ npages_total' = npages_total /\ Known' = Known
         /\ \/ ret' = NoMem /\ busy' = busy /\ Known \subseteq busy
            \/ ret' \in Nat /\ ret' \in Known /\ ret' \notin busy /\ busy' = busy \union {ret'}
<1>1. CASE Hits = {} /\ ret' = NoMem /\ UNCHANGED <<busy, npages_total, npages_free, alloc_cursor>>
  <2>1. ASSUME NEW p \in Known
        PROVE  p \in busy
    <3>1. npages_total \in Nat /\ alloc_cursor \in Known /\ p \in 0 .. npages_total - 1
      BY <2>1 DEF PoolInv, Known
    <3>2. \E i \in 0 .. npages_total - 1 : Visited(i) = p
      <4>1. CASE p >= alloc_cursor
        <5>1. p - alloc_cursor \in 0 .. npages_total - 1 /\ Visited(p - alloc_cursor) = p
          BY <3>1, <4>1 DEF Known, Visited
        <5>. QED
          BY <5>1
      <4>2. CASE p < alloc_cursor
        <5>. DEFINE i == p - alloc_cursor + npages_total
        <5>1. i \in 0 .. npages_total - 1 /\ Visited(i) = p
          BY <3>1, <4>2 DEF Known, Visited
        <5>. QED
          BY <5>1
      <4>. QED
        BY <3>1, <4>1, <4>2 DEF Known
    <3>. QED
      BY <1>1, <3>2 DEF Hits
  <2>. QED
    BY <1>1, <2>1 DEF PoolInv, Known
<1>2. ASSUME NEW i \in Hits,
             ret' = Visited(i), busy' = busy \union {Visited(i)},
             alloc_cursor' = Visited(i + 1), UNCHANGED npages_total
      PROVE  /\ PoolInv' /\ npages_total' = npages_total /\ Known' = Known
             /\ ret' \in Nat /\ ret' \in Known /\ ret' \notin busy /\ busy' = busy \union {ret'}
  <2>1. i \in 0 .. npages_total - 1 /\ Visited(i) \notin busy
    BY DEF Hits
  <2>2. npages_total \in Nat /\ alloc_cursor \in Nat /\ alloc_cursor < npages_total
    BY <2>1 DEF PoolInv, Known
  <2>3. Visited(i) \in Known /\ Visited(i + 1) \in Known /\ Known \subseteq Nat
    BY <2>1, <2>2 DEF Visited, Known
  <2>4. Known' = Known
    BY <1>2 DEF Known
  <2>. QED
    BY <1>2, <2>1, <2>3, <2>4 DEF PoolInv
<1>. QED
  BY <1>1, <1>2 DEF PmmAlloc

LEMMA TakesRegion ==
  ASSUME PoolInv, NEW a, NEW n, PmmReserve(a, n)
  PROVE  PoolInv' /\ Known' = Known /\ npages_total' = npages_total
         /\ busy' = busy \union Covering(a, n)
<1>1. Covering(a, n) \subseteq Known
  BY DEF Covering, Span
<1>. QED
  BY <1>1 DEF PmmReserve, PoolInv, Known

LEMMA GivesRegion ==
  ASSUME PoolInv, NEW a, NEW n, PmmFreeRegion(a, n)
  PROVE  PoolInv' /\ Known' = Known /\ npages_total' = npages_total
         /\ busy' = busy \ Inside(a, n)
BY DEF PmmFreeRegion, PoolInv, Known

LEMMA GivesPage ==
  ASSUME PoolInv, NEW p \in busy, PmmFree(PageSize * p)
  PROVE  PoolInv' /\ Known' = Known /\ npages_total' = npages_total /\ busy' = busy \ {p}
<1>1. p \in Known /\ p \in Nat
  BY DEF PoolInv, Known
<1>2. RoundDown(PageSize * p) = p
  BY <1>1, PageOfItsAddress
<1>. QED
  BY <1>1, <1>2 DEF PmmFree, PoolInv, Known

-----------------------------------------------------------------------------
(***************************************************************************)
(* pmm_bootstrap().                                                        *)
(***************************************************************************)

LEMMA LargestOf ==
  ASSUME NEW S \in SUBSET Nat, IsFiniteSet(S), S # {}
  PROVE  Largest(S) \in S /\ \A y \in S : y <= Largest(S)
<1>1. \E x \in S : \A y \in S : y <= x
  BY GreatestExists
<1>. QED
  BY <1>1 DEF Largest

LEMMA FiniteValues ==
  ASSUME NEW n \in Nat, NEW f, DOMAIN f = 1 .. n
  PROVE  IsFiniteSet({f[i] : i \in 1 .. n})
<1>. DEFINE T == {f[i] : i \in 1 .. n}
            g == [i \in 1 .. n |-> f[i]]
<1>1. g \in Surjection(1 .. n, T)
  BY DEF Surjection
<1>2. IsFiniteSet(1 .. n)
  BY FS_Interval
<1>. QED
  BY <1>1, <1>2, FS_Surjection

\* RAM ends at or below 4 GB.
LEMMA RamEnds ==
  ASSUME machine \in Machines
  PROVE  MaxAvailable \in 0 .. Top
<1>. DEFINE f == [i \in DOMAIN machine.ram |-> Smaller(End(machine.ram[i]), Top)]
            S == {0} \union {f[i] : i \in 1 .. Len(machine.ram)}
<1>1. machine.ram \in Seq(Regions) /\ Top \in Nat
  BY BootAssumption
<1>2. Len(machine.ram) \in Nat /\ DOMAIN machine.ram = 1 .. Len(machine.ram)
      /\ \A i \in 1 .. Len(machine.ram) : machine.ram[i] \in Regions
  BY <1>1, LenProperties
<1>3. \A r \in Regions : Smaller(End(r), Top) \in 0 .. Top
  BY <1>1 DEF Regions, End, Smaller
<1>4. \A i \in 1 .. Len(machine.ram) : f[i] \in 0 .. Top
  BY <1>2, <1>3
<1>5. {0} \union {Smaller(End(machine.ram[i]), Top) : i \in DOMAIN machine.ram} = S
  BY <1>2
<1>6. DOMAIN f = 1 .. Len(machine.ram)
  BY <1>2
<1>. HIDE DEF f
<1>. DEFINE T == {f[i] : i \in 1 .. Len(machine.ram)}
<1>7. IsFiniteSet(T) /\ T \subseteq 0 .. Top
  BY <1>2, <1>4, <1>6, FiniteValues
<1>. HIDE DEF T
<1>8. IsFiniteSet(S) /\ S \subseteq 0 .. Top /\ S # {}
  <2>1. IsFiniteSet({0})
    BY FS_Singleton
  <2>2. S = {0} \union T
    BY DEF T
  <2>3. IsFiniteSet({0} \union T)
    BY <1>7, <2>1, FS_Union
  <2>4. {0} \union T \subseteq 0 .. Top
    BY <1>1, <1>7
  <2>. QED
    BY <2>2, <2>3, <2>4
<1>. HIDE DEF S
<1>9. Largest(S) \in S
  BY <1>1, <1>8, LargestOf
<1>. QED
  BY <1>5, <1>8, <1>9 DEF MaxAvailable

\* The boot data end where boot_data_end() says.
LEMMA BootDataEnds ==
  ASSUME machine \in Machines
  PROVE  /\ BootDataEnd \in Nat /\ End(Kernel) <= BootDataEnd /\ End(machine.mbi) <= BootDataEnd
         /\ \A i \in DOMAIN machine.mods : End(machine.mods[i]) <= BootDataEnd
         /\ PageSize * RoundUp(BootDataEnd) < Top
<1>. DEFINE f == [i \in DOMAIN machine.mods |-> End(machine.mods[i])]
            M == {f[i] : i \in 1 .. Len(machine.mods)}
            S == {End(Kernel), End(machine.mbi)} \union M
<1>1. machine.mods \in Seq(Regions) /\ machine.mbi \in Regions /\ Kernel \in Regions
  BY BootAssumption
<1>2. Len(machine.mods) \in Nat /\ DOMAIN machine.mods = 1 .. Len(machine.mods)
      /\ \A i \in 1 .. Len(machine.mods) : machine.mods[i] \in Regions
  BY <1>1, LenProperties
<1>3. \A r \in Regions : End(r) \in Nat
  BY DEF Regions, End
<1>4. DOMAIN f = 1 .. Len(machine.mods) /\ \A i \in 1 .. Len(machine.mods) : f[i] \in Nat
  BY <1>2, <1>3
<1>5. {End(machine.mods[i]) : i \in DOMAIN machine.mods} = M
  BY <1>2
<1>6. \A i \in DOMAIN machine.mods : End(machine.mods[i]) \in M
  BY <1>2
<1>. HIDE DEF f
<1>7. IsFiniteSet(M)
  BY <1>2, <1>4, FiniteValues
<1>8. M \subseteq Nat
  BY <1>4
<1>. HIDE DEF M
<1>9. IsFiniteSet({End(Kernel), End(machine.mbi)})
  <2>1. IsFiniteSet({End(Kernel)}) /\ IsFiniteSet({End(machine.mbi)})
    BY FS_Singleton
  <2>2. {End(Kernel), End(machine.mbi)} = {End(Kernel)} \union {End(machine.mbi)}
    OBVIOUS
  <2>. QED
    BY <2>1, <2>2, FS_Union
<1>10. IsFiniteSet(S) /\ S \subseteq Nat /\ S # {}
  BY <1>1, <1>3, <1>7, <1>8, <1>9, FS_Union
<1>11. BootDataEnd = Largest(S) /\ S = {End(r) : r \in BootData(machine)}
  <2>1. S = {End(r) : r \in BootData(machine)}
    BY <1>5 DEF BootData
  <2>. QED
    BY <2>1 DEF BootDataEnd, BootData
<1>12. End(Kernel) \in S /\ End(machine.mbi) \in S
       /\ \A i \in DOMAIN machine.mods : End(machine.mods[i]) \in S
  BY <1>6
<1>. HIDE DEF S
<1>13. Largest(S) \in Nat /\ Largest(S) \in S /\ \A y \in S : y <= Largest(S)
  BY <1>10, LargestOf
<1>14. PageSize * RoundUp(BootDataEnd) < Top
  BY <1>11, <1>13, BootAssumption
<1>. QED
  BY <1>11, <1>12, <1>13, <1>14

\* The bitmap is a region above all of that.
LEMMA BitmapAbove ==
  ASSUME machine \in Machines, NEW n \in Nat
  PROVE  /\ BitmapFor(n) \in Regions /\ BootDataEnd <= BitmapFor(n).addr
         /\ BitmapFor(n).addr = PageSize * RoundUp(BootDataEnd)
<1>1. BootDataEnd \in Nat
  BY BootDataEnds
<1>2. RoundUp(BootDataEnd) \in Nat /\ BootDataEnd <= PageSize * RoundUp(BootDataEnd)
  BY <1>1, Rounding
<1>. DEFINE b == (n + BitsPerByte - 1) \div BitsPerByte
<1>3. b \in Nat
  <2>1. BitsPerByte \in Nat \ {0} /\ n + BitsPerByte - 1 \in Nat
    BY BootAssumption
  <2>. QED
    BY <2>1, Division
<1>. HIDE DEF b
<1>4. RoundUp(b) \in Nat /\ PageSize \in Nat
  BY <1>3, Rounding, PmmAssumption
<1>5. PageSize * RoundUp(BootDataEnd) \in Nat /\ PageSize * RoundUp(b) \in Nat
  BY <1>2, <1>4
<1>6. BitmapFor(n) = [addr |-> PageSize * RoundUp(BootDataEnd), len |-> PageSize * RoundUp(b)]
  <2>. DEFINE x == PageSize * RoundUp(BootDataEnd)
  <2>1. x \in 0 .. Top - 1 /\ Top \in Nat \ {0}
    BY <1>5, BootDataEnds, BootAssumption
  <2>. HIDE DEF x
  <2>2. Top * 0 + x = x
    BY <2>1
  <2>3. x % Top = x
    <3>1. (Top * 0 + x) % Top = x
      BY <2>1, Remainder
    <3>. QED
      BY <2>2, <3>1
  <2>. QED
    BY <2>3 DEF BitmapFor, AlignUp, Region, b, x
<1>. QED
  BY <1>2, <1>5, <1>6 DEF Regions

LEMMA InsideRegion ==
  ASSUME NEW r \in Regions, npages_total \in Nat, NEW p \in Known
  PROVE  p \in Inside(r.addr, r.len) <=>
           r.addr <= PageRegion(p).addr /\ End(PageRegion(p)) <= End(r)
<1>. DEFINE a == r.addr
            e == r.addr + r.len
            x == PageSize * p
<1>1. a \in Nat /\ e \in Nat /\ r.len \in Nat /\ (r.len = 0 => e = a) /\ End(r) = e
  BY DEF Regions, End
<1>2. p \in Nat /\ PageSize \in Nat \ {0} /\ x \in Nat
  BY PmmAssumption DEF Known
<1>3. PageRegion(p).addr = x /\ End(PageRegion(p)) = x + PageSize
  BY DEF PageRegion, Region, End
<1>4. RoundUp(a) <= p /\ p < RoundDown(e) <=> a <= x /\ x + PageSize <= e
  BY <1>1, <1>2, PagesInside
<1>5. p \in Inside(r.addr, r.len) <=> r.len # 0 /\ RoundUp(a) <= p /\ p < RoundDown(e)
  BY DEF Inside, Span
<1>. HIDE DEF a, e, x
<1>6. r.len = 0 => ~ (a <= x /\ x + PageSize <= e)
  BY <1>1, <1>2
<1>7. p \in Inside(r.addr, r.len) <=> a <= x /\ x + PageSize <= e
  BY <1>4, <1>5, <1>6
<1>. QED
  BY <1>1, <1>3, <1>7 DEF a

LEMMA CoveringRegion ==
  ASSUME NEW r \in Regions, npages_total \in Nat, NEW p \in Known
  PROVE  p \in Covering(r.addr, r.len) <=> Meets(PageRegion(p), r)
<1>. DEFINE a == r.addr
            e == r.addr + r.len
            x == PageSize * p
<1>1. a \in Nat /\ e \in Nat /\ r.len \in Nat /\ End(r) = e
  BY DEF Regions, End
<1>2. p \in Nat /\ PageSize \in Nat \ {0} /\ x \in Nat
  BY PmmAssumption DEF Known
<1>3. PageRegion(p).addr = x /\ PageRegion(p).len = PageSize /\ End(PageRegion(p)) = x + PageSize
  BY DEF PageRegion, Region, End
<1>4. RoundDown(a) <= p /\ p < RoundUp(e) <=> a < x + PageSize /\ x < e
  BY <1>1, <1>2, PagesCovering
<1>5. p \in Covering(r.addr, r.len) <=> r.len # 0 /\ RoundDown(a) <= p /\ p < RoundUp(e)
  BY DEF Covering, Span
<1>6. Meets(PageRegion(p), r) <=> PageSize > 0 /\ r.len > 0 /\ x < e /\ a < x + PageSize
  BY <1>1, <1>3 DEF Meets
<1>. HIDE DEF a, e, x
<1>7. r.len # 0 <=> r.len > 0
  BY <1>1
<1>8. PageSize > 0
  BY <1>2
<1>. QED
  BY <1>4, <1>5, <1>6, <1>7, <1>8

\* mmap_free_available() frees the whole pages of RAM.
LEMMA RamIsFreed ==
  ASSUME machine \in Machines, npages_total \in Nat
  PROVE  machine.ram \in Seq(Regions) /\ RamPages = InsideOf(Elems(machine.ram))
<1>1. machine.ram \in Seq(Regions)
  BY BootAssumption
<1>2. \A i \in DOMAIN machine.ram : machine.ram[i] \in Regions
  BY <1>1, LenProperties
<1>3. \A r \in Regions : Inside(r.addr, r.len) \subseteq Known
  BY DEF Inside, Span
<1>4. ASSUME NEW p \in Known
      PROVE  InRam(PageRegion(p)) <=>
               \E i \in DOMAIN machine.ram : p \in Inside(machine.ram[i].addr, machine.ram[i].len)
  <2>1. \A i \in DOMAIN machine.ram :
          p \in Inside(machine.ram[i].addr, machine.ram[i].len) <=>
            machine.ram[i].addr <= PageRegion(p).addr /\ End(PageRegion(p)) <= End(machine.ram[i])
    BY <1>2, InsideRegion
  <2>. QED
    BY <2>1 DEF InRam
<1>5. InsideOf(Elems(machine.ram)) \subseteq Known
  BY <1>2, <1>3 DEF InsideOf, Elems
<1>6. \A p : p \in InsideOf(Elems(machine.ram)) <=>
               \E i \in DOMAIN machine.ram : p \in Inside(machine.ram[i].addr, machine.ram[i].len)
  BY DEF InsideOf, Elems
<1>. QED
  BY <1>1, <1>4, <1>5, <1>6 DEF RamPages

\* What pmm_bootstrap() takes back is what no page may be given out of.
LEMMA TakenIsReserved ==
  ASSUME machine \in Machines, npages_total \in Nat, bitmap \in Regions
  PROVE  /\ Reserves \in Seq(Regions) /\ Elems(Reserves) = Taken
         /\ Usable = RamPages \ CoveredBy(Taken)
<1>1. machine.mods \in Seq(Regions) /\ machine.mbi \in Regions /\ Kernel \in Regions
      /\ Region(0, LowEnd) \in Regions
  BY BootAssumption DEF Region, Regions
<1>. DEFINE four == <<Region(0, LowEnd), Kernel, bitmap, machine.mbi>>
            mods == {machine.mods[i] : i \in DOMAIN machine.mods}
<1>2. four \in Seq(Regions)
  BY <1>1
<1>3. Elems(four) = {Region(0, LowEnd), Kernel, bitmap, machine.mbi}
  <2>1. DOMAIN four = 1 .. 4 /\ four[1] = Region(0, LowEnd) /\ four[2] = Kernel
        /\ four[3] = bitmap /\ four[4] = machine.mbi
    BY <1>1
  <2>2. 1 .. 4 = {1, 2, 3, 4}
    OBVIOUS
  <2>. HIDE DEF four
  <2>. QED
    BY <2>1, <2>2 DEF Elems
<1>4. Reserves \in Seq(Regions) /\ Elems(Reserves) = Elems(four) \union Elems(machine.mods)
  <2>1. Reserves = four \o machine.mods
    BY DEF Reserves
  <2>. HIDE DEF four
  <2>. QED
    BY <1>1, <1>2, <2>1, ConcatElems, ConcatProperties
<1>5. Elems(Reserves) = Taken
  BY <1>3, <1>4 DEF Taken, Elems
<1>6. \A r \in Taken : r \in Regions
  BY <1>1, LenProperties DEF Taken
<1>7. ASSUME NEW p \in Known
      PROVE  p \in CoveredBy(Taken) <=> \E r \in Taken : Meets(PageRegion(p), r)
  BY <1>6, CoveringRegion DEF CoveredBy
<1>. QED
  BY <1>4, <1>5, <1>7 DEF Usable, RamPages

\* The directory has an entry for every page of RAM below 4 GB.
LEMMA DirectoryReaches ==
  ASSUME NEW x \in 0 .. Top
  PROVE  RoundUp(x) \in Nat /\ RoundUp(x) <= Dirs * Slots
<1>. DEFINE n == RoundUp(x)
            m == Dirs * Slots
<1>1. PageSize \in Nat \ {0} /\ Top \in Nat /\ m \in Nat /\ Top <= PageSize * m
  BY PmmAssumption, BootAssumption, PmapAssumption
<1>2. x \in Nat /\ n \in Nat /\ PageSize * n < x + PageSize
  BY <1>1, Rounding
<1>. HIDE DEF n, m
<1>3. PageSize * n < PageSize * (m + 1)
  <2>1. PageSize * (m + 1) = PageSize * m + PageSize /\ PageSize * m \in Nat /\ PageSize * n \in Nat
    BY <1>1, <1>2
  <2>. QED
    BY <1>1, <1>2, <2>1
<1>4. n < m + 1
  BY <1>1, <1>2, <1>3, Factors
<1>5. n <= m
  BY <1>1, <1>2, <1>4
<1>. QED
  BY <1>2, <1>5 DEF n, m

-----------------------------------------------------------------------------
(***************************************************************************)
(* The address space before anything is in it.                             *)
(***************************************************************************)

\* Where the pages that come from pmm_alloc() lie.
LEMMA Layout ==
  ASSUME machine \in Machines
  PROVE  /\ \A x \in Phases : Area(x, machine) \subseteq VPage /\ 0 \notin Area(x, machine)
         /\ \A x, y \in Phases : x # y => Area(x, machine) \intersect Area(y, machine) = {}
         /\ Held \subseteq VPage /\ 0 \notin Held
         /\ ThreadVABase .. ThreadVABase + 9 \subseteq Held
         /\ Area("smoke", machine) = {SmokeVA} /\ SmokeVA \in Held
         /\ Area("user", machine) = {UserCodeVA, UserStackVA}
         /\ UserCodeVA \in Held /\ UserStackVA \in Held
         /\ Area("heap", machine) = HeapBase .. HeapBase + HeapPages - 1
         /\ Area("thread_a", machine) = ThreadVABase .. ThreadVABase + 2
         /\ Area("thread_b", machine) = ThreadVABase + 3 .. ThreadVABase + 5
         /\ Area("thread_u", machine) = ThreadVABase + 6 .. ThreadVABase + 9
<1>1. /\ \A x \in Phases : Area(x, machine) \subseteq VPage \ {0}
      /\ \A x, y \in Phases : x # y => Area(x, machine) \intersect Area(y, machine) = {}
  BY LayoutAssumption
<1>2. {"smoke", "user", "heap", "thread_a", "thread_b", "thread_u"} \subseteq Phases
  BY DEF Phases
<1>3. /\ Area("smoke", machine) = {SmokeVA}
      /\ Area("user", machine) = {UserCodeVA, UserStackVA}
      /\ Area("heap", machine) = HeapBase .. HeapBase + HeapPages - 1
      /\ Area("thread_a", machine) = ThreadVABase .. ThreadVABase + 2
      /\ Area("thread_b", machine) = ThreadVABase + 3 .. ThreadVABase + 5
      /\ Area("thread_u", machine) = ThreadVABase + 6 .. ThreadVABase + 9
  BY DEF Area
<1>4. ThreadVABase \in Nat
  BY PmapAssumption
<1>5. ThreadVABase .. ThreadVABase + 9 =
        Area("thread_a", machine) \union Area("thread_b", machine) \union Area("thread_u", machine)
  BY <1>3, <1>4
<1>6. Held = Area("smoke", machine) \union Area("user", machine) \union Area("heap", machine)
             \union (ThreadVABase .. ThreadVABase + 9)
  BY <1>3 DEF Held
<1>7. Held \subseteq VPage \ {0}
  BY <1>1, <1>2, <1>5, <1>6
<1>. QED
  BY <1>1, <1>3, <1>7 DEF Held

LEMMA BlankSpace ==
  ASSUME Blank, machine \in Machines, boot \in Booting \union {"panic"},
         boot = "run" => Usable = Known \ busy
  PROVE  TableInv /\ HeldInv /\ HandInv /\ TodoInv /\ NextVA /\ SpaceInv /\ TlbInv
<1>1. pgdir = [d \in 0 .. Dirs - 1 |-> None] /\ tables = [p \in {} |-> <<>>]
  BY DEF Blank
<1>2. DirPages = {} /\ TablePages = {} /\ TableInv
  <2>1. DirPages = {} /\ DOMAIN tables = {}
    BY <1>1 DEF DirPages
  <2>2. tables \in [{} -> [0 .. Slots - 1 -> Entries \union {None}]]
    BY <1>1
  <2>3. pgdir \in [0 .. Dirs - 1 -> Nat \union {None}]
    BY <1>1
  <2>4. \A d, e \in 0 .. Dirs - 1 : pgdir[d] = pgdir[e] /\ pgdir[d] # None => d = e
    BY <1>1
  <2>. QED
    BY <2>1, <2>2, <2>3, <2>4 DEF TableInv, TablePages
<1>3. \A v \in VPage : Map[v] = None
  BY <1>1, Entered DEF Map, Lookup
<1>4. Held \subseteq VPage /\ ThreadVABase .. ThreadVABase + 9 \subseteq VPage
  BY Layout
<1>5. MapPages = {} /\ PdPages = {} /\ HandPages = {} /\ hand = <<>> /\ Elems(hand) = {}
  BY <1>3, <1>4, NoElems DEF MapPages, PdPages, HandPages, Blank
<1>6. boot \notin Phases \union {"lcr3"} /\ boot \notin ThreadPhases
      /\ boot \notin {"low", "kernel", "lcr3", "fb", "smoke", "heap", "user", "thread_a", "thread_b", "thread_u"}
  BY DEF Booting, Phases, ThreadPhases
<1>7. HeldInv
  <2>1. boot \notin {"size", "free", "reserve", "panic"} => boot = "run"
    BY DEF Booting
  <2>2. pd = None
    BY DEF Blank
  <2>. QED
    BY <1>2, <1>3, <1>4, <1>5, <1>6, <2>1, <2>2 DEF HeldInv, Owned
<1>8. HandInv
  <2>1. hand \in Seq(Known \union {NoMem})
    BY <1>5
  <2>. QED
    BY <1>6, <2>1 DEF HandInv, ThreadPhases
<1>9. TodoInv
  BY <1>6 DEF TodoInv
<1>10. NextVA
  BY <1>6 DEF NextVA, Blank
<1>11. SpaceInv
  BY <1>3, <1>4 DEF SpaceInv
<1>12. TlbInv
  BY DEF TlbInv, Blank
<1>. QED
  BY <1>2, <1>7, <1>8, <1>9, <1>10, <1>11, <1>12

LEMMA BlankSpaceNext ==
  ( /\ Blank /\ machine \in Machines /\ boot \in Booting \union {"panic"}
    /\ (boot = "run" => Usable = Known \ busy)
    => TableInv /\ HeldInv /\ HandInv /\ TodoInv /\ NextVA /\ SpaceInv /\ TlbInv )'
<1>1. Blank /\ machine \in Machines /\ boot \in Booting \union {"panic"}
      /\ (boot = "run" => Usable = Known \ busy)
      => TableInv /\ HeldInv /\ HandInv /\ TodoInv /\ NextVA /\ SpaceInv /\ TlbInv
  BY BlankSpace
<1>. QED
  BY <1>1, PTL

-----------------------------------------------------------------------------
(***************************************************************************)
(* The start, and the steps of pmm_bootstrap().                            *)
(***************************************************************************)

LEMMA InitStep ==
  ASSUME PmapBootInit
  PROVE  KmainInv
<1>1. busy = {} /\ npages_total = 0 /\ alloc_cursor = 0 /\ machine \in Machines
      /\ boot = "size" /\ todo = <<>> /\ bitmap = Region(0, 0)
  BY DEF PmapBootInit, BootInit, Init
<1>2. Blank
  BY DEF PmapBootInit, Blank
<1>3. PoolInv
  <2>1. Dirs * Slots \in Nat
    BY PmapAssumption
  <2>2. 0 <= Dirs * Slots
    BY <2>1
  <2>. QED
    BY <1>1, <2>2 DEF PoolInv
<1>4. BootInv
  BY <1>1 DEF BootInv, Places, Booting, Region, Regions
<1>5. boot \in Booting \union {"panic"} /\ (boot = "run" => Usable = Known \ busy)
  BY <1>1 DEF Booting
<1>. QED
  BY <1>1, <1>2, <1>3, <1>4, <1>5, BlankSpace DEF KmainInv, EmptyInv

\* What depends on the machine, its pages and the bitmap alone.
LEMMA SameMachine ==
  ASSUME machine' = machine, npages_total' = npages_total, bitmap' = bitmap
  PROVE  /\ Known' = Known /\ RamPages' = RamPages /\ Usable' = Usable
         /\ BitmapFor(npages_total)' = BitmapFor(npages_total)
         /\ \A S : InsideOf(S)' = InsideOf(S) /\ CoveredBy(S)' = CoveredBy(S)
         /\ Reserves' = Reserves
<1>1. Known' = Known
  BY DEF Known
<1>2. RamPages' = RamPages
  BY <1>1 DEF RamPages, InRam
<1>3. Usable' = Usable
  BY <1>1 DEF Usable, InRam, Taken
<1>4. BootDataEnd' = BootDataEnd
  BY DEF BootDataEnd, BootData
<1>5. BitmapFor(npages_total)' = BitmapFor(npages_total)
  BY <1>4 DEF BitmapFor
<1>6. ASSUME NEW S
      PROVE  InsideOf(S)' = InsideOf(S) /\ CoveredBy(S)' = CoveredBy(S)
  BY <1>1 DEF InsideOf, CoveredBy, Inside, Covering, Span
<1>. QED
  BY <1>1, <1>2, <1>3, <1>5, <1>6 DEF Reserves

LEMMA RamIsFreedNext ==
  ( machine \in Machines /\ npages_total \in Nat
    => machine.ram \in Seq(Regions) /\ RamPages = InsideOf(Elems(machine.ram)) )'
<1>1. machine \in Machines /\ npages_total \in Nat
      => machine.ram \in Seq(Regions) /\ RamPages = InsideOf(Elems(machine.ram))
  BY RamIsFreed
<1>. QED
  BY <1>1, PTL

LEMMA SizeStep ==
  ASSUME PoolInv, BootInv, Size
  PROVE  PoolInv' /\ BootInv' /\ boot' \in {"free", "panic"}
<1>. DEFINE n == RoundUp(MaxAvailable)
<1>1. machine \in Machines /\ machine' = machine /\ boot = "size" /\ bitmap \in Regions
  BY DEF BootInv, Size
<1>2. n \in Nat /\ n <= Dirs * Slots
  BY <1>1, RamEnds, DirectoryReaches
<1>3. CASE End(BitmapFor(n)) > MaxAvailable
  <2>1. boot' = "panic" /\ UNCHANGED <<busy, npages_total, alloc_cursor, bitmap>>
    BY <1>3 DEF Size, pvars
  <2>2. PoolInv'
    BY <2>1 DEF PoolInv, Known
  <2>3. BootInv'
    BY <1>1, <2>1 DEF BootInv, Places, Booting
  <2>. QED
    BY <2>1, <2>2, <2>3
<1>4. CASE ~ (End(BitmapFor(n)) > MaxAvailable)
  <2>1. PmmInit(n) /\ bitmap' = BitmapFor(n) /\ boot' = "free" /\ todo' = machine.ram
    BY <1>4 DEF Size
  <2>. HIDE DEF n
  <2>2. npages_total' = n /\ busy' = 0 .. n - 1 /\ alloc_cursor' = 0
    BY <2>1 DEF PmmInit
  <2>3. Known' = 0 .. n - 1
    BY <2>2 DEF Known
  <2>4. PoolInv'
    <3>1. n # 0 => 0 \in 0 .. n - 1
      BY <1>2
    <3>. QED
      BY <1>2, <2>2, <2>3, <3>1 DEF PoolInv
  <2>5. BitmapFor(npages_total)' = BitmapFor(n)
    <3>1. BootDataEnd' = BootDataEnd
      BY <1>1 DEF BootDataEnd, BootData
    <3>. QED
      BY <2>2, <3>1 DEF BitmapFor
  <2>6. bitmap' \in Regions
    BY <1>1, <1>2, <2>1, BitmapAbove
  <2>7. todo' \in Seq(Regions) /\ RamPages' = InsideOf(Elems(todo))'
    BY <1>1, <1>2, <2>1, <2>2, RamIsFreedNext
  <2>8. RamPages' = (Known' \ busy') \union InsideOf(Elems(todo))'
    BY <2>2, <2>3, <2>7
  <2>9. BootInv'
    BY <1>1, <2>1, <2>5, <2>6, <2>7, <2>8 DEF BootInv, Places, Booting
  <2>. QED
    BY <2>1, <2>4, <2>9
<1>. QED
  BY <1>3, <1>4

LEMMA FreeEntryStep ==
  ASSUME PoolInv, BootInv, FreeEntry
  PROVE  PoolInv' /\ BootInv' /\ boot' = "free"
<1>. DEFINE h == Head(todo)
            t == Tail(todo)
<1>1. /\ boot = "free" /\ todo # <<>> /\ todo' = t /\ UNCHANGED <<machine, boot, bitmap>>
      /\ PmmFreeRegion(h.addr, h.len)
  BY DEF FreeEntry
<1>2. /\ machine \in Machines /\ todo \in Seq(Regions) /\ bitmap \in Regions
      /\ RamPages = (Known \ busy) \union InsideOf(Elems(todo))
      /\ bitmap = BitmapFor(npages_total)
  BY <1>1 DEF BootInv
<1>3. /\ PoolInv' /\ Known' = Known /\ npages_total' = npages_total
      /\ busy' = busy \ Inside(h.addr, h.len)
  BY <1>1, GivesRegion
<1>4. t \in Seq(Regions) /\ Elems(todo) = {h} \union Elems(t)
  BY <1>1, <1>2, TailElems
<1>5. InsideOf(Elems(todo)) = Inside(h.addr, h.len) \union InsideOf(Elems(t))
  BY <1>4 DEF InsideOf
<1>6. Inside(h.addr, h.len) \subseteq Known
  BY DEF Inside, Span
<1>7. RamPages' = RamPages /\ BitmapFor(npages_total)' = BitmapFor(npages_total)
      /\ InsideOf(Elems(todo))' = InsideOf(Elems(t))
  <2>1. InsideOf(Elems(todo))' = InsideOf(Elems(todo'))
    BY <1>3 DEF InsideOf, Inside, Span
  <2>. QED
    BY <1>1, <1>3, <2>1, SameMachine
<1>8. RamPages' = (Known' \ busy') \union InsideOf(Elems(todo))'
  <2>. HIDE DEF h, t
  <2>. QED
    BY <1>2, <1>3, <1>5, <1>6, <1>7
<1>9. BootInv'
  BY <1>1, <1>2, <1>4, <1>7, <1>8 DEF BootInv, Places, Booting
<1>. QED
  BY <1>1, <1>3, <1>9

LEMMA FreeDoneStep ==
  ASSUME PoolInv, BootInv, FreeDone
  PROVE  PoolInv' /\ BootInv' /\ boot' = "reserve"
<1>1. /\ boot = "free" /\ todo = <<>> /\ boot' = "reserve" /\ todo' = Reserves
      /\ UNCHANGED <<busy, npages_total, alloc_cursor, machine, bitmap>>
  BY DEF FreeDone, pvars
<1>2. /\ machine \in Machines /\ bitmap \in Regions /\ npages_total \in Nat
      /\ RamPages = (Known \ busy) \union InsideOf(Elems(todo))
      /\ bitmap = BitmapFor(npages_total)
  BY <1>1 DEF BootInv, PoolInv
<1>3. RamPages = Known \ busy
  BY <1>1, <1>2, NoElems DEF InsideOf
<1>4. Reserves \in Seq(Regions) /\ Usable = (Known \ busy) \ CoveredBy(Elems(Reserves))
  BY <1>2, <1>3, TakenIsReserved
<1>5. Known' = Known /\ Usable' = Usable /\ BitmapFor(npages_total)' = BitmapFor(npages_total)
  BY <1>1, SameMachine
<1>6. CoveredBy(Elems(todo))' = CoveredBy(Elems(Reserves))
  <2>1. CoveredBy(Elems(todo))' = CoveredBy(Elems(todo'))
    BY <1>5 DEF CoveredBy, Covering, Span
  <2>. QED
    BY <1>1, <2>1
<1>7. PoolInv'
  BY <1>1, <1>5 DEF PoolInv
<1>8. BootInv'
  BY <1>1, <1>2, <1>4, <1>5, <1>6 DEF BootInv, Places, Booting
<1>. QED
  BY <1>1, <1>7, <1>8

LEMMA ReserveEntryStep ==
  ASSUME PoolInv, BootInv, ReserveEntry
  PROVE  PoolInv' /\ BootInv' /\ boot' = "reserve"
<1>. DEFINE h == Head(todo)
            t == Tail(todo)
<1>1. /\ boot = "reserve" /\ todo # <<>> /\ todo' = t /\ UNCHANGED <<machine, boot, bitmap>>
      /\ PmmReserve(h.addr, h.len)
  BY DEF ReserveEntry
<1>2. /\ machine \in Machines /\ todo \in Seq(Regions) /\ bitmap \in Regions
      /\ Usable = (Known \ busy) \ CoveredBy(Elems(todo))
      /\ bitmap = BitmapFor(npages_total)
  BY <1>1 DEF BootInv
<1>3. /\ PoolInv' /\ Known' = Known /\ npages_total' = npages_total
      /\ busy' = busy \union Covering(h.addr, h.len)
  BY <1>1, TakesRegion
<1>4. t \in Seq(Regions) /\ Elems(todo) = {h} \union Elems(t)
  BY <1>1, <1>2, TailElems
<1>5. CoveredBy(Elems(todo)) = Covering(h.addr, h.len) \union CoveredBy(Elems(t))
  BY <1>4 DEF CoveredBy
<1>6. Usable' = Usable /\ BitmapFor(npages_total)' = BitmapFor(npages_total)
      /\ CoveredBy(Elems(todo))' = CoveredBy(Elems(t))
  <2>1. CoveredBy(Elems(todo))' = CoveredBy(Elems(todo'))
    BY <1>3 DEF CoveredBy, Covering, Span
  <2>. QED
    BY <1>1, <1>3, <2>1, SameMachine
<1>7. Usable' = (Known' \ busy') \ CoveredBy(Elems(todo))'
  <2>. HIDE DEF h, t
  <2>. QED
    BY <1>2, <1>3, <1>5, <1>6
<1>8. BootInv'
  BY <1>1, <1>2, <1>4, <1>6, <1>7 DEF BootInv, Places, Booting
<1>. QED
  BY <1>1, <1>3, <1>8

LEMMA ReserveDoneStep ==
  ASSUME PoolInv, BootInv, ReserveDone
  PROVE  PoolInv' /\ BootInv' /\ boot' = "run"
<1>1. /\ boot = "reserve" /\ todo = <<>> /\ boot' = "run"
      /\ UNCHANGED <<busy, npages_total, alloc_cursor, machine, bitmap, todo>>
  BY DEF ReserveDone, pvars
<1>2. /\ machine \in Machines /\ bitmap \in Regions
      /\ Usable = (Known \ busy) \ CoveredBy(Elems(todo))
      /\ bitmap = BitmapFor(npages_total)
  BY <1>1 DEF BootInv
<1>3. Known' = Known /\ Usable' = Usable /\ BitmapFor(npages_total)' = BitmapFor(npages_total)
  BY <1>1, SameMachine
<1>4. Usable = Known \ busy
  BY <1>1, <1>2, NoElems DEF CoveredBy
<1>5. PoolInv'
  BY <1>1, <1>3 DEF PoolInv
<1>6. BootInv'
  BY <1>1, <1>2, <1>3, <1>4 DEF BootInv, Places, Booting
<1>. QED
  BY <1>1, <1>5, <1>6

LEMMA BootStep ==
  ASSUME KmainInv, Bootstrap, UNCHANGED mvars
  PROVE  KmainInv' /\ SpaceStep
<1>1. PoolInv /\ BootInv /\ EmptyInv
  BY DEF KmainInv
<1>2. boot \in {"size", "free", "reserve"}
  BY DEF Bootstrap, Size, FreeEntry, FreeDone, ReserveEntry, ReserveDone
<1>3. PoolInv' /\ BootInv' /\ boot' \in Booting \union {"panic"}
  <2>1. CASE Size
    BY <1>1, <2>1, SizeStep DEF Booting
  <2>2. CASE FreeEntry
    BY <1>1, <2>2, FreeEntryStep DEF Booting
  <2>3. CASE FreeDone
    BY <1>1, <2>3, FreeDoneStep DEF Booting
  <2>4. CASE ReserveEntry
    BY <1>1, <2>4, ReserveEntryStep DEF Booting
  <2>5. CASE ReserveDone
    BY <1>1, <2>5, ReserveDoneStep DEF Booting
  <2>. QED
    BY <2>1, <2>2, <2>3, <2>4, <2>5 DEF Bootstrap
<1>4. Blank'
  BY <1>1, <1>2 DEF EmptyInv, Blank, Booting, mvars
<1>5. (boot = "run" => Usable = Known \ busy)' /\ (machine \in Machines)'
  BY <1>3 DEF BootInv
<1>6. (TableInv /\ HeldInv /\ HandInv /\ TodoInv /\ NextVA /\ SpaceInv /\ TlbInv)'
  BY <1>3, <1>4, <1>5, BlankSpaceNext
<1>7. SpaceStep
  <2>1. pgdir' = pgdir /\ tables' = tables
    BY DEF mvars
  <2>2. Map' = Map
    BY <2>1 DEF Map, Lookup, Dir, Slot
  <2>. QED
    BY <2>2 DEF SpaceStep
<1>. QED
  BY <1>3, <1>4, <1>6, <1>7 DEF KmainInv, EmptyInv

-----------------------------------------------------------------------------
(***************************************************************************)
(* pmap_map() and pmap_unmap() change the mapping of one page.             *)
(***************************************************************************)

LEMMA MapTyped ==
  ASSUME TableInv, NEW v \in VPage
  PROVE  Map[v] = Lookup(v) /\ Map[v] \in Entries \union {None}
<1>1. Dir(v) \in 0 .. Dirs - 1 /\ Slot(v) \in 0 .. Slots - 1
  BY Entered
<1>2. pgdir[Dir(v)] # None => pgdir[Dir(v)] \in DirPages
  BY <1>1 DEF DirPages
<1>3. Lookup(v) \in Entries \union {None}
  BY <1>1, <1>2 DEF Lookup, TableInv
<1>. QED
  BY <1>3 DEF Map

LEMMA EntryTyped ==
  ASSUME NEW p \in Nat, NEW flags \in SUBSET {"RW", "USER"}
  PROVE  Entry(p, flags) \in Entries /\ Entry(p, flags) # None
         /\ Entry(p, flags).pa = p /\ Entry(p, flags).flags = flags
<1>1. Entry(p, flags) \in Entries
  BY DEF Entry, Entries
<1>. QED
  BY <1>1, PmapAssumption DEF Entry

\* A directory that grows by some free pages at most.
Grows(New) ==
  /\ DirPages' = DirPages \union New
  /\ busy' = busy \union New /\ New \subseteq Known /\ New \intersect busy = {}

Stored(v, e) ==
  /\ TableInv'
  /\ Map'[v] = e
  /\ \A u \in VPage : u # v => Map'[u] = Map[u]

\* An entry written to a table that is there.
LEMMA WriteOld ==
  ASSUME TableInv, NEW v \in VPage, NEW e \in Entries \union {None},
         pgdir[Dir(v)] # None, pgdir' = pgdir,
         tables' = [q \in DirPages |->
                      IF q = pgdir[Dir(v)] THEN [tables[q] EXCEPT ![Slot(v)] = e] ELSE tables[q]]
  PROVE  Stored(v, e) /\ DirPages' = DirPages
<1>. DEFINE pt == pgdir[Dir(v)]
<1>1. Dir(v) \in 0 .. Dirs - 1 /\ Slot(v) \in 0 .. Slots - 1
  BY Entered
<1>2. pt \in DirPages
  BY <1>1 DEF DirPages
<1>3. DirPages' = DirPages
  BY DEF DirPages
<1>4. tables \in [DirPages -> [0 .. Slots - 1 -> Entries \union {None}]]
  BY DEF TableInv
<1>5. tables' \in [DirPages -> [0 .. Slots - 1 -> Entries \union {None}]]
  BY <1>1, <1>4
<1>6. TableInv'
  BY <1>3, <1>5 DEF TableInv
<1>7. ASSUME NEW u \in VPage
      PROVE  Map'[u] = IF u = v THEN e ELSE Map[u]
  <2>1. Dir(u) \in 0 .. Dirs - 1 /\ Slot(u) \in 0 .. Slots - 1
    BY Entered
  <2>2. Map'[u] = IF pgdir[Dir(u)] = None THEN None ELSE tables'[pgdir[Dir(u)]][Slot(u)]
    BY DEF Map, Lookup
  <2>3. Map[u] = IF pgdir[Dir(u)] = None THEN None ELSE tables[pgdir[Dir(u)]][Slot(u)]
    BY DEF Map, Lookup
  <2>4. CASE pgdir[Dir(u)] = pt
    <3>1. Dir(u) = Dir(v)
      BY <1>1, <2>1, <2>4 DEF TableInv
    <3>2. Slot(u) = Slot(v) <=> u = v
      BY <3>1, EnteredOnce
    <3>3. tables'[pt] = [tables[pt] EXCEPT ![Slot(v)] = e]
      BY <1>2
    <3>4. tables[pt] \in [0 .. Slots - 1 -> Entries \union {None}]
      BY <1>2, <1>4
    <3>5. tables'[pt][Slot(u)] = IF Slot(u) = Slot(v) THEN e ELSE tables[pt][Slot(u)]
      BY <1>1, <2>1, <3>3, <3>4
    <3>. QED
      BY <2>2, <2>3, <2>4, <3>2, <3>5
  <2>5. CASE pgdir[Dir(u)] # pt
    <3>1. u # v
      BY <2>5
    <3>2. pgdir[Dir(u)] # None => pgdir[Dir(u)] \in DirPages
      BY <2>1 DEF DirPages
    <3>. QED
      BY <2>2, <2>3, <2>5, <3>1, <3>2
  <2>. QED
    BY <2>4, <2>5
<1>. QED
  BY <1>3, <1>6, <1>7 DEF Stored

\* An entry written to a new table.
LEMMA WriteNew ==
  ASSUME TableInv, NEW v \in VPage, NEW e \in Entries \union {None}, NEW pt \in Nat,
         pt \notin DirPages, pgdir[Dir(v)] = None, pgdir' = [pgdir EXCEPT ![Dir(v)] = pt],
         tables' = [q \in DirPages \union {pt} |->
                      IF q = pt THEN [Cleared EXCEPT ![Slot(v)] = e] ELSE tables[q]]
  PROVE  Stored(v, e) /\ DirPages' = DirPages \union {pt}
<1>1. Dir(v) \in 0 .. Dirs - 1 /\ Slot(v) \in 0 .. Slots - 1
  BY Entered
<1>2. pgdir \in [0 .. Dirs - 1 -> Nat \union {None}]
      /\ tables \in [DirPages -> [0 .. Slots - 1 -> Entries \union {None}]]
  BY DEF TableInv
<1>3. pt # None
  BY PmapAssumption
<1>4. \A d \in 0 .. Dirs - 1 : pgdir'[d] = IF d = Dir(v) THEN pt ELSE pgdir[d]
  BY <1>1, <1>2
<1>5. DirPages' = DirPages \union {pt}
  <2>1. DirPages' = {pgdir'[d] : d \in 0 .. Dirs - 1} \ {None}
    BY DEF DirPages
  <2>. QED
    BY <1>1, <1>3, <1>4, <2>1 DEF DirPages
<1>6. pgdir' \in [0 .. Dirs - 1 -> Nat \union {None}]
  BY <1>1, <1>2
<1>7. \A d \in 0 .. Dirs - 1 : pgdir[d] # pt
  BY <1>3 DEF DirPages
<1>8. \A d, f \in 0 .. Dirs - 1 : pgdir'[d] = pgdir'[f] /\ pgdir'[d] # None => d = f
  BY <1>4, <1>7 DEF TableInv
<1>9. Cleared \in [0 .. Slots - 1 -> Entries \union {None}]
  BY DEF Cleared
<1>10. tables' \in [DirPages \union {pt} -> [0 .. Slots - 1 -> Entries \union {None}]]
  BY <1>1, <1>2, <1>9
<1>11. TableInv'
  BY <1>5, <1>6, <1>8, <1>10 DEF TableInv
<1>12. ASSUME NEW u \in VPage
       PROVE  Map'[u] = IF u = v THEN e ELSE Map[u]
  <2>1. Dir(u) \in 0 .. Dirs - 1 /\ Slot(u) \in 0 .. Slots - 1
    BY Entered
  <2>2. Map'[u] = IF pgdir'[Dir(u)] = None THEN None ELSE tables'[pgdir'[Dir(u)]][Slot(u)]
    BY DEF Map, Lookup
  <2>3. Map[u] = IF pgdir[Dir(u)] = None THEN None ELSE tables[pgdir[Dir(u)]][Slot(u)]
    BY DEF Map, Lookup
  <2>4. CASE Dir(u) = Dir(v)
    <3>1. Slot(u) = Slot(v) <=> u = v
      BY <2>4, EnteredOnce
    <3>2. pgdir'[Dir(u)] = pt
      BY <1>4, <2>1, <2>4
    <3>3. tables'[pt] = [Cleared EXCEPT ![Slot(v)] = e]
      OBVIOUS
    <3>4. tables'[pt][Slot(u)] = IF Slot(u) = Slot(v) THEN e ELSE None
      BY <1>1, <2>1, <3>3 DEF Cleared
    <3>. QED
      BY <1>3, <2>2, <2>3, <2>4, <3>1, <3>2, <3>4
  <2>5. CASE Dir(u) # Dir(v)
    <3>1. u # v /\ pgdir'[Dir(u)] = pgdir[Dir(u)]
      BY <1>4, <2>1, <2>5
    <3>2. pgdir[Dir(u)] # None => pgdir[Dir(u)] \in DirPages
      BY <2>1 DEF DirPages
    <3>. QED
      BY <2>2, <2>3, <3>1, <3>2
  <2>. QED
    BY <2>4, <2>5
<1>. QED
  BY <1>5, <1>11, <1>12 DEF Stored

LEMMA MapEffect ==
  ASSUME PoolInv, TableInv, DirPages \subseteq busy, pd \in busy,
         NEW v \in VPage, NEW p \in Nat, NEW flags \in SUBSET {"RW", "USER"}, NEW where,
         PmapMap(v, p, flags, where)
  PROVE  /\ PoolInv' /\ npages_total' = npages_total /\ Known' = Known
         /\ \/ /\ boot' = where /\ Stored(v, Entry(p, flags))
               /\ \E New : Grows(New)
               /\ \E S : S \subseteq VPage /\ tlb' = Invlpg(v, tlb \union Uses(S))
            \/ boot' = "panic" /\ UNCHANGED <<busy, pgdir, tables, tlb>>
<1>. DEFINE d == Dir(v)
            e == Entry(p, flags)
            pt == pgdir'[d]
<1>1. d \in 0 .. Dirs - 1 /\ e \in Entries
  BY Entered, EntryTyped
<1>2. pgdir \in [0 .. Dirs - 1 -> Nat \union {None}] /\ TablePages = DirPages
  BY DEF TableInv, TablePages
<1>3. Known \subseteq VPage /\ busy \subseteq Known
  <2>1. Dirs * Slots \in Nat
    BY PmapAssumption
  <2>2. npages_total \in Nat /\ npages_total <= Dirs * Slots
    BY DEF PoolInv
  <2>. QED
    BY <2>1, <2>2 DEF PoolInv, Known, VPage
<1>4. CASE pgdir[d] # None
  <2>1. UNCHANGED <<busy, npages_total, alloc_cursor, pgdir>> /\ pt = pgdir[d]
    BY <1>4 DEF PmapMap, PtFor, pvars
  <2>2. pt # None /\ pt \in DirPages
    BY <1>1, <1>4, <2>1 DEF DirPages
  <2>3. /\ tables' = [q \in DirPages \union {pt} |->
                       IF q = pt THEN [Contents(d) EXCEPT ![Slot(v)] = e] ELSE tables[q]]
        /\ tlb' = Invlpg(v, tlb \union Uses({pd, pt})) /\ boot' = where
    BY <1>2, <2>2 DEF PmapMap
  <2>4. Contents(d) = tables[pt]
    BY <1>4, <2>1 DEF Contents
  <2>5. tables' = [q \in DirPages |->
                     IF q = pgdir[Dir(v)] THEN [tables[q] EXCEPT ![Slot(v)] = e] ELSE tables[q]]
    BY <2>1, <2>2, <2>3, <2>4
  <2>6. Stored(v, e) /\ DirPages' = DirPages
    <3>. HIDE DEF e
    <3>. QED
      BY <1>1, <1>4, <2>1, <2>5, WriteOld
  <2>7. Grows({})
    BY <2>1, <2>6 DEF Grows
  <2>8. {pd, pt} \subseteq VPage
    BY <1>3, <2>2
  <2>9. PoolInv' /\ Known' = Known
    BY <2>1 DEF PoolInv, Known
  <2>. HIDE DEF pt, e, d
  <2>10. \E S : S \subseteq VPage /\ tlb' = Invlpg(v, tlb \union Uses(S))
    BY <2>3, <2>8
  <2>. QED
    BY <2>1, <2>3, <2>6, <2>7, <2>9, <2>10 DEF e
<1>5. CASE pgdir[d] = None
  <2>1. PmmAlloc /\ pgdir' = IF ret' = NoMem THEN pgdir ELSE [pgdir EXCEPT ![d] = ret']
    BY <1>5 DEF PmapMap, PtFor
  <2>2. PoolInv' /\ npages_total' = npages_total /\ Known' = Known
    BY <2>1, Allocates
  <2>3. CASE ret' = NoMem /\ busy' = busy
    <3>1. pgdir' = pgdir /\ pt = None
      BY <1>5, <2>1, <2>3
    <3>2. boot' = "panic" /\ UNCHANGED <<tables, tlb>>
      BY <3>1 DEF PmapMap
    <3>. QED
      BY <2>2, <2>3, <3>1, <3>2
  <2>4. CASE ret' \in Nat /\ ret' \in Known /\ ret' \notin busy /\ busy' = busy \union {ret'}
    <3>1. ret' # NoMem /\ ret' # None
      BY <2>4, PmmAssumption, PmapAssumption
    <3>2. pgdir' = [pgdir EXCEPT ![d] = ret'] /\ pt = ret'
      BY <1>1, <1>2, <2>1, <3>1
    <3>3. /\ tables' = [q \in DirPages \union {pt} |->
                         IF q = pt THEN [Contents(d) EXCEPT ![Slot(v)] = e] ELSE tables[q]]
          /\ tlb' = Invlpg(v, tlb \union Uses({pd, pt})) /\ boot' = where
      BY <1>2, <3>1, <3>2 DEF PmapMap
    <3>4. Contents(d) = Cleared
      BY <1>5 DEF Contents
    <3>5. pt \in Nat /\ pt \notin DirPages /\ pt \in Known /\ pt \notin busy
      BY <2>4, <3>2
    <3>6. Stored(v, e) /\ DirPages' = DirPages \union {ret'}
      <4>1. tables' = [q \in DirPages \union {ret'} |->
                         IF q = ret' THEN [Cleared EXCEPT ![Slot(v)] = e] ELSE tables[q]]
        BY <3>2, <3>3, <3>4
      <4>2. ret' \in Nat /\ ret' \notin DirPages
        BY <3>2, <3>5
      <4>. HIDE DEF e
      <4>. QED
        BY <1>1, <1>5, <3>2, <4>1, <4>2, WriteNew
    <3>7. Grows({ret'})
      BY <2>4, <3>6 DEF Grows
    <3>8. {pd, pt} \subseteq VPage
      BY <1>3, <3>5
    <3>. HIDE DEF pt, e, d
    <3>9. \E S : S \subseteq VPage /\ tlb' = Invlpg(v, tlb \union Uses(S))
      BY <3>3, <3>8
    <3>. QED
      BY <2>2, <3>3, <3>6, <3>7, <3>9 DEF e
  <2>. QED
    BY <2>1, <2>3, <2>4, Allocates
<1>. QED
  BY <1>4, <1>5

LEMMA UnmapEffect ==
  ASSUME PoolInv, TableInv, DirPages \subseteq busy, pd \in busy,
         NEW v \in VPage, Map[v] # None, PmapUnmap(v), pgdir' = pgdir
  PROVE  /\ Stored(v, None) /\ DirPages' = DirPages
         /\ \E S : S \subseteq VPage /\ tlb' = Invlpg(v, tlb \union Uses(S))
<1>. DEFINE pt == pgdir[Dir(v)]
<1>1. Dir(v) \in 0 .. Dirs - 1
  BY Entered
<1>2. pt # None
  BY DEF Map, Lookup
<1>3. pt \in DirPages
  BY <1>1, <1>2 DEF DirPages
<1>4. tables' = [tables EXCEPT ![pt][Slot(v)] = None] /\ tlb' = Invlpg(v, tlb \union Uses({v, pd, pt}))
  BY <1>2 DEF PmapUnmap
<1>5. tables \in [DirPages -> [0 .. Slots - 1 -> Entries \union {None}]]
  BY DEF TableInv
<1>6. tables' = [q \in DirPages |->
                   IF q = pgdir[Dir(v)] THEN [tables[q] EXCEPT ![Slot(v)] = None] ELSE tables[q]]
  BY <1>3, <1>4, <1>5
<1>7. Stored(v, None) /\ DirPages' = DirPages
  BY <1>2, <1>6, WriteOld
<1>8. {v, pd, pt} \subseteq VPage
  <2>1. Dirs * Slots \in Nat
    BY PmapAssumption
  <2>2. npages_total \in Nat /\ npages_total <= Dirs * Slots /\ busy \subseteq Known
    BY DEF PoolInv
  <2>3. Known \subseteq VPage
    BY <2>1, <2>2 DEF Known, VPage
  <2>. QED
    BY <1>3, <2>2, <2>3
<1>. HIDE DEF pt
<1>. QED
  BY <1>4, <1>7, <1>8

\* The one translation that could be stale is dropped.
LEMMA TlbFollows ==
  ASSUME TlbInv, cr3' = cr3, NEW v \in VPage, NEW e, Stored(v, e),
         \E S : S \subseteq VPage /\ tlb' = Invlpg(v, tlb \union Uses(S))
  PROVE  TlbInv'
<1>1. PICK S : S \subseteq VPage /\ tlb' = Invlpg(v, tlb \union Uses(S))
  OBVIOUS
<1>2. \A c \in tlb' : c[1] # v /\ (c \in tlb \/ \E u \in S : c = <<u, Walk(u)>> /\ Walk(u) # None)
  BY <1>1 DEF Invlpg, Uses
<1>3. CASE cr3 = "boot"
  <2>1. ASSUME NEW c \in tlb'
        PROVE  c[2] # None /\ BootWalk(c[1]) = c[2]
    <3>1. CASE c \in tlb
      BY <1>3, <3>1 DEF TlbInv
    <3>2. ASSUME NEW u \in S, c = <<u, Walk(u)>>, Walk(u) # None
          PROVE  c[2] # None /\ BootWalk(c[1]) = c[2]
      <4>1. c[1] = u /\ c[2] = Walk(u) /\ Walk(u) = BootWalk(u)
        BY <1>3, <3>2 DEF Walk
      <4>. QED
        BY <3>2, <4>1
    <3>. QED
      BY <1>2, <3>1, <3>2
  <2>. QED
    BY <1>3, <2>1 DEF TlbInv, BootWalk, Dir, Slot
<1>4. CASE cr3 = "own"
  <2>1. ASSUME NEW c \in tlb'
        PROVE  c[1] \in VPage /\ c[2] # None /\ Map'[c[1]] = c[2]
    <3>1. c[1] \in VPage /\ c[2] # None /\ Map[c[1]] = c[2]
      <4>1. CASE c \in tlb
        BY <1>4, <4>1 DEF TlbInv
      <4>2. ASSUME NEW u \in S, c = <<u, Walk(u)>>, Walk(u) # None
            PROVE  c[1] \in VPage /\ c[2] # None /\ Map[c[1]] = c[2]
        <5>1. c[1] = u /\ c[2] = Walk(u) /\ Walk(u) = Lookup(u) /\ u \in VPage
          BY <1>1, <1>4, <4>2 DEF Walk
        <5>. QED
          BY <4>2, <5>1 DEF Map
      <4>. QED
        BY <1>2, <4>1, <4>2
    <3>2. c[1] # v
      BY <1>2
    <3>. QED
      BY <3>1, <3>2 DEF Stored
  <2>. QED
    BY <1>4, <2>1 DEF TlbInv
<1>. QED
  BY <1>3, <1>4 DEF TlbInv

-----------------------------------------------------------------------------
(***************************************************************************)
(* What kmain() has to map in a phase.                                     *)
(***************************************************************************)

LEMMA Listed ==
  ASSUME NEW S, NEW n \in Int, NEW f, f = [i \in 1 .. n |-> f[i]], \A i \in 1 .. n : f[i] \in S
  PROVE  f \in Seq(S) /\ DOMAIN f = 1 .. n
<1>. DEFINE m == IF n >= 0 THEN n ELSE 0
<1>1. m \in Nat /\ 1 .. n = 1 .. m
  OBVIOUS
<1>2. f \in [1 .. m -> S]
  BY <1>1
<1>. HIDE DEF m
<1>3. f \in Seq(S)
  BY <1>1, <1>2, SeqDef
<1>. QED
  BY <1>3

\* The list q is right for the phase.
RightJobs(phase, q) ==
  /\ q \in Seq(JobSet)
  /\ \A j \in Elems(q) : Fits(phase, j.va, j.pa, j.flags) /\ (j.pa = None <=> phase \in FromPmm)
  /\ \A i, k \in DOMAIN q : q[i].va = q[k].va => i = k
  /\ phase \in ThreadPhases => Len(q) = 1 /\ \A j \in Elems(q) : j.va = next_thread_va + 1
  /\ phase = "smoke" => q # <<>>
  /\ phase = "user" => Len(q) = 2

LEMMA JobIs ==
  ASSUME NEW v \in VPage, NEW p \in Nat \union {None}, NEW flags \in SUBSET {"RW", "USER"}
  PROVE  /\ Job(v, p, flags) \in JobSet
         /\ Job(v, p, flags).va = v /\ Job(v, p, flags).pa = p /\ Job(v, p, flags).flags = flags
BY DEF Job, JobSet

\* The flags a phase asks for, and whom its pages belong to.
LEMMA KernelFlags ==
  ASSUME machine \in Machines, NEW phase \in Phases, phase # "user", NEW v \in Area(phase, machine)
  PROVE  v # UserCodeVA /\ v # UserStackVA
<1>1. "user" \in Phases /\ Area("user", machine) = {UserCodeVA, UserStackVA}
      /\ Area(phase, machine) \intersect Area("user", machine) = {}
  BY Layout DEF Phases
<1>. QED
  BY <1>1

LEMMA FlagsAre ==
  /\ PteFlags({"PRESENT", "WRITE"}) = {"RW"}
  /\ PteFlags({"PRESENT", "USER"}) = {"USER"}
  /\ PteFlags({"PRESENT", "WRITE", "USER"}) = {"RW", "USER"}
<1>1. \A F : PteFlags(F) = {CASE f = "WRITE" -> "RW" [] f = "USER" -> "USER" : f \in F \ {"PRESENT"}}
  BY DEF PteFlags
<1>2. {"PRESENT", "WRITE"} \ {"PRESENT"} = {"WRITE"} /\ {"PRESENT", "USER"} \ {"PRESENT"} = {"USER"}
      /\ {"PRESENT", "WRITE", "USER"} \ {"PRESENT"} = {"WRITE", "USER"}
  OBVIOUS
<1>3. PteFlags({"PRESENT", "WRITE"}) = {"RW"}
  BY <1>1, <1>2
<1>4. PteFlags({"PRESENT", "USER"}) = {"USER"}
  BY <1>1, <1>2
<1>5. PteFlags({"PRESENT", "WRITE", "USER"}) = {"RW", "USER"}
  BY <1>1, <1>2
<1>. QED
  BY <1>3, <1>4, <1>5

LEMMA LowRight ==
  ASSUME machine \in Machines, npages_total \in Nat
  PROVE  RightJobs("low", LowJobs)
<1>. DEFINE n == Smaller(npages_total, PmapLowEnd) - 1
            q == LowJobs
<1>1. n \in Int /\ n <= PmapLowEnd - 1 /\ PmapLowEnd \in Nat
  BY PmapAssumption DEF Smaller
<1>2. "low" \in Phases /\ Area("low", machine) = 1 .. PmapLowEnd - 1 /\ Area("low", machine) \subseteq VPage
      /\ "low" \notin FromPmm /\ "low" \notin ThreadPhases /\ "low" # "user"
  BY Layout DEF Phases, Area, FromPmm, ThreadPhases
<1>3. q = [i \in 1 .. n |-> Job(i, i, {"RW"})]
  BY DEF LowJobs
<1>. HIDE DEF n, q
<1>4. ASSUME NEW i \in 1 .. n
      PROVE  /\ q[i] \in JobSet /\ q[i].va = i /\ q[i].pa # None
             /\ Fits("low", q[i].va, q[i].pa, q[i].flags)
  <2>1. i \in Area("low", machine) /\ i \in Nat /\ i \in VPage /\ i # None
    BY <1>1, <1>2, PmapAssumption
  <2>2. q[i] = Job(i, i, {"RW"})
    BY <1>3
  <2>3. q[i] \in JobSet /\ q[i].va = i /\ q[i].pa = i /\ q[i].flags = {"RW"}
    BY <2>1, <2>2, JobIs
  <2>4. i # UserCodeVA /\ i # UserStackVA
    BY <1>2, <2>1, KernelFlags
  <2>. QED
    BY <1>2, <2>1, <2>3, <2>4 DEF Fits
<1>5. q \in Seq(JobSet) /\ DOMAIN q = 1 .. n
  <2>1. q = [i \in 1 .. n |-> q[i]]
    BY <1>3
  <2>. QED
    BY <1>1, <1>4, <2>1, Listed
<1>6. RightJobs("low", q)
  BY <1>2, <1>4, <1>5 DEF RightJobs, Elems
<1>. QED
  BY <1>6 DEF q

LEMMA KernelRight ==
  ASSUME machine \in Machines
  PROVE  RightJobs("kernel", KernelJobs)
<1>. DEFINE a == RoundDown(Kernel.addr)
            e == RoundUp(End(Kernel))
            n == Cardinality(KernelPages)
            q == KernelJobs
<1>1. a \in Nat /\ e \in Nat
  <2>1. Kernel.addr \in Nat /\ End(Kernel) \in Nat
    BY BootAssumption DEF Regions, End
  <2>. QED
    BY <2>1, Rounding
<1>2. KernelPages = a .. e - 1 /\ KernBase \in Nat
  BY PmapAssumption DEF KernelPages
<1>3. n = IF a > e - 1 THEN 0 ELSE (e - 1) - a + 1
  <2>. HIDE DEF a, e
  <2>. QED
    BY <1>1, <1>2, FS_Interval
<1>4. "kernel" \in Phases /\ Area("kernel", machine) = {KernBase + p : p \in KernelPages}
      /\ Area("kernel", machine) \subseteq VPage
      /\ "kernel" \notin FromPmm /\ "kernel" \notin ThreadPhases /\ "kernel" # "user"
  BY Layout DEF Phases, Area, FromPmm, ThreadPhases
<1>5. q = [i \in 1 .. n |-> Job(KernBase + a + i - 1, a + i - 1, {"RW"})]
  BY DEF KernelJobs
<1>. HIDE DEF a, e, n, q
<1>6. n \in Nat
  BY <1>1, <1>3
<1>7. ASSUME NEW i \in 1 .. n
      PROVE  /\ q[i] \in JobSet /\ q[i].va = KernBase + a + i - 1 /\ q[i].pa # None
             /\ Fits("kernel", q[i].va, q[i].pa, q[i].flags)
  <2>. DEFINE p == a + i - 1
              v == KernBase + a + i - 1
  <2>1. p \in KernelPages /\ p \in Nat /\ v = KernBase + p
    BY <1>1, <1>2, <1>3
  <2>2. q[i] = Job(v, p, {"RW"})
    BY <1>5
  <2>3. v \in Area("kernel", machine)
    BY <1>4, <2>1
  <2>4. v \in VPage /\ p # None /\ v # UserCodeVA /\ v # UserStackVA
    BY <1>4, <2>1, <2>3, KernelFlags, PmapAssumption
  <2>. HIDE DEF p, v
  <2>5. q[i] \in JobSet /\ q[i].va = v /\ q[i].pa = p /\ q[i].flags = {"RW"}
    <3>1. p \in Nat \union {None} /\ {"RW"} \in SUBSET {"RW", "USER"}
      BY <2>1
    <3>. QED
      BY <2>2, <2>4, <3>1, JobIs
  <2>6. Fits("kernel", v, p, {"RW"})
    BY <1>4, <2>1, <2>3, <2>4 DEF Fits
  <2>. QED
    BY <2>4, <2>5, <2>6 DEF v
<1>8. q \in Seq(JobSet) /\ DOMAIN q = 1 .. n
  <2>1. q = [i \in 1 .. n |-> q[i]]
    BY <1>5
  <2>. QED
    BY <1>6, <1>7, <2>1, Listed
<1>9. ASSUME NEW i \in 1 .. n, NEW k \in 1 .. n, q[i].va = q[k].va
      PROVE  i = k
  <2>1. q[i].va = KernBase + a + i - 1 /\ q[k].va = KernBase + a + k - 1
    BY <1>7
  <2>2. KernBase + a + i - 1 = KernBase + a + k - 1
    BY <1>9, <2>1
  <2>. QED
    BY <1>1, <1>2, <1>6, <2>2
<1>10. RightJobs("kernel", q)
  BY <1>4, <1>7, <1>8, <1>9 DEF RightJobs, Elems
<1>. QED
  BY <1>10 DEF q

\* The frame buffer ends below 4 GB, so that the sum does not wrap.
LEMMA FbList ==
  ASSUME machine \in Machines, machine.fb # None
  PROVE  LET a == RoundDown(machine.fb.addr)
             e == RoundUp(End(machine.fb))
         IN  /\ a \in Nat /\ e \in Nat /\ FbPages(machine.fb) = a .. e - 1
             /\ FbJobs = [i \in 1 .. e - a |-> Job(a + i - 1, a + i - 1, {"RW"})]
<1>. DEFINE fb == machine.fb
            X == PageSize * (Dirs * Slots)
<1>1. fb \in Regions /\ End(fb) < X
  BY LayoutAssumption
<1>2. fb.addr \in Nat /\ End(fb) \in Nat
  BY <1>1 DEF Regions, End
<1>3. RoundDown(fb.addr) \in Nat /\ RoundUp(End(fb)) \in Nat
  BY <1>2, Rounding
<1>4. X \in Nat
  BY PmmAssumption, PmapAssumption
<1>5. End(fb) % X = End(fb)
  <2>. HIDE DEF X
  <2>1. X \in Nat \ {0} /\ 0 \in Nat /\ End(fb) \in 0 .. X - 1
    BY <1>1, <1>2, <1>4
  <2>2. (X * 0 + End(fb)) % X = End(fb)
    BY <2>1, Remainder
  <2>3. X * 0 + End(fb) = End(fb)
    BY <1>2, <1>4
  <2>. QED
    BY <2>2, <2>3
<1>. QED
  BY <1>3, <1>5, FlagsAre DEF FbJobs, FbPages

LEMMA FbRight ==
  ASSUME machine \in Machines
  PROVE  RightJobs("fb", FbJobs)
<1>. DEFINE fb == machine.fb
            q == FbJobs
            a == RoundDown(fb.addr)
            e == RoundUp(End(fb))
            n == e - a
<1>1. "fb" \in Phases /\ Area("fb", machine) = FbPages(fb) /\ FbPages(fb) \subseteq VPage
      /\ "fb" \notin FromPmm /\ "fb" \notin ThreadPhases /\ "fb" # "user"
  BY Layout DEF Phases, Area, FromPmm, ThreadPhases
<1>2. CASE fb = None
  <2>1. q = <<>>
    BY <1>2 DEF FbJobs
  <2>2. <<>> \in Seq(JobSet) /\ Elems(<<>>) = {} /\ DOMAIN <<>> = {}
    BY NoElems
  <2>3. RightJobs("fb", <<>>)
    BY <1>1, <2>2 DEF RightJobs
  <2>. QED
    BY <2>1, <2>3
<1>3. CASE fb # None
  <2>1. a \in Nat /\ e \in Nat /\ FbPages(fb) = a .. e - 1
    BY <1>3, FbList
  <2>2. q = [i \in 1 .. n |-> Job(a + i - 1, a + i - 1, {"RW"})]
    BY <1>3, FbList
  <2>. HIDE DEF a, e, q
  <2>3. n \in Int
    BY <2>1
  <2>4. ASSUME NEW i \in 1 .. n
        PROVE  /\ q[i] \in JobSet /\ q[i].va = a + i - 1 /\ q[i].pa # None
               /\ Fits("fb", q[i].va, q[i].pa, q[i].flags)
    <3>. DEFINE p == a + i - 1
    <3>1. p \in FbPages(fb) /\ p \in Nat
      BY <2>1
    <3>2. q[i] = Job(p, p, {"RW"})
      BY <2>2
    <3>3. p \in Area("fb", machine) /\ p \in VPage
      BY <1>1, <3>1
    <3>4. p # None /\ p # UserCodeVA /\ p # UserStackVA
      BY <1>1, <3>1, <3>3, KernelFlags, PmapAssumption
    <3>. HIDE DEF p
    <3>5. q[i] \in JobSet /\ q[i].va = p /\ q[i].pa = p /\ q[i].flags = {"RW"}
      <4>1. p \in Nat \union {None} /\ {"RW"} \in SUBSET {"RW", "USER"}
        BY <3>1
      <4>. QED
        BY <3>2, <3>3, <4>1, JobIs
    <3>6. Fits("fb", p, p, {"RW"})
      BY <1>1, <3>3, <3>4 DEF Fits
    <3>. QED
      BY <3>4, <3>5, <3>6 DEF p
  <2>5. q \in Seq(JobSet) /\ DOMAIN q = 1 .. n
    <3>1. q = [i \in 1 .. n |-> q[i]]
      BY <2>2
    <3>. QED
      BY <2>3, <2>4, <3>1, Listed
  <2>6. \A i, k \in 1 .. n : q[i].va = q[k].va => i = k
    BY <2>1, <2>4
  <2>7. RightJobs("fb", q)
    BY <1>1, <2>4, <2>5, <2>6 DEF RightJobs, Elems
  <2>. QED
    BY <2>7 DEF q
<1>. QED
  BY <1>2, <1>3

\* One job of a phase that takes its pages from pmm_alloc().
LEMMA FreshJob ==
  ASSUME machine \in Machines, NEW phase \in FromPmm, NEW v \in Area(phase, machine),
         NEW flags \in SUBSET {"RW", "USER"},
         flags = CASE v = UserCodeVA -> {"USER"}
                   [] v = UserStackVA -> {"RW", "USER"}
                   [] OTHER -> {"RW"},
         phase \in ThreadPhases => v \in {ThreadVABase + 1, ThreadVABase + 4, ThreadVABase + 7}
  PROVE  /\ Job(v, None, flags) \in JobSet
         /\ Job(v, None, flags).va = v /\ Job(v, None, flags).pa = None
         /\ Job(v, None, flags).flags = flags /\ Fits(phase, v, None, flags)
<1>1. phase \in Phases
  BY DEF FromPmm, ThreadPhases, Phases
<1>2. v \in VPage
  BY <1>1, Layout
<1>3. phase \notin {"low", "fb"} /\ phase # "kernel"
  BY DEF FromPmm, ThreadPhases
<1>. QED
  BY <1>2, <1>3, JobIs DEF Fits

LEMMA OneJob ==
  ASSUME NEW phase \in FromPmm, phase # "user", NEW j \in JobSet,
         j.pa = None, Fits(phase, j.va, j.pa, j.flags),
         phase \in ThreadPhases => j.va = next_thread_va + 1
  PROVE  RightJobs(phase, <<j>>)
<1>1. <<j>> \in Seq(JobSet) /\ Len(<<j>>) = 1 /\ <<j>> # <<>>
  OBVIOUS
<1>2. DOMAIN <<j>> = {1} /\ <<j>>[1] = j /\ Elems(<<j>>) = {j}
  BY DEF Elems
<1>. QED
  BY <1>1, <1>2 DEF RightJobs

LEMMA SmokeRight ==
  ASSUME machine \in Machines
  PROVE  RightJobs("smoke", SmokeJobs)
<1>1. "smoke" \in FromPmm /\ SmokeVA \in Area("smoke", machine) /\ "smoke" \notin ThreadPhases
      /\ "smoke" \in Phases /\ {"RW"} \in SUBSET {"RW", "USER"} /\ "smoke" # "user"
  BY Layout DEF FromPmm, ThreadPhases, Phases
<1>2. SmokeVA # UserCodeVA /\ SmokeVA # UserStackVA
  BY <1>1, KernelFlags
<1>. DEFINE j == Job(SmokeVA, None, {"RW"})
<1>3. j \in JobSet /\ j.va = SmokeVA /\ j.pa = None /\ j.flags = {"RW"} /\ Fits("smoke", SmokeVA, None, {"RW"})
  BY <1>1, <1>2, FreshJob
<1>4. SmokeJobs = <<j>>
  BY FlagsAre DEF SmokeJobs
<1>. HIDE DEF j
<1>. QED
  BY <1>1, <1>3, <1>4, OneJob

LEMMA HeapRight ==
  ASSUME machine \in Machines
  PROVE  RightJobs("heap", HeapJobs)
<1>. DEFINE q == HeapJobs
<1>1. "heap" \in FromPmm /\ Area("heap", machine) = HeapBase .. HeapBase + HeapPages - 1
      /\ "heap" \notin ThreadPhases /\ "heap" \in Phases /\ {"RW"} \in SUBSET {"RW", "USER"}
      /\ "heap" # "user" /\ "heap" # "smoke"
  BY Layout DEF FromPmm, ThreadPhases, Phases
<1>2. HeapBase \in Nat /\ HeapPages \in Nat
  BY PmapAssumption
<1>3. q = [i \in 1 .. HeapPages |-> Job(HeapBase + i - 1, None, {"RW"})]
  BY FlagsAre DEF HeapJobs
<1>. HIDE DEF q
<1>4. ASSUME NEW i \in 1 .. HeapPages
      PROVE  /\ q[i] \in JobSet /\ q[i].va = HeapBase + i - 1 /\ q[i].pa = None
             /\ Fits("heap", q[i].va, q[i].pa, q[i].flags)
  <2>. DEFINE v == HeapBase + i - 1
  <2>1. v \in Area("heap", machine)
    BY <1>1, <1>2
  <2>2. q[i] = Job(v, None, {"RW"})
    BY <1>3
  <2>3. v # UserCodeVA /\ v # UserStackVA
    BY <1>1, <2>1, KernelFlags
  <2>. HIDE DEF v
  <2>4. /\ Job(v, None, {"RW"}) \in JobSet /\ Job(v, None, {"RW"}).va = v
        /\ Job(v, None, {"RW"}).pa = None /\ Job(v, None, {"RW"}).flags = {"RW"}
        /\ Fits("heap", v, None, {"RW"})
    BY <1>1, <2>1, <2>3, FreshJob
  <2>. QED
    BY <2>2, <2>4 DEF v
<1>5. q \in Seq(JobSet) /\ DOMAIN q = 1 .. HeapPages
  <2>1. q = [i \in 1 .. HeapPages |-> q[i]]
    BY <1>3
  <2>. QED
    BY <1>2, <1>4, <2>1, Listed
<1>6. \A i, k \in 1 .. HeapPages : q[i].va = q[k].va => i = k
  BY <1>2, <1>4
<1>7. RightJobs("heap", q)
  BY <1>1, <1>4, <1>5, <1>6 DEF RightJobs, Elems
<1>. QED
  BY <1>7 DEF q

LEMMA StackRight ==
  ASSUME machine \in Machines, NEW phase \in ThreadPhases,
         next_thread_va = CASE phase = "thread_a" -> ThreadVABase
                            [] phase = "thread_b" -> ThreadVABase + 3
                            [] phase = "thread_u" -> ThreadVABase + 6
  PROVE  RightJobs(phase, StackJobs)
<1>. DEFINE v == next_thread_va + 1
            j == Job(v, None, {"RW"})
<1>1. phase \in FromPmm /\ phase \in Phases /\ {"RW"} \in SUBSET {"RW", "USER"} /\ phase # "user"
  BY DEF FromPmm, ThreadPhases, Phases
<1>2. ThreadVABase \in Nat
  BY PmapAssumption
<1>3. v \in Area(phase, machine) /\ v \in {ThreadVABase + 1, ThreadVABase + 4, ThreadVABase + 7}
  <2>1. CASE phase = "thread_a"
    BY <1>2, <2>1, Layout
  <2>2. CASE phase = "thread_b"
    BY <1>2, <2>2, Layout
  <2>3. CASE phase = "thread_u"
    BY <1>2, <2>3, Layout
  <2>. QED
    BY <2>1, <2>2, <2>3 DEF ThreadPhases
<1>4. v # UserCodeVA /\ v # UserStackVA
  BY <1>1, <1>3, KernelFlags
<1>5. StackJobs = <<j>>
  BY FlagsAre DEF StackJobs
<1>. HIDE DEF v
<1>6. j \in JobSet /\ j.va = v /\ j.pa = None /\ j.flags = {"RW"} /\ Fits(phase, v, None, {"RW"})
  BY <1>1, <1>3, <1>4, FreshJob
<1>. HIDE DEF j
<1>7. RightJobs(phase, <<j>>)
  BY <1>1, <1>6, OneJob DEF v
<1>. QED
  BY <1>5, <1>7

LEMMA UserRight ==
  ASSUME machine \in Machines
  PROVE  RightJobs("user", UserJobs)
<1>. DEFINE j == Job(UserCodeVA, None, {"USER"})
            k == Job(UserStackVA, None, {"RW", "USER"})
<1>1. "user" \in FromPmm /\ "user" \notin ThreadPhases
      /\ {"USER"} \in SUBSET {"RW", "USER"} /\ {"RW", "USER"} \in SUBSET {"RW", "USER"}
      /\ UserCodeVA \in Area("user", machine) /\ UserStackVA \in Area("user", machine)
      /\ UserCodeVA # UserStackVA /\ "user" # "smoke"
  BY Layout, PmapAssumption DEF FromPmm, ThreadPhases
<1>2. j \in JobSet /\ j.va = UserCodeVA /\ j.pa = None /\ Fits("user", j.va, j.pa, j.flags)
  BY <1>1, FreshJob
<1>3. k \in JobSet /\ k.va = UserStackVA /\ k.pa = None /\ Fits("user", k.va, k.pa, k.flags)
  BY <1>1, FreshJob
<1>4. UserJobs = <<j, k>>
  BY FlagsAre DEF UserJobs
<1>. HIDE DEF j, k
<1>5. <<j, k>> \in Seq(JobSet) /\ Len(<<j, k>>) = 2 /\ DOMAIN <<j, k>> = {1, 2}
      /\ <<j, k>>[1] = j /\ <<j, k>>[2] = k
  BY <1>2, <1>3
<1>6. Elems(<<j, k>>) = {j, k}
  BY <1>5 DEF Elems
<1>7. RightJobs("user", <<j, k>>)
  BY <1>1, <1>2, <1>3, <1>5, <1>6 DEF RightJobs
<1>. QED
  BY <1>4, <1>7

\* Whatever the phase.
LEMMA JobsRight ==
  ASSUME machine \in Machines, npages_total \in Nat, NEW phase \in Phases,
         phase \in ThreadPhases =>
           next_thread_va = CASE phase = "thread_a" -> ThreadVABase
                              [] phase = "thread_b" -> ThreadVABase + 3
                              [] phase = "thread_u" -> ThreadVABase + 6
  PROVE  RightJobs(phase, Jobs(phase))
<1>1. CASE phase = "low"
  BY <1>1, LowRight DEF Jobs
<1>2. CASE phase = "kernel"
  BY <1>2, KernelRight DEF Jobs
<1>3. CASE phase = "fb"
  BY <1>3, FbRight DEF Jobs
<1>4. CASE phase = "smoke"
  BY <1>4, SmokeRight DEF Jobs
<1>5. CASE phase = "heap"
  BY <1>5, HeapRight DEF Jobs
<1>6. CASE phase \in ThreadPhases
  <2>1. Jobs(phase) = StackJobs
    BY <1>6 DEF Jobs, ThreadPhases
  <2>. QED
    BY <1>6, <2>1, StackRight
<1>7. CASE phase = "user"
  BY <1>7, UserRight DEF Jobs
<1>. QED
  BY <1>1, <1>2, <1>3, <1>4, <1>5, <1>6, <1>7 DEF Phases, ThreadPhases

-----------------------------------------------------------------------------
(***************************************************************************)
(* What the steps of kmain() have in common.                               *)
(***************************************************************************)

Live == boot \notin {"size", "free", "reserve", "panic", "up"}

LEMMA KeepsBoot ==
  ASSUME BootInv, Live, boot' \in Places \ Booting,
         UNCHANGED <<machine, npages_total, bitmap>>
  PROVE  BootInv' /\ EmptyInv' /\ Usable' = Usable /\ Known' = Known
         /\ machine \in Machines /\ (machine \in Machines)'
<1>1. Usable' = Usable /\ Known' = Known /\ BitmapFor(npages_total)' = BitmapFor(npages_total)
  BY SameMachine
<1>2. boot' \notin {"size", "free", "reserve", "run"}
  BY DEF Booting
<1>3. machine \in Machines /\ bitmap \in Regions /\ bitmap = BitmapFor(npages_total)
  BY DEF BootInv, Live
<1>4. BootInv'
  BY <1>1, <1>2, <1>3 DEF BootInv
<1>5. EmptyInv'
  BY DEF EmptyInv
<1>. QED
  BY <1>1, <1>3, <1>4, <1>5

LEMMA SameTables ==
  ASSUME TableInv, UNCHANGED <<pgdir, tables>>
  PROVE  TableInv' /\ DirPages' = DirPages /\ Map' = Map
<1>1. DirPages' = DirPages
  BY DEF DirPages
<1>2. Map' = Map
  BY DEF Map, Lookup, Dir, Slot
<1>3. TableInv'
  BY <1>1 DEF TableInv
<1>. QED
  BY <1>1, <1>2, <1>3

LEMMA SameTlb ==
  ASSUME TlbInv, UNCHANGED <<cr3, tlb>>, Map' = Map
  PROVE  TlbInv'
BY DEF TlbInv, BootWalk, Dir, Slot

LEMMA RankIs ==
  ASSUME NEW x \in Places
  PROVE  Rank(x) \in 0 .. 10
BY DEF Rank, Places, Phases, Booting

\* What is mapped stays right as kmain() goes on.
LEMMA SpaceKept ==
  ASSUME SpaceInv, machine' = machine, Rank(boot) \in Nat, Rank(boot') \in Nat,
         Rank(boot) <= Rank(boot'), next_thread_va' = next_thread_va,
         \A v \in VPage : Map'[v] = Map[v] \/ Map'[v] = None,
         ThreadVABase .. ThreadVABase + 9 \subseteq VPage
  PROVE  SpaceInv'
<1>1. ASSUME NEW v \in VPage, Map'[v] # None
      PROVE  \E x \in Phases : Rank(x) <= Rank(boot') /\ Fits(x, v, Map'[v].pa, Map'[v].flags)
  <2>1. Map'[v] = Map[v] /\ Map[v] # None
    BY <1>1
  <2>2. PICK x \in Phases : Rank(x) <= Rank(boot) /\ Fits(x, v, Map[v].pa, Map[v].flags)
    BY <2>1 DEF SpaceInv
  <2>3. Rank(x) \in Nat
    BY RankIs DEF Places
  <2>4. Rank(x) <= Rank(boot')
    BY <2>2, <2>3
  <2>. QED
    BY <2>1, <2>2, <2>4
<1>2. \A x, v, p, f : Fits(x, v, p, f)' <=> Fits(x, v, p, f)
  BY DEF Fits
<1>3. \A x : Rank(x)' = Rank(x)
  BY DEF Rank
<1>4. \A v \in ThreadVABase .. ThreadVABase + 9 : Map'[v] # None => v < next_thread_va'
  BY DEF SpaceInv
<1>. QED
  BY <1>1, <1>2, <1>3, <1>4 DEF SpaceInv

\* A phase begins with none of its pages mapped.
LEMMA EntersPhase ==
  ASSUME machine \in Machines, npages_total \in Nat, SpaceInv, NEW phase \in Phases,
         Rank(boot) < Rank(phase), boot \in Places,
         phase \in ThreadPhases =>
           next_thread_va = CASE phase = "thread_a" -> ThreadVABase
                              [] phase = "thread_b" -> ThreadVABase + 3
                              [] phase = "thread_u" -> ThreadVABase + 6,
         Enter(phase), machine' = machine, next_thread_va' = next_thread_va,
         \A v \in VPage : Map'[v] = Map[v] \/ Map'[v] = None
  PROVE  TodoInv' /\ boot' = phase /\ RightJobs(phase, todo')
<1>1. boot' = phase /\ todo' = Jobs(phase) /\ RightJobs(phase, todo')
  BY JobsRight DEF Enter
<1>2. ASSUME NEW v \in Area(phase, machine)
      PROVE  Map'[v] = None
  <2>1. v \in VPage
    BY Layout
  <2>2. ASSUME Map[v] # None
        PROVE  FALSE
    <3>1. PICK x \in Phases : Rank(x) <= Rank(boot) /\ Fits(x, v, Map[v].pa, Map[v].flags)
      BY <2>1, <2>2 DEF SpaceInv
    <3>2. v \in Area(x, machine)
      BY <3>1 DEF Fits
    <3>3. Rank(x) \in Int /\ Rank(boot) \in Int /\ Rank(phase) \in Int
      BY RankIs DEF Places
    <3>4. x # phase
      BY <3>1, <3>3
    <3>. QED
      BY <3>2, <3>4, Layout
  <2>. QED
    BY <2>1, <2>2
<1>3. \A x, v, p, f : Fits(x, v, p, f)' <=> Fits(x, v, p, f)
  BY DEF Fits
<1>4. \A j \in Elems(todo') : j.va \in Area(phase, machine)
  BY <1>1 DEF RightJobs, Fits
<1>5. todo' \in Seq(JobSet)
  BY <1>1 DEF RightJobs
<1>6. \A j \in Elems(todo') :
        Fits(phase, j.va, j.pa, j.flags) /\ (j.pa = None <=> phase \in FromPmm) /\ Map'[j.va] = None
  BY <1>1, <1>2, <1>4 DEF RightJobs
<1>7. /\ \A i, k \in DOMAIN todo' : todo'[i].va = todo'[k].va => i = k
      /\ phase \in ThreadPhases => Len(todo') <= 1 /\ \A j \in Elems(todo') : j.va = next_thread_va' + 1
      /\ phase = "smoke" => todo' # <<>>
  BY <1>1 DEF RightJobs
<1>8. Elems(todo)' = Elems(todo')
  BY DEF Elems
<1>9. TodoInv'
  BY <1>1, <1>3, <1>5, <1>6, <1>7, <1>8 DEF TodoInv
<1>. QED
  BY <1>1, <1>9

\* The private mappings lead to the same pages.
LEMMA SameMapPages ==
  ASSUME \A v \in Held : Map'[v] = Map[v]
  PROVE  MapPages' = MapPages
BY DEF MapPages, Held

\* Nothing changes hands but new pages for the directory.
LEMMA HeldGrows ==
  ASSUME HeldInv, Live, pd # None, NEW New, Grows(New),
         UNCHANGED <<pd, hand>>, Usable' = Usable, Known' = Known,
         \A v \in Held : Map'[v] = Map[v]
  PROVE  HeldInv'
<1>1. MapPages' = MapPages /\ PdPages' = PdPages /\ HandPages' = HandPages
  BY SameMapPages DEF PdPages, HandPages, Elems
<1>2. DirPages' = DirPages \union New /\ busy' = busy \union New /\ New \subseteq Known
      /\ New \intersect busy = {}
  BY DEF Grows
<1>3. Known \ busy \subseteq Usable
      /\ busy \intersect Usable = PdPages \union DirPages \union MapPages \union HandPages
  BY DEF HeldInv, Live, Owned
<1>4. /\ PdPages \intersect (DirPages \union MapPages \union HandPages) = {}
      /\ DirPages \intersect (MapPages \union HandPages) = {}
      /\ MapPages \intersect HandPages = {}
      /\ pd \in Nat \union {None}
  BY DEF HeldInv
<1>5. New \subseteq Usable
  BY <1>2, <1>3
<1>6. /\ PdPages' \union DirPages' \union MapPages' \union HandPages' = busy' \intersect Usable'
      /\ Known' \ busy' \subseteq Usable'
  BY <1>1, <1>2, <1>3, <1>5
<1>7. /\ PdPages' \intersect (DirPages' \union MapPages' \union HandPages') = {}
      /\ DirPages' \intersect (MapPages' \union HandPages') = {}
      /\ MapPages' \intersect HandPages' = {}
  BY <1>1, <1>2, <1>3, <1>4
<1>8. \A u, v \in Held : Map'[u] # None /\ Map'[v] # None /\ Map'[u].pa = Map'[v].pa => u = v
  BY DEF HeldInv
<1>9. \A i, j \in DOMAIN hand' : hand'[i] = hand'[j] /\ hand'[i] # NoMem => i = j
  BY DEF HeldInv
<1>10. PdPages' \union DirPages' \union MapPages' \union HandPages' \subseteq busy' \intersect Usable'
  BY <1>6
<1>. HIDE DEF Grows
<1>. QED
  BY <1>4, <1>6, <1>7, <1>8, <1>9, <1>10 DEF HeldInv, Held, Owned, Skipped

-----------------------------------------------------------------------------
(***************************************************************************)
(* The steps of kmain().                                                   *)
(***************************************************************************)

LEMMA PmapInitStep ==
  ASSUME KmainInv, PmapInit
  PROVE  KmainInv' /\ SpaceStep
<1>1. /\ PoolInv /\ BootInv /\ boot = "run" /\ Blank /\ TableInv /\ HeldInv /\ SpaceInv /\ TlbInv
      /\ NextVA
  BY DEF KmainInv, EmptyInv, PmapInit, Booting
<1>2. /\ PmmAlloc
      /\ UNCHANGED <<machine, bitmap, cr3, pgdir, tables, tlb, hand, next_thread_va>>
  BY DEF PmapInit
<1>3. PoolInv' /\ npages_total' = npages_total /\ Known' = Known
  BY <1>1, <1>2, Allocates
<1>4. Live /\ boot \in Places /\ npages_total \in Nat
  BY <1>1 DEF Live, Places, Booting, PoolInv
<1>5. boot' \in {"panic", "low"}
  BY DEF PmapInit, Enter
<1>6. boot' \in Places \ Booting
  BY <1>5 DEF Places, Phases, Booting
<1>7. BootInv' /\ EmptyInv' /\ Usable' = Usable /\ machine \in Machines /\ (machine \in Machines)'
  BY <1>1, <1>2, <1>3, <1>4, <1>6, KeepsBoot
<1>8. ASSUME ret' = NoMem
      PROVE  KmainInv'
  <2>1. boot' = "panic" /\ pd' = pd
    BY <1>8 DEF PmapInit
  <2>2. Blank'
    BY <1>1, <1>2, <2>1 DEF Blank
  <2>3. (boot \in Booting \union {"panic"})' /\ (boot = "run" => Usable = Known \ busy)'
    BY <2>1
  <2>4. (TableInv /\ HeldInv /\ HandInv /\ TodoInv /\ NextVA /\ SpaceInv /\ TlbInv)'
    BY <1>7, <2>2, <2>3, BlankSpaceNext
  <2>. QED
    BY <1>3, <1>7, <2>4 DEF KmainInv
<1>9. ASSUME ret' # NoMem
      PROVE  KmainInv'
  <2>1. pd' = ret' /\ Enter("low")
    BY <1>9 DEF PmapInit
  <2>2. ret' \in Nat /\ ret' \in Known /\ ret' \notin busy /\ busy' = busy \union {ret'}
    BY <1>1, <1>2, <1>9, Allocates
  <2>3. TableInv' /\ DirPages' = DirPages /\ Map' = Map
    BY <1>1, <1>2, SameTables
  <2>4. "low" \in Phases /\ "low" \notin ThreadPhases /\ Rank(boot) = 0 /\ Rank("low") = 1
    BY <1>1 DEF Phases, ThreadPhases, Rank
  <2>5. TodoInv' /\ boot' = "low"
    BY <1>1, <1>2, <1>4, <1>7, <2>1, <2>3, <2>4, EntersPhase
  <2>6. TlbInv'
    BY <1>1, <1>2, <2>3, SameTlb
  <2>7. SpaceInv'
    <3>1. ThreadVABase .. ThreadVABase + 9 \subseteq VPage
      BY <1>7, Layout
    <3>. QED
      BY <1>1, <1>2, <2>3, <2>4, <2>5, <3>1, SpaceKept
  <2>8. HandInv'
    <3>1. hand' = <<>>
      BY <1>1, <1>2 DEF Blank
    <3>. QED
      BY <2>5, <3>1 DEF HandInv, ThreadPhases
  <2>9. NextVA'
    BY <1>1, <1>2, <2>5 DEF NextVA, Blank
  <2>10. HeldInv'
    <3>1. PdPages' = {ret'}
      <4>1. ret' # None
        BY <2>2, PmapAssumption
      <4>. QED
        BY <2>1, <4>1 DEF PdPages
    <3>2. PdPages = {} /\ hand = <<>> /\ DirPages = {} /\ MapPages = {} /\ HandPages = {}
      <4>1. pd = None /\ hand = <<>> /\ pgdir = [d \in 0 .. Dirs - 1 |-> None]
        BY <1>1 DEF Blank
      <4>2. Map = [v \in VPage |-> None]
        BY <4>1, Entered DEF Map, Lookup
      <4>3. \A v \in Held : Map[v] = None
        BY <1>7, <4>2, Layout
      <4>. QED
        BY <4>1, <4>3, NoElems DEF PdPages, DirPages, MapPages, HandPages
    <3>3. MapPages' = MapPages /\ HandPages' = HandPages /\ hand' = hand
      BY <1>2, <2>3 DEF MapPages, Held, HandPages, Elems
    <3>4. Usable = Known \ busy
      BY <1>1 DEF BootInv
    <3>5. /\ PdPages' \union DirPages' \union MapPages' \union HandPages' = {ret'}
          /\ busy' \intersect Usable' = {ret'} /\ Known' \ busy' \subseteq Usable'
      BY <1>3, <1>7, <2>2, <2>3, <3>1, <3>2, <3>3, <3>4
    <3>6. \A u, v \in Held : Map'[u] # None /\ Map'[v] # None /\ Map'[u].pa = Map'[v].pa => u = v
      BY <1>1, <2>3 DEF HeldInv
    <3>7. \A i, j \in DOMAIN hand' : hand'[i] = hand'[j] /\ hand'[i] # NoMem => i = j
      BY <3>2, <3>3
    <3>8. pd' \in Nat /\ pd' # None
      BY <2>1, <2>2, PmapAssumption
    <3>. QED
      BY <2>3, <3>1, <3>2, <3>3, <3>5, <3>6, <3>7, <3>8 DEF HeldInv, Held, Owned, Skipped
  <2>. QED
    BY <1>3, <1>7, <2>3, <2>5, <2>6, <2>7, <2>8, <2>9, <2>10 DEF KmainInv
<1>10. SpaceStep
  BY <1>1, <1>2, SameTables DEF SpaceStep
<1>. QED
  BY <1>8, <1>9, <1>10

LEMMA AfterIs ==
  /\ DOMAIN After = Phases \ {"smoke"}
  /\ After["low"] = "kernel" /\ After["kernel"] = "lcr3" /\ After["fb"] = "smoke"
  /\ After["heap"] = "thread_a" /\ After["thread_a"] = "thread_b" /\ After["thread_b"] = "user"
  /\ After["user"] = "thread_u" /\ After["thread_u"] = "up"
BY DEF After, Phases

\* The thread whose stack comes next has next_thread_va where it should be.
LEMMA NextStack ==
  ASSUME NextVA, boot \in DOMAIN After, todo = <<>>, After[boot] \in ThreadPhases
  PROVE  next_thread_va = CASE After[boot] = "thread_a" -> ThreadVABase
                            [] After[boot] = "thread_b" -> ThreadVABase + 3
                            [] After[boot] = "thread_u" -> ThreadVABase + 6
<1>1. boot \in {"heap", "thread_a", "user"}
  BY AfterIs DEF Phases, ThreadPhases
<1>2. CASE boot = "heap"
  BY <1>2, AfterIs DEF NextVA, Rank
<1>3. CASE boot = "thread_a"
  BY <1>3, AfterIs DEF NextVA
<1>4. CASE boot = "user"
  BY <1>4, AfterIs DEF NextVA
<1>. QED
  BY <1>1, <1>2, <1>3, <1>4

LEMMA PhaseDoneStep ==
  ASSUME KmainInv, PhaseDone
  PROVE  KmainInv' /\ SpaceStep
<1>. DEFINE next == After[boot]
<1>1. /\ PoolInv /\ BootInv /\ TableInv /\ HeldInv /\ HandInv /\ NextVA /\ SpaceInv /\ TlbInv
  BY DEF KmainInv
<1>2. /\ boot \in Phases \ {"smoke"} /\ boot \in DOMAIN After /\ todo = <<>> /\ Enter(next)
      /\ UNCHANGED <<busy, npages_total, npages_free, alloc_cursor, ret, machine, bitmap,
                     cr3, pd, pgdir, tables, tlb, hand, next_thread_va>>
  BY AfterIs DEF PhaseDone, pvars, mvars
<1>3. boot' = next /\ todo' = Jobs(next)
  BY <1>2 DEF Enter
<1>4. next \in (Phases \ {"low", "heap"}) \union {"lcr3", "up"} /\ next \in Places \ Booting
  BY <1>2, AfterIs DEF Phases, Places, Booting
<1>5. Rank(boot) < Rank(next) \/ (boot = "kernel" /\ next = "lcr3")
  BY <1>2, AfterIs DEF Phases, Rank
<1>6. Live /\ boot \in Places /\ npages_total \in Nat
  BY <1>1, <1>2 DEF Live, Places, Phases, PoolInv
<1>7. Rank(boot) <= Rank(next) /\ Rank(boot) \in Nat /\ Rank(next) \in Nat
  <2>1. Rank(boot) \in 0 .. 10 /\ Rank(next) \in 0 .. 10
    <3>1. next \in Places
      BY <1>4
    <3>. HIDE DEF next
    <3>. QED
      BY <1>6, <3>1, RankIs
  <2>2. Rank("kernel") = 2 /\ Rank("lcr3") = 2
    BY DEF Rank
  <2>. QED
    BY <1>5, <2>1, <2>2
<1>8. BootInv' /\ EmptyInv' /\ Usable' = Usable /\ Known' = Known /\ machine \in Machines
  BY <1>1, <1>2, <1>3, <1>4, <1>6, KeepsBoot
<1>9. PoolInv'
  BY <1>1, <1>2, <1>8 DEF PoolInv
<1>10. TableInv' /\ DirPages' = DirPages /\ Map' = Map
  BY <1>1, <1>2, SameTables
<1>11. TlbInv'
  BY <1>1, <1>2, <1>10, SameTlb
<1>12. SpaceInv'
  <2>1. ThreadVABase .. ThreadVABase + 9 \subseteq VPage
    BY <1>8, Layout
  <2>. QED
    BY <1>1, <1>2, <1>3, <1>7, <1>10, <2>1, SpaceKept
<1>13. HeldInv'
  <2>1. Grows({})
    BY <1>2, <1>10 DEF Grows
  <2>2. pd # None
    BY <1>1, <1>2 DEF HeldInv
  <2>. QED
    BY <1>1, <1>2, <1>6, <1>8, <1>10, <2>1, <2>2, HeldGrows
<1>14. next \in Phases => TodoInv' /\ RightJobs(next, todo')
  <2>. SUFFICES ASSUME next \in Phases
                PROVE  TodoInv' /\ RightJobs(next, todo')
    OBVIOUS
  <2>1. next \in ThreadPhases =>
          next_thread_va = CASE next = "thread_a" -> ThreadVABase
                             [] next = "thread_b" -> ThreadVABase + 3
                             [] next = "thread_u" -> ThreadVABase + 6
    BY <1>1, <1>2, NextStack
  <2>2. Rank(boot) < Rank(next)
    BY <1>5 DEF Phases
  <2>. HIDE DEF next
  <2>. QED
    BY <1>1, <1>2, <1>6, <1>8, <1>10, <2>1, <2>2, EntersPhase
<1>15. TodoInv'
  <2>1. CASE next \in Phases
    BY <1>14, <2>1
  <2>2. CASE next \notin Phases
    BY <1>3, <2>2 DEF TodoInv
  <2>. QED
    BY <2>1, <2>2
<1>16. HandInv'
  <2>1. hand' = hand /\ hand \in Seq(Known \union {NoMem}) /\ Known' = Known
    BY <1>1, <1>2, <1>8 DEF HandInv
  <2>2. hand = <<>> \/ next = "up"
    <3>1. CASE boot \in {"low", "kernel", "fb"}
      BY <1>1, <3>1 DEF HandInv
    <3>2. CASE boot \in {"heap"} \union ThreadPhases
      BY <1>1, <1>2, <3>2 DEF HandInv
    <3>3. CASE boot = "user"
      <4>1. Len(hand) <= 0 /\ Len(hand) \in Nat
        BY <1>1, <1>2, <3>3 DEF HandInv
      <4>. QED
        BY <2>1, <4>1, EmptySeq
    <3>. QED
      BY <1>2, <3>1, <3>2, <3>3 DEF Phases, ThreadPhases
  <2>3. CASE next = "up"
    BY <1>3, <2>1, <2>3 DEF HandInv, ThreadPhases
  <2>4. CASE hand = <<>>
    <3>1. next = "user" => Len(todo') = 2
      BY <1>14 DEF RightJobs, Phases
    <3>2. Len(hand') = 0 /\ Elems(hand') = {} /\ Elems(hand)' = Elems(hand')
      BY <2>1, <2>4, NoElems DEF Elems
    <3>3. NoMem \notin Elems(hand)'
      BY <3>2
    <3>. HIDE DEF next
    <3>. QED
      BY <1>3, <2>1, <2>4, <3>1, <3>2, <3>3 DEF HandInv
  <2>. QED
    BY <2>2, <2>3, <2>4
<1>17. NextVA'
  <2>1. next_thread_va' = next_thread_va
    BY <1>2
  <2>2. next_thread_va \in {ThreadVABase, ThreadVABase + 3, ThreadVABase + 6, ThreadVABase + 9}
    BY <1>1 DEF NextVA
  <2>3. next \in ThreadPhases => todo' # <<>>
    <3>1. next \in ThreadPhases => Len(todo') = 1
      BY <1>14 DEF RightJobs, ThreadPhases, Phases
    <3>. QED
      BY <3>1
  <2>4. CASE boot \in {"low", "kernel", "fb"}
    BY <1>1, <1>3, <2>1, <2>2, <2>4, AfterIs DEF NextVA, Rank
  <2>5. CASE boot = "heap"
    BY <1>1, <1>3, <2>1, <2>2, <2>3, <2>5, AfterIs DEF NextVA, Rank, ThreadPhases
  <2>6. CASE boot = "thread_a"
    BY <1>1, <1>2, <1>3, <2>1, <2>2, <2>3, <2>6, AfterIs DEF NextVA, Rank, ThreadPhases
  <2>7. CASE boot = "thread_b"
    BY <1>1, <1>2, <1>3, <2>1, <2>2, <2>7, AfterIs DEF NextVA, Rank
  <2>8. CASE boot = "user"
    BY <1>1, <1>2, <1>3, <2>1, <2>2, <2>3, <2>8, AfterIs DEF NextVA, Rank, ThreadPhases
  <2>9. CASE boot = "thread_u"
    BY <1>1, <1>3, <2>1, <2>2, <2>9, AfterIs DEF NextVA, Rank
  <2>. QED
    BY <1>2, <2>4, <2>5, <2>6, <2>7, <2>8, <2>9 DEF Phases
<1>. QED
  BY <1>8, <1>9, <1>10, <1>11, <1>12, <1>13, <1>15, <1>16, <1>17 DEF KmainInv, SpaceStep

LEMMA Lcr3Step ==
  ASSUME KmainInv, Lcr3
  PROVE  KmainInv' /\ SpaceStep
<1>1. /\ PoolInv /\ BootInv /\ TableInv /\ HeldInv /\ HandInv /\ NextVA /\ SpaceInv
  BY DEF KmainInv
<1>2. /\ boot = "lcr3" /\ cr3' = "own" /\ tlb' = {} /\ Enter("fb")
      /\ UNCHANGED <<busy, npages_total, alloc_cursor, machine, bitmap, pd, pgdir, tables, hand,
                     next_thread_va>>
  BY DEF Lcr3, pvars
<1>3. Live /\ boot \in Places /\ npages_total \in Nat /\ "fb" \in Phases /\ "fb" \notin ThreadPhases
      /\ "fb" \in Places \ Booting /\ Rank(boot) = 2 /\ Rank("fb") = 3
  BY <1>1, <1>2 DEF Live, Places, Phases, ThreadPhases, Booting, PoolInv, Rank
<1>4. boot' = "fb"
  BY <1>2 DEF Enter
<1>5. BootInv' /\ EmptyInv' /\ Usable' = Usable /\ Known' = Known /\ machine \in Machines
  BY <1>1, <1>2, <1>3, <1>4, KeepsBoot
<1>6. PoolInv'
  BY <1>1, <1>2, <1>5 DEF PoolInv
<1>7. TableInv' /\ DirPages' = DirPages /\ Map' = Map
  BY <1>1, <1>2, SameTables
<1>8. TlbInv'
  BY <1>2 DEF TlbInv
<1>9. TodoInv'
  BY <1>1, <1>2, <1>3, <1>5, <1>7, EntersPhase
<1>10. SpaceInv'
  <2>1. ThreadVABase .. ThreadVABase + 9 \subseteq VPage
    BY <1>5, Layout
  <2>. QED
    BY <1>1, <1>2, <1>3, <1>4, <1>7, <2>1, SpaceKept
<1>11. HeldInv'
  <2>1. Grows({})
    BY <1>2, <1>7 DEF Grows
  <2>2. pd # None
    BY <1>1, <1>2 DEF HeldInv
  <2>. QED
    BY <1>1, <1>2, <1>3, <1>5, <1>7, <2>1, <2>2, HeldGrows
<1>12. HandInv'
  <2>1. hand' = <<>>
    BY <1>1, <1>2 DEF HandInv
  <2>. QED
    BY <1>4, <2>1 DEF HandInv, ThreadPhases
<1>13. NextVA'
  <2>1. next_thread_va' = ThreadVABase
    BY <1>1, <1>2 DEF NextVA, Rank
  <2>. QED
    BY <1>4, <2>1 DEF NextVA
<1>. QED
  BY <1>5, <1>6, <1>7, <1>8, <1>9, <1>10, <1>11, <1>12, <1>13 DEF KmainInv, SpaceStep

-----------------------------------------------------------------------------
(***************************************************************************)
(* A page to map.                                                          *)
(***************************************************************************)

LEMMA MappingIs == Mapping <=> boot \in Phases
BY AfterIs DEF Mapping, Phases

\* The facts about the next page to map.
LEMMA NextJob ==
  ASSUME TodoInv, boot \in Phases, todo # <<>>
  PROVE  /\ todo \in Seq(JobSet) /\ Head(todo) \in JobSet /\ Head(todo).va \in VPage
         /\ Fits(boot, Head(todo).va, Head(todo).pa, Head(todo).flags)
         /\ (Head(todo).pa = None <=> boot \in FromPmm)
         /\ Map[Head(todo).va] = None
         /\ Tail(todo) \in Seq(JobSet) /\ Elems(Tail(todo)) \subseteq Elems(todo)
         /\ \A j \in Elems(Tail(todo)) : j.va # Head(todo).va
         /\ \A i, k \in DOMAIN Tail(todo) : Tail(todo)[i].va = Tail(todo)[k].va => i = k
         /\ Len(Tail(todo)) = Len(todo) - 1 /\ Len(todo) \in Nat /\ Len(todo) > 0
         /\ boot \in ThreadPhases => Tail(todo) = <<>> /\ Head(todo).va = next_thread_va + 1
         /\ boot = "smoke" => Head(todo).va = SmokeVA
<1>. DEFINE h == Head(todo)
            t == Tail(todo)
<1>1. /\ todo \in Seq(JobSet)
      /\ \A j \in Elems(todo) : /\ Fits(boot, j.va, j.pa, j.flags)
                                /\ (j.pa = None <=> boot \in FromPmm) /\ Map[j.va] = None
      /\ \A i, k \in DOMAIN todo : todo[i].va = todo[k].va => i = k
      /\ boot \in ThreadPhases =>
           Len(todo) <= 1 /\ \A j \in Elems(todo) : j.va = next_thread_va + 1
  BY DEF TodoInv
<1>2. /\ h \in JobSet /\ t \in Seq(JobSet) /\ Len(t) = Len(todo) - 1 /\ Len(todo) > 0
      /\ Elems(todo) = {h} \union Elems(t)
      /\ \A i \in DOMAIN t : i + 1 \in DOMAIN todo /\ t[i] = todo[i + 1] /\ i + 1 # 1
      /\ 1 \in DOMAIN todo /\ h = todo[1]
  BY <1>1, TailElems
<1>3. Len(todo) \in Nat /\ DOMAIN t = 1 .. Len(t) /\ Len(t) \in Nat
  BY <1>1, <1>2, LenProperties
<1>. HIDE DEF h, t
<1>4. ASSUME NEW i \in DOMAIN t
      PROVE  t[i].va # h.va
  BY <1>1, <1>2
<1>5. \A j \in Elems(t) : j.va # h.va
  BY <1>4 DEF Elems
<1>6. ASSUME NEW i \in DOMAIN t, NEW k \in DOMAIN t, t[i].va = t[k].va
      PROVE  i = k
  <2>1. i + 1 = k + 1
    BY <1>1, <1>2, <1>6
  <2>2. i \in Int /\ k \in Int
    BY <1>3
  <2>. QED
    BY <2>1, <2>2
<1>7. h.va \in VPage
  BY <1>2 DEF JobSet
<1>8. boot \in ThreadPhases => t = <<>> /\ h.va = next_thread_va + 1
  <2>. SUFFICES ASSUME boot \in ThreadPhases PROVE t = <<>> /\ h.va = next_thread_va + 1
    OBVIOUS
  <2>1. Len(t) = 0
    BY <1>1, <1>2, <1>3
  <2>. QED
    BY <1>1, <1>2, <2>1, EmptySeq
<1>9. boot = "smoke" => h.va = SmokeVA
  BY <1>1, <1>2 DEF Fits, Area
<1>10. /\ todo \in Seq(JobSet) /\ h \in JobSet /\ h.va \in VPage
       /\ Fits(boot, h.va, h.pa, h.flags) /\ (h.pa = None <=> boot \in FromPmm) /\ Map[h.va] = None
       /\ t \in Seq(JobSet) /\ Elems(t) \subseteq Elems(todo)
       /\ Len(t) = Len(todo) - 1 /\ Len(todo) \in Nat /\ Len(todo) > 0
  BY <1>1, <1>2, <1>3, <1>7
<1>. QED
  BY <1>5, <1>6, <1>8, <1>9, <1>10 DEF h, t

\* A page mapped by whichever loop.
LEMMA Maps ==
  ASSUME KmainInv, boot \in Phases, todo # <<>>, NEW p \in Nat,
         Fits(boot, Head(todo).va, p, Head(todo).flags),
         PmapMap(Head(todo).va, p, Head(todo).flags, boot),
         todo' = Tail(todo), UNCHANGED <<machine, bitmap, cr3, pd>>,
         next_thread_va' \in Nat, next_thread_va <= next_thread_va',
         Head(todo).va \in ThreadVABase .. ThreadVABase + 9 => Head(todo).va < next_thread_va'
  PROVE  /\ PoolInv' /\ BootInv' /\ EmptyInv' /\ TableInv' /\ TlbInv' /\ TodoInv' /\ SpaceInv'
         /\ Usable' = Usable /\ Known' = Known /\ boot' \in {boot, "panic"} /\ Live
         /\ pd # None /\ machine \in Machines
         /\ \/ /\ boot' = boot /\ \E New : Grows(New)
               /\ Stored(Head(todo).va, Entry(p, Head(todo).flags))
            \/ boot' = "panic" /\ UNCHANGED <<busy, pgdir, tables>>
<1>. DEFINE h == Head(todo)
            v == h.va
            t == Tail(todo)
            e == Entry(p, h.flags)
            Done == /\ boot' = boot /\ Stored(v, e) /\ \E New : Grows(New)
                    /\ \E S : S \subseteq VPage /\ tlb' = Invlpg(v, tlb \union Uses(S))
            Failed == boot' = "panic" /\ UNCHANGED <<busy, pgdir, tables, tlb>>
<1>1. /\ PoolInv /\ BootInv /\ TableInv /\ HeldInv /\ TodoInv /\ NextVA /\ SpaceInv /\ TlbInv
  BY DEF KmainInv
<1>2. pd # None /\ pd \in busy /\ DirPages \subseteq busy
  BY <1>1 DEF HeldInv, PdPages
<1>3. v \in VPage /\ h.flags \in SUBSET {"RW", "USER"} /\ h \in JobSet
  BY <1>1, NextJob DEF JobSet
<1>4. PoolInv' /\ npages_total' = npages_total /\ (Done \/ Failed)
  <2>1. PmapMap(v, p, h.flags, boot)
    OBVIOUS
  <2>. HIDE DEF v, h
  <2>. QED
    BY <1>1, <1>2, <1>3, <2>1, MapEffect
<1>5. boot' \in Places \ Booting /\ Live /\ boot' \in {boot, "panic"}
  <2>1. boot \notin {"size", "free", "reserve", "panic", "run", "up"}
    BY DEF Phases
  <2>2. boot' = "panic" \/ boot' = boot
    BY <1>4
  <2>. QED
    BY <2>1, <2>2 DEF Live, Places, Booting
<1>6. BootInv' /\ EmptyInv' /\ Usable' = Usable /\ Known' = Known /\ machine \in Machines
  BY <1>1, <1>4, <1>5, KeepsBoot
<1>7. TableInv' /\ TlbInv'
  <2>1. CASE Done
    <3>. HIDE DEF v, e
    <3>. QED
      BY <1>1, <1>3, <2>1, TlbFollows DEF Stored
  <2>2. CASE Failed
    BY <1>1, <1>4, <2>2, SameTables, SameTlb
  <2>. QED
    BY <1>4, <2>1, <2>2
<1>8. ASSUME Done
      PROVE  Map'[v] = e /\ \A u \in VPage : u # v => Map'[u] = Map[u]
  BY <1>8 DEF Stored
<1>9. e # None /\ e.pa = p /\ e.flags = h.flags
  <2>. HIDE DEF h
  <2>. QED
    BY <1>3, EntryTyped
<1>10. \A x, u, q, f : Fits(x, u, q, f)' <=> Fits(x, u, q, f)
  BY DEF Fits
<1>11. TodoInv'
  <2>1. CASE Failed
    BY <2>1 DEF TodoInv, Phases
  <2>2. CASE Done
    <3>1. /\ t \in Seq(JobSet) /\ Elems(t) \subseteq Elems(todo) /\ \A j \in Elems(t) : j.va # v
          /\ \A i, k \in DOMAIN t : t[i].va = t[k].va => i = k
          /\ boot \in ThreadPhases => t = <<>>
          /\ boot = "smoke" => v = SmokeVA
      BY <1>1, NextJob
    <3>2. \A j \in Elems(todo) : /\ Fits(boot, j.va, j.pa, j.flags)
                                 /\ (j.pa = None <=> boot \in FromPmm) /\ Map[j.va] = None
      BY <1>1 DEF TodoInv
    <3>3. \A j \in Elems(todo) : j.va \in VPage
      <4>1. \A j \in Elems(todo) : j \in JobSet
        <5>1. todo \in Seq(JobSet)
          BY <1>1, NextJob
        <5>. QED
          BY <5>1, LenProperties DEF Elems
      <4>. QED
        BY <4>1 DEF JobSet
    <3>4. \A j \in Elems(t) : /\ Fits(boot, j.va, j.pa, j.flags)
                              /\ (j.pa = None <=> boot \in FromPmm) /\ Map'[j.va] = None
      <4>. HIDE DEF t, v, e
      <4>. QED
        BY <1>8, <2>2, <3>1, <3>2, <3>3
    <3>5. boot \in ThreadPhases => Len(t) <= 1 /\ \A j \in Elems(t) : j.va = next_thread_va' + 1
      <4>1. t = <<>> => Len(t) = 0 /\ Elems(t) = {}
        BY NoElems
      <4>. HIDE DEF t
      <4>. QED
        BY <3>1, <4>1
    <3>6. boot = "smoke" => Map'[SmokeVA] # None
      <4>. HIDE DEF t, v, e
      <4>. QED
        BY <1>8, <1>9, <2>2, <3>1
    <3>7. boot' = boot /\ todo' = t /\ Elems(todo)' = Elems(t)
      BY <2>2 DEF Elems
    <3>. HIDE DEF t, v, e, h, Done
    <3>. QED
      BY <1>10, <3>1, <3>4, <3>5, <3>6, <3>7 DEF TodoInv
  <2>. QED
    BY <1>4, <2>1, <2>2
<1>12. SpaceInv'
  <2>1. Rank(boot) \in Nat /\ Rank(boot') \in Nat /\ Rank(boot) <= Rank(boot')
    <3>1. Rank(boot) \in 0 .. 10 /\ Rank("panic") = 10
      BY RankIs DEF Places, Rank
    <3>. QED
      BY <1>5, <3>1
  <2>2. ThreadVABase .. ThreadVABase + 9 \subseteq VPage
    BY <1>6, Layout
  <2>3. ASSUME NEW u \in VPage, Map'[u] # None
        PROVE  \/ Map'[u] = Map[u] /\ Map[u] # None
               \/ u = v /\ Map'[u] = e /\ Done
    <3>1. CASE Failed
      <4>1. Map' = Map
        BY <1>1, <3>1, SameTables
      <4>. QED
        BY <2>3, <4>1
    <3>2. CASE Done
      <4>. HIDE DEF v, e
      <4>. QED
        BY <1>8, <2>3, <3>2
    <3>. QED
      BY <1>4, <3>1, <3>2
  <2>4. ASSUME NEW u \in VPage, Map'[u] # None
        PROVE  \E x \in Phases : Rank(x) <= Rank(boot') /\ Fits(x, u, Map'[u].pa, Map'[u].flags)
    <3>1. CASE Map'[u] = Map[u] /\ Map[u] # None
      <4>1. PICK x \in Phases : Rank(x) <= Rank(boot) /\ Fits(x, u, Map[u].pa, Map[u].flags)
        BY <1>1, <3>1 DEF SpaceInv
      <4>2. Rank(x) \in 0 .. 10
        BY RankIs DEF Places
      <4>3. Rank(x) <= Rank(boot')
        BY <2>1, <4>1, <4>2
      <4>. QED
        BY <3>1, <4>1, <4>3
    <3>2. CASE u = v /\ Map'[u] = e
      <4>1. Fits(boot, u, Map'[u].pa, Map'[u].flags)
        <5>. HIDE DEF e
        <5>. QED
          BY <1>9, <3>2
      <4>. QED
        BY <2>1, <4>1
    <3>. QED
      BY <2>3, <2>4, <3>1, <3>2
  <2>5. ASSUME NEW u \in ThreadVABase .. ThreadVABase + 9, Map'[u] # None
        PROVE  u < next_thread_va'
    <3>1. u \in VPage /\ u \in Nat /\ next_thread_va \in Nat
      <4>1. ThreadVABase \in Nat
        BY PmapAssumption
      <4>. QED
        BY <1>1, <2>2, <4>1 DEF NextVA
    <3>2. CASE Map'[u] = Map[u] /\ Map[u] # None
      <4>1. u < next_thread_va
        BY <1>1, <3>2 DEF SpaceInv
      <4>. QED
        BY <3>1, <4>1
    <3>3. CASE u = v
      BY <3>3
    <3>. QED
      BY <2>3, <2>5, <3>1, <3>2, <3>3
  <2>6. \A x : Rank(x)' = Rank(x)
    BY DEF Rank
  <2>. QED
    BY <1>10, <2>4, <2>5, <2>6 DEF SpaceInv
<1>13. \/ boot' = boot /\ (\E New : Grows(New)) /\ Stored(v, e)
       \/ boot' = "panic" /\ UNCHANGED <<busy, pgdir, tables>>
  BY <1>4
<1>. HIDE DEF Done, Failed
<1>. QED
  BY <1>2, <1>4, <1>5, <1>6, <1>7, <1>11, <1>12, <1>13

\* A private page belongs to a phase that takes its pages from pmm_alloc(), and only
\* to that one.
LEMMA HeldAreas ==
  ASSUME machine \in Machines
  PROVE  /\ \A x \in Phases \ FromPmm : Area(x, machine) \intersect Held = {}
         /\ \A x \in FromPmm : x \in Phases /\ (x # "user" /\ x # "heap" /\ x # "smoke" => x \in ThreadPhases)
         /\ \A x \in {"smoke", "heap", "user"} :
              Area(x, machine) \intersect (ThreadVABase .. ThreadVABase + 9) = {}
         /\ \A x \in FromPmm : Area(x, machine) \subseteq Held
<1>1. /\ \A x, y \in Phases : x # y => Area(x, machine) \intersect Area(y, machine) = {}
      /\ Area("smoke", machine) = {SmokeVA} /\ Area("user", machine) = {UserCodeVA, UserStackVA}
      /\ Area("heap", machine) = HeapBase .. HeapBase + HeapPages - 1
      /\ Area("thread_a", machine) = ThreadVABase .. ThreadVABase + 2
      /\ Area("thread_b", machine) = ThreadVABase + 3 .. ThreadVABase + 5
      /\ Area("thread_u", machine) = ThreadVABase + 6 .. ThreadVABase + 9
  BY Layout
<1>2. ThreadVABase .. ThreadVABase + 9 =
        Area("thread_a", machine) \union Area("thread_b", machine) \union Area("thread_u", machine)
  <2>1. ThreadVABase \in Nat
    BY PmapAssumption
  <2>. QED
    BY <1>1, <2>1
<1>3. Held = Area("smoke", machine) \union Area("user", machine) \union Area("heap", machine)
             \union (ThreadVABase .. ThreadVABase + 9)
  BY <1>1 DEF Held
<1>4. \A x \in FromPmm : x \in Phases /\ (x # "user" /\ x # "heap" /\ x # "smoke" => x \in ThreadPhases)
  BY DEF FromPmm, ThreadPhases, Phases
<1>5. {"smoke", "user", "heap", "thread_a", "thread_b", "thread_u"} \subseteq Phases
      /\ FromPmm = {"smoke", "user", "heap", "thread_a", "thread_b", "thread_u"}
  BY DEF Phases, FromPmm, ThreadPhases
<1>6. ASSUME NEW x \in Phases \ FromPmm
      PROVE  Area(x, machine) \intersect Held = {}
  <2>1. \A y \in FromPmm : Area(x, machine) \intersect Area(y, machine) = {}
    BY <1>1, <1>4
  <2>. QED
    BY <1>2, <1>3, <1>5, <2>1
<1>7. ASSUME NEW x \in {"smoke", "heap", "user"}
      PROVE  Area(x, machine) \intersect (ThreadVABase .. ThreadVABase + 9) = {}
  <2>1. x \in Phases /\ \A y \in {"thread_a", "thread_b", "thread_u"} :
          y \in Phases /\ Area(x, machine) \intersect Area(y, machine) = {}
    BY <1>1, <1>5
  <2>. QED
    BY <1>2, <2>1
<1>8. ASSUME NEW x \in FromPmm
      PROVE  Area(x, machine) \subseteq Held
  BY <1>2, <1>3, <1>5
<1>. QED
  BY <1>4, <1>6, <1>7, <1>8

\* Whoever gives up keeps what it has.
LEMMA HeldPanics ==
  ASSUME HeldInv, boot' = "panic", UNCHANGED <<busy, pd>>, DirPages' = DirPages, Map' = Map,
         Usable' = Usable, HandPages' \subseteq HandPages,
         \A i, j \in DOMAIN hand' : hand'[i] = hand'[j] /\ hand'[i] # NoMem => i = j
  PROVE  HeldInv'
<1>1. MapPages' = MapPages /\ PdPages' = PdPages
  BY DEF MapPages, Held, PdPages
<1>2. boot' \notin Phases \union {"lcr3"}
  BY DEF Phases
<1>3. /\ PdPages \union DirPages \union MapPages \union HandPages \subseteq busy \intersect Usable
      /\ PdPages \intersect (DirPages \union MapPages \union HandPages) = {}
      /\ DirPages \intersect (MapPages \union HandPages) = {}
      /\ MapPages \intersect HandPages = {} /\ pd \in Nat \union {None}
      /\ \A u, v \in Held : Map[u] # None /\ Map[v] # None /\ Map[u].pa = Map[v].pa => u = v
  BY DEF HeldInv
<1>4. PdPages \union DirPages \union MapPages \union HandPages' \subseteq busy \intersect Usable
  BY <1>3
<1>5. PdPages \intersect (DirPages \union MapPages \union HandPages') = {}
  BY <1>3
<1>6. DirPages \intersect (MapPages \union HandPages') = {} /\ MapPages \intersect HandPages' = {}
  BY <1>3
<1>. QED
  BY <1>1, <1>2, <1>3, <1>4, <1>5, <1>6 DEF HeldInv, Held, Owned, Skipped

LEMMA MapNextStep ==
  ASSUME KmainInv, MapNext
  PROVE  KmainInv' /\ SpaceStep
<1>. DEFINE h == Head(todo)
<1>1. /\ PoolInv /\ BootInv /\ TableInv /\ HeldInv /\ HandInv /\ TodoInv /\ NextVA
  BY DEF KmainInv
<1>2. /\ boot \in Phases /\ todo # <<>> /\ h.pa # None
      /\ PmapMap(h.va, h.pa, h.flags, boot) /\ todo' = Tail(todo)
      /\ UNCHANGED <<machine, bitmap, cr3, pd, hand, next_thread_va>>
  BY MappingIs DEF MapNext, Fresh
<1>3. h \in JobSet /\ h.pa \in Nat /\ h.va \in VPage /\ Fits(boot, h.va, h.pa, h.flags) /\ boot \notin FromPmm
  <2>1. h \in JobSet /\ h.va \in VPage /\ Fits(boot, h.va, h.pa, h.flags) /\ boot \notin FromPmm
    BY <1>1, <1>2, NextJob
  <2>. QED
    BY <1>2, <2>1 DEF JobSet
<1>4. machine \in Machines /\ next_thread_va \in Nat /\ next_thread_va <= next_thread_va
  BY <1>1, PmapAssumption DEF BootInv, NextVA
<1>5. h.va \notin Held
  <2>1. h.va \in Area(boot, machine)
    BY <1>3 DEF Fits
  <2>. QED
    BY <1>2, <1>3, <1>4, <2>1, HeldAreas
<1>6. h.va \notin ThreadVABase .. ThreadVABase + 9
  BY <1>4, <1>5, Layout
<1>7. /\ PoolInv' /\ BootInv' /\ EmptyInv' /\ TableInv' /\ TlbInv' /\ TodoInv' /\ SpaceInv'
      /\ Usable' = Usable /\ Known' = Known /\ boot' \in {boot, "panic"} /\ Live
      /\ pd # None /\ machine \in Machines
      /\ \/ boot' = boot /\ (\E New : Grows(New)) /\ Stored(h.va, Entry(h.pa, h.flags))
         \/ boot' = "panic" /\ UNCHANGED <<busy, pgdir, tables>>
  BY <1>2, <1>3, <1>4, <1>6, Maps
<1>8. HeldInv'
  <2>1. CASE boot' = boot /\ (\E New : Grows(New)) /\ Stored(h.va, Entry(h.pa, h.flags))
    <3>1. PICK New : Grows(New)
      BY <2>1
    <3>2. \A u \in Held : Map'[u] = Map[u]
      BY <1>4, <1>5, <2>1, Layout DEF Stored
    <3>. QED
      BY <1>1, <1>2, <1>7, <3>1, <3>2, HeldGrows
  <2>2. CASE boot' = "panic" /\ UNCHANGED <<busy, pgdir, tables>>
    <3>1. DirPages' = DirPages /\ Map' = Map
      BY <1>1, <2>2, SameTables
    <3>2. HandPages' = HandPages
          /\ \A i, j \in DOMAIN hand' : hand'[i] = hand'[j] /\ hand'[i] # NoMem => i = j
      BY <1>1, <1>2 DEF HandPages, Elems, HeldInv
    <3>. QED
      BY <1>1, <1>2, <1>7, <2>2, <3>1, <3>2, HeldPanics
  <2>. QED
    BY <1>7, <2>1, <2>2
<1>9. boot \in {"low", "kernel", "fb"}
  BY <1>2, <1>3 DEF Phases, FromPmm, ThreadPhases
<1>10. HandInv'
  <2>1. hand' = <<>>
    BY <1>1, <1>2, <1>9 DEF HandInv
  <2>2. boot' \in {"low", "kernel", "fb", "panic"}
    BY <1>7, <1>9
  <2>. QED
    BY <2>1, <2>2 DEF HandInv, ThreadPhases
<1>11. NextVA'
  <2>1. next_thread_va' = ThreadVABase
    BY <1>1, <1>2, <1>9 DEF NextVA, Rank
  <2>2. boot' \in {"low", "kernel", "fb", "panic"}
    BY <1>7, <1>9
  <2>. QED
    BY <2>1, <2>2 DEF NextVA
<1>12. SpaceStep
  <2>1. CASE Stored(h.va, Entry(h.pa, h.flags))
    <3>1. Map[h.va] = None /\ Entry(h.pa, h.flags) # None
      <4>1. h.flags \in SUBSET {"RW", "USER"} /\ Map[h.va] = None
        BY <1>1, <1>2, <1>3, NextJob DEF JobSet
      <4>. HIDE DEF h
      <4>. QED
        BY <1>3, <4>1, EntryTyped
    <3>. QED
      BY <1>3, <2>1, <3>1 DEF Stored, SpaceStep, Changes
  <2>2. CASE UNCHANGED <<pgdir, tables>>
    BY <1>1, <2>2, SameTables DEF SpaceStep
  <2>. QED
    BY <1>7, <2>1, <2>2
<1>. QED
  BY <1>7, <1>8, <1>10, <1>11, <1>12 DEF KmainInv

\* The page in hand goes to the private mapping.
LEMMA HeldMoves ==
  ASSUME HeldInv, Live, pd # None, NEW New, Grows(New), NEW v \in Held, NEW p, NEW e,
         hand # <<>>, hand \in Seq(Known \union {NoMem}), p = Head(hand), p # NoMem,
         hand' = Tail(hand), pd' = pd, Usable' = Usable, Known' = Known,
         Map[v] = None, Map'[v] = e, e # None, e.pa = p,
         \A u \in Held : u # v => Map'[u] = Map[u]
  PROVE  HeldInv'
<1>1. PdPages' = PdPages
  BY DEF PdPages
<1>2. DirPages' = DirPages \union New /\ busy' = busy \union New /\ New \subseteq Known
      /\ New \intersect busy = {}
  BY DEF Grows
<1>3. /\ Known \ busy \subseteq Usable
      /\ busy \intersect Usable = PdPages \union DirPages \union MapPages \union HandPages
  BY DEF HeldInv, Live, Owned
<1>4. /\ PdPages \intersect (DirPages \union MapPages \union HandPages) = {}
      /\ DirPages \intersect (MapPages \union HandPages) = {}
      /\ MapPages \intersect HandPages = {}
      /\ pd \in Nat \union {None}
      /\ \A u, w \in Held : Map[u] # None /\ Map[w] # None /\ Map[u].pa = Map[w].pa => u = w
      /\ \A i, j \in DOMAIN hand : hand[i] = hand[j] /\ hand[i] # NoMem => i = j
  BY DEF HeldInv
<1>. DEFINE t == Tail(hand)
<1>5. /\ Elems(hand) = {p} \union Elems(t)
      /\ \A i \in DOMAIN t : i + 1 \in DOMAIN hand /\ t[i] = hand[i + 1] /\ i + 1 # 1
      /\ 1 \in DOMAIN hand /\ p = hand[1] /\ t \in Seq(Known \union {NoMem})
  BY TailElems
<1>6. DOMAIN t \subseteq Int
  BY <1>5, LenProperties
<1>. HIDE DEF t
<1>7. p \notin Elems(t)
  <2>1. \A i \in DOMAIN t : t[i] # p
    BY <1>4, <1>5
  <2>. QED
    BY <2>1 DEF Elems
<1>8. HandPages' = HandPages \ {p} /\ p \in HandPages
  <2>1. HandPages' = Elems(t) \ {NoMem}
    BY DEF HandPages, Elems, t
  <2>. QED
    BY <1>5, <1>7, <2>1 DEF HandPages
<1>9. \A i, j \in DOMAIN hand' : hand'[i] = hand'[j] /\ hand'[i] # NoMem => i = j
  <2>1. ASSUME NEW i \in DOMAIN t, NEW j \in DOMAIN t, t[i] = t[j], t[i] # NoMem
        PROVE  i = j
    <3>1. i + 1 = j + 1
      BY <1>4, <1>5, <2>1
    <3>. QED
      BY <1>6, <3>1
  <2>. QED
    BY <2>1 DEF t
<1>10. MapPages' = MapPages \union {p}
  <2>1. MapPages' = {Map'[u].pa : u \in {w \in Held : Map'[w] # None}}
    BY DEF MapPages, Held
  <2>. QED
    BY <2>1 DEF MapPages
<1>11. \A u, w \in Held : Map'[u] # None /\ Map'[w] # None /\ Map'[u].pa = Map'[w].pa => u = w
  <2>1. p \notin MapPages
    BY <1>4, <1>8
  <2>2. \A u \in Held : Map[u] # None => Map[u].pa # p
    BY <2>1 DEF MapPages
  <2>. QED
    BY <1>4, <2>2
<1>12. /\ PdPages' \union DirPages' \union MapPages' \union HandPages' = busy' \intersect Usable'
       /\ Known' \ busy' \subseteq Usable'
  BY <1>1, <1>2, <1>3, <1>8, <1>10
<1>13. PdPages' \intersect (DirPages' \union MapPages' \union HandPages') = {}
  BY <1>1, <1>2, <1>3, <1>4, <1>8, <1>10
<1>14. DirPages' \intersect (MapPages' \union HandPages') = {}
  BY <1>2, <1>3, <1>4, <1>8, <1>10
<1>15. MapPages' \intersect HandPages' = {}
  BY <1>4, <1>8, <1>10
<1>16. PdPages' \union DirPages' \union MapPages' \union HandPages' \subseteq busy' \intersect Usable'
  BY <1>12
<1>. HIDE DEF Grows
<1>. QED
  BY <1>4, <1>9, <1>11, <1>12, <1>13, <1>14, <1>15, <1>16 DEF HeldInv, Held, Owned, Skipped

\* The page in hand for the next page to map.
LEMMA ReadyHand ==
  ASSUME HandInv, TodoInv, boot \in FromPmm, todo # <<>>, Ready
  PROVE  /\ hand \in Seq(Known \union {NoMem}) /\ NoMem \notin Elems(hand) /\ Len(hand) \in Nat
         /\ hand # <<>> /\ (boot # "user" => Len(hand) <= 1)
         /\ (boot = "user" => Len(hand) = Len(todo) /\ Len(todo) <= 2)
         /\ Elems(hand) = {Head(hand)} \union Elems(Tail(hand))
         /\ Tail(hand) \in Seq(Known \union {NoMem}) /\ Len(Tail(hand)) = Len(hand) - 1
         /\ Head(hand) \in Nat /\ Head(hand) # NoMem /\ NoMem \notin Elems(Tail(hand))
<1>1. hand \in Seq(Known \union {NoMem}) /\ Len(hand) \in Nat
  BY LenProperties DEF HandInv
<1>2. boot \in Phases
  BY DEF FromPmm, ThreadPhases, Phases
<1>3. hand # <<>> /\ NoMem \notin Elems(hand)
      /\ (boot # "user" => Len(hand) <= 1) /\ (boot = "user" => Len(hand) = Len(todo) /\ Len(todo) <= 2)
  <2>1. CASE boot = "user"
    <3>1. Len(todo) > 0
      BY <1>2, NextJob
    <3>. QED
      BY <1>1, <2>1, <3>1, EmptySeq DEF HandInv, Ready
  <2>2. CASE boot # "user"
    <3>1. boot \in {"smoke", "heap"} \union ThreadPhases
      BY <2>2 DEF FromPmm
    <3>. QED
      BY <1>1, <2>2, <3>1 DEF HandInv, Ready
  <2>. QED
    BY <2>1, <2>2
<1>4. /\ Elems(hand) = {Head(hand)} \union Elems(Tail(hand))
      /\ Tail(hand) \in Seq(Known \union {NoMem})
      /\ Len(Tail(hand)) = Len(hand) - 1 /\ Head(hand) \in Known \union {NoMem}
  BY <1>1, <1>3, TailElems
<1>5. Head(hand) \in Nat /\ Head(hand) # NoMem
  <2>1. Head(hand) \in Elems(hand)
    BY <1>4
  <2>2. Head(hand) \in Known
    BY <1>3, <1>4, <2>1
  <2>. QED
    BY <1>3, <2>1, <2>2 DEF Known
<1>. QED
  BY <1>1, <1>3, <1>4, <1>5

LEMMA MapFreshStep ==
  ASSUME KmainInv, MapFresh
  PROVE  KmainInv' /\ SpaceStep
<1>. DEFINE h == Head(todo)
            v == h.va
            p == Head(hand)
            t == Tail(hand)
<1>1. /\ PoolInv /\ BootInv /\ TableInv /\ HeldInv /\ HandInv /\ TodoInv /\ NextVA
  BY DEF KmainInv
<1>2. /\ boot \in Phases /\ todo # <<>> /\ h.pa = None /\ Ready
      /\ PmapMap(v, p, h.flags, boot) /\ todo' = Tail(todo) /\ hand' = t
      /\ next_thread_va' = (IF boot \in ThreadPhases THEN next_thread_va + 3 ELSE next_thread_va)
      /\ UNCHANGED <<machine, bitmap, cr3, pd>>
  BY MappingIs DEF MapFresh, Fresh, ThreadPhases
<1>3. h \in JobSet /\ v \in VPage /\ Fits(boot, v, h.pa, h.flags) /\ boot \in FromPmm /\ Map[v] = None
      /\ Len(todo) \in Nat /\ Len(todo) > 0 /\ Len(todo') = Len(todo) - 1
      /\ (boot \in ThreadPhases => todo' = <<>> /\ v = next_thread_va + 1)
  BY <1>1, <1>2, NextJob
<1>4. machine \in Machines /\ next_thread_va \in Nat /\ ThreadVABase \in Nat
      /\ next_thread_va <= next_thread_va' /\ next_thread_va' \in Nat
  <2>1. ThreadVABase \in Nat /\ machine \in Machines
    BY <1>1, PmapAssumption DEF BootInv
  <2>2. next_thread_va \in Nat
    BY <1>1, <2>1 DEF NextVA
  <2>. QED
    BY <1>2, <2>1, <2>2
<1>5. /\ hand \in Seq(Known \union {NoMem}) /\ NoMem \notin Elems(hand) /\ Len(hand) \in Nat
      /\ hand # <<>> /\ (boot # "user" => Len(hand) <= 1) /\ (boot = "user" => Len(hand) = Len(todo) /\ Len(todo) <= 2)
      /\ Elems(hand) = {p} \union Elems(t) /\ t \in Seq(Known \union {NoMem})
      /\ Len(t) = Len(hand) - 1 /\ p \in Nat /\ p # NoMem /\ NoMem \notin Elems(t)
  BY <1>1, <1>2, <1>3, ReadyHand
<1>6. Fits(boot, v, p, h.flags)
  <2>1. boot \notin {"low", "fb"} /\ boot # "kernel"
    BY <1>3 DEF FromPmm, ThreadPhases
  <2>. QED
    BY <1>3, <2>1 DEF Fits
<1>7. v \in Held /\ v \in Area(boot, machine)
  BY <1>3, <1>4, HeldAreas DEF Fits
<1>8. v \in ThreadVABase .. ThreadVABase + 9 => v < next_thread_va'
  <2>1. CASE boot \in ThreadPhases
    BY <1>2, <1>3, <1>4, <2>1
  <2>2. CASE boot \notin ThreadPhases
    <3>1. boot \in {"smoke", "heap", "user"}
      BY <1>3, <2>2 DEF FromPmm
    <3>. QED
      BY <1>4, <1>7, <3>1, HeldAreas
  <2>. QED
    BY <2>1, <2>2
<1>9. /\ PoolInv' /\ BootInv' /\ EmptyInv' /\ TableInv' /\ TlbInv' /\ TodoInv' /\ SpaceInv'
       /\ Usable' = Usable /\ Known' = Known /\ boot' \in {boot, "panic"} /\ Live
       /\ pd # None /\ machine \in Machines
       /\ \/ boot' = boot /\ (\E New : Grows(New)) /\ Stored(v, Entry(p, h.flags))
          \/ boot' = "panic" /\ UNCHANGED <<busy, pgdir, tables>>
  <2>1. PmapMap(Head(todo).va, p, Head(todo).flags, boot) /\ Fits(boot, Head(todo).va, p, Head(todo).flags)
    BY <1>2, <1>6
  <2>. HIDE DEF p
  <2>. QED
    BY <1>2, <1>4, <1>5, <1>8, <2>1, Maps
<1>10. HeldInv'
  <2>1. CASE boot' = boot /\ (\E New : Grows(New)) /\ Stored(v, Entry(p, h.flags))
    <3>. DEFINE e == Entry(p, h.flags)
    <3>1. PICK New : Grows(New)
      BY <2>1
    <3>2. Held \subseteq VPage
      BY <1>4, Layout
    <3>3. Map'[v] = e /\ \A u \in Held : u # v => Map'[u] = Map[u]
      BY <2>1, <3>2 DEF Stored
    <3>4. e # None /\ e.pa = p
      <4>1. h.flags \in SUBSET {"RW", "USER"}
        BY <1>3 DEF JobSet
      <4>. HIDE DEF h, p
      <4>. QED
        BY <1>5, <4>1, EntryTyped
    <3>5. p = Head(hand) /\ hand' = Tail(hand)
      BY <1>2
    <3>. HIDE DEF e, p, t, v, h
    <3>. QED
      BY <1>1, <1>2, <1>3, <1>5, <1>7, <1>9, <3>1, <3>3, <3>4, <3>5, HeldMoves
  <2>2. CASE boot' = "panic" /\ UNCHANGED <<busy, pgdir, tables>>
    <3>1. DirPages' = DirPages /\ Map' = Map
      BY <1>1, <2>2, SameTables
    <3>2. HandPages' \subseteq HandPages
      <4>1. HandPages' = Elems(t) \ {NoMem}
        BY <1>2 DEF HandPages, Elems
      <4>. QED
        BY <1>5, <4>1 DEF HandPages
    <3>3. \A i, j \in DOMAIN hand' : hand'[i] = hand'[j] /\ hand'[i] # NoMem => i = j
      <4>1. \A i \in DOMAIN t : i + 1 \in DOMAIN hand /\ t[i] = hand[i + 1]
        BY <1>5, TailElems
      <4>2. DOMAIN t \subseteq Int
        BY <1>5, LenProperties
      <4>3. \A i, j \in DOMAIN hand : hand[i] = hand[j] /\ hand[i] # NoMem => i = j
        BY <1>1 DEF HeldInv
      <4>. HIDE DEF t
      <4>4. ASSUME NEW i \in DOMAIN t, NEW j \in DOMAIN t, t[i] = t[j], t[i] # NoMem
            PROVE  i = j
        <5>1. i + 1 = j + 1
          BY <4>1, <4>3, <4>4
        <5>. QED
          BY <4>2, <5>1
      <4>. QED
        BY <1>2, <4>4
    <3>. QED
      BY <1>1, <1>2, <1>9, <2>2, <3>1, <3>2, <3>3, HeldPanics
  <2>. QED
    BY <1>9, <2>1, <2>2
<1>11. HandInv'
  <2>1. hand' \in Seq(Known' \union {NoMem})
    BY <1>2, <1>5, <1>9
  <2>2. Elems(hand)' = Elems(t) /\ Len(hand)' = Len(t) /\ (Len(t) = 0 => t = <<>>)
    BY <1>2, <1>5, EmptySeq DEF Elems
  <2>3. CASE boot' = "panic"
    BY <2>1, <2>3 DEF HandInv, ThreadPhases
  <2>4. CASE boot' = boot /\ boot = "user"
    <3>1. Len(t) = Len(todo') /\ Len(todo') <= 2
      <4>1. Len(hand) = Len(todo) /\ Len(todo) <= 2
        BY <1>5, <2>4
      <4>2. Len(todo) \in Nat /\ Len(todo') = Len(todo) - 1
        BY <1>3
      <4>3. Len(t) = Len(hand) - 1
        BY <1>5
      <4>. HIDE DEF t
      <4>. QED
        BY <4>1, <4>2, <4>3
    <3>2. Len(t) \in Nat
      BY <1>5, LenProperties
    <3>. HIDE DEF t
    <3>. QED
      BY <1>2, <1>5, <2>1, <2>2, <2>4, <3>1, <3>2 DEF HandInv, ThreadPhases
  <2>5. CASE boot' = boot /\ boot # "user"
    <3>1. Len(t) = 0
      <4>1. Len(t) \in Nat
        BY <1>5, LenProperties
      <4>. QED
        BY <1>5, <2>5, <4>1
    <3>2. hand' = <<>> /\ Elems(hand)' = {} /\ Len(hand)' = 0
      BY <1>2, <2>2, <3>1, NoElems
    <3>3. boot' # "user"
      BY <2>5
    <3>. QED
      BY <2>1, <3>2, <3>3 DEF HandInv
  <2>. QED
    BY <1>9, <2>3, <2>4, <2>5
<1>12. NextVA'
  <2>1. next_thread_va \in {ThreadVABase, ThreadVABase + 3, ThreadVABase + 6, ThreadVABase + 9}
    BY <1>1 DEF NextVA
  <2>2. CASE boot = "thread_a"
    <3>1. next_thread_va = ThreadVABase /\ next_thread_va' = ThreadVABase + 3 /\ todo' = <<>>
      BY <1>1, <1>2, <1>3, <2>2 DEF NextVA, ThreadPhases
    <3>2. boot' = "thread_a" \/ boot' = "panic"
      BY <1>9, <2>2
    <3>. QED
      BY <1>4, <3>1, <3>2 DEF NextVA, Rank
  <2>3. CASE boot = "thread_b"
    <3>1. next_thread_va = ThreadVABase + 3 /\ next_thread_va' = ThreadVABase + 6 /\ todo' = <<>>
      BY <1>1, <1>2, <1>3, <1>4, <2>3 DEF NextVA, ThreadPhases
    <3>2. boot' = "thread_b" \/ boot' = "panic"
      BY <1>9, <2>3
    <3>. QED
      BY <1>4, <3>1, <3>2 DEF NextVA, Rank
  <2>4. CASE boot = "thread_u"
    <3>1. next_thread_va = ThreadVABase + 6 /\ next_thread_va' = ThreadVABase + 9 /\ todo' = <<>>
      BY <1>1, <1>2, <1>3, <1>4, <2>4 DEF NextVA, ThreadPhases
    <3>2. boot' = "thread_u" \/ boot' = "panic"
      BY <1>9, <2>4
    <3>. QED
      BY <1>4, <3>1, <3>2 DEF NextVA, Rank
  <2>5. CASE boot \notin ThreadPhases
    <3>1. next_thread_va' = next_thread_va
      BY <1>2, <2>5
    <3>2. boot \in {"smoke", "heap", "user"}
      BY <1>3, <2>5 DEF FromPmm
    <3>3. boot' = boot \/ boot' = "panic"
      BY <1>9
    <3>4. CASE boot' = boot
      BY <1>1, <2>1, <3>1, <3>2, <3>4 DEF NextVA, Rank
    <3>5. CASE boot' = "panic"
      BY <2>1, <3>1, <3>5 DEF NextVA, Rank
    <3>. QED
      BY <3>3, <3>4, <3>5
  <2>. QED
    BY <2>2, <2>3, <2>4, <2>5 DEF ThreadPhases
<1>13. SpaceStep
  <2>1. CASE Stored(v, Entry(p, h.flags))
    <3>1. Entry(p, h.flags) # None
      <4>1. h.flags \in SUBSET {"RW", "USER"}
        BY <1>3 DEF JobSet
      <4>. HIDE DEF h, p
      <4>. QED
        BY <1>5, <4>1, EntryTyped
    <3>. HIDE DEF v, p, h
    <3>. QED
      BY <1>3, <2>1, <3>1 DEF Stored, SpaceStep, Changes
  <2>2. CASE UNCHANGED <<pgdir, tables>>
    BY <1>1, <2>2, SameTables DEF SpaceStep
  <2>. QED
    BY <1>9, <2>1, <2>2
<1>. QED
  BY <1>9, <1>10, <1>11, <1>12, <1>13 DEF KmainInv

\* A page that pmm_alloc() gives to one of kmain()'s locals.
LEMMA HeldTakes ==
  ASSUME HeldInv, Live, pd # None, hand \in Seq(Known \union {NoMem}), NEW p, p # NoMem,
         p \in Known, p \notin busy, busy' = busy \union {p}, hand' = Append(hand, p),
         UNCHANGED <<pd>>, DirPages' = DirPages, Map' = Map, Usable' = Usable, Known' = Known
  PROVE  HeldInv'
<1>1. MapPages' = MapPages /\ PdPages' = PdPages
  BY DEF MapPages, Held, PdPages
<1>2. /\ Known \ busy \subseteq Usable
      /\ busy \intersect Usable = PdPages \union DirPages \union MapPages \union HandPages
  BY DEF HeldInv, Live, Owned
<1>3. /\ PdPages \intersect (DirPages \union MapPages \union HandPages) = {}
      /\ DirPages \intersect (MapPages \union HandPages) = {}
      /\ MapPages \intersect HandPages = {} /\ pd \in Nat \union {None}
      /\ \A u, v \in Held : Map[u] # None /\ Map[v] # None /\ Map[u].pa = Map[v].pa => u = v
      /\ \A i, j \in DOMAIN hand : hand[i] = hand[j] /\ hand[i] # NoMem => i = j
  BY DEF HeldInv
<1>. DEFINE n == Len(hand)
            q == Append(hand, p)
<1>4. n \in Nat /\ DOMAIN hand = 1 .. n
  BY LenProperties
<1>5. q \in Seq(Known \union {NoMem}) /\ Len(q) = n + 1
      /\ (\A i \in 1 .. n : q[i] = hand[i]) /\ q[n + 1] = p
  BY AppendProperties
<1>6. DOMAIN q = 1 .. n + 1
  BY <1>5, LenProperties
<1>. HIDE DEF n, q
<1>7. Elems(q) = Elems(hand) \union {p}
  <2>1. 1 .. n + 1 = (1 .. n) \union {n + 1}
    BY <1>4
  <2>. QED
    BY <1>4, <1>5, <1>6, <2>1 DEF Elems
<1>8. HandPages' = HandPages \union {p}
  <2>1. HandPages' = Elems(q) \ {NoMem}
    BY DEF HandPages, Elems, q
  <2>. QED
    BY <1>7, <2>1 DEF HandPages
<1>9. \A i \in 1 .. n : hand[i] # p
  <2>1. \A i \in 1 .. n : hand[i] # NoMem => hand[i] \in HandPages
    BY <1>4 DEF HandPages, Elems
  <2>2. p \notin HandPages
    BY <1>2
  <2>. QED
    BY <2>1, <2>2
<1>10. ASSUME NEW i \in 1 .. n + 1, NEW j \in 1 .. n + 1, q[i] = q[j], q[i] # NoMem
       PROVE  i = j
  <2>1. i \in 1 .. n \/ i = n + 1
    BY <1>4
  <2>2. j \in 1 .. n \/ j = n + 1
    BY <1>4
  <2>. QED
    BY <1>3, <1>4, <1>5, <1>9, <1>10, <2>1, <2>2
<1>11. \A i, j \in DOMAIN hand' : hand'[i] = hand'[j] /\ hand'[i] # NoMem => i = j
  BY <1>6, <1>10 DEF q
<1>12. p \in Usable
  BY <1>2
<1>13. /\ PdPages' \union DirPages' \union MapPages' \union HandPages' = busy' \intersect Usable'
       /\ Known' \ busy' \subseteq Usable'
  BY <1>1, <1>2, <1>8, <1>12
<1>14. PdPages' \intersect (DirPages' \union MapPages' \union HandPages') = {}
  BY <1>1, <1>2, <1>3, <1>8
<1>15. DirPages' \intersect (MapPages' \union HandPages') = {}
  BY <1>1, <1>2, <1>3, <1>8
<1>16. MapPages' \intersect HandPages' = {}
  BY <1>1, <1>2, <1>3, <1>8
<1>17. PdPages' \union DirPages' \union MapPages' \union HandPages' \subseteq busy' \intersect Usable'
  BY <1>13
<1>. QED
  BY <1>3, <1>11, <1>13, <1>14, <1>15, <1>16, <1>17 DEF HeldInv, Held, Owned, Skipped

\* A call that found no page: nothing changes hands.
LEMMA HeldStays ==
  ASSUME HeldInv, Live, pd # None, UNCHANGED <<busy, pd>>, DirPages' = DirPages, Map' = Map,
         Usable' = Usable, Known' = Known, HandPages' = HandPages,
         \A i, j \in DOMAIN hand' : hand'[i] = hand'[j] /\ hand'[i] # NoMem => i = j
  PROVE  HeldInv'
<1>1. MapPages' = MapPages /\ PdPages' = PdPages
  BY DEF MapPages, Held, PdPages
<1>2. /\ Known \ busy \subseteq Usable
      /\ busy \intersect Usable = PdPages \union DirPages \union MapPages \union HandPages
  BY DEF HeldInv, Live, Owned
<1>3. /\ PdPages \intersect (DirPages \union MapPages \union HandPages) = {}
      /\ DirPages \intersect (MapPages \union HandPages) = {}
      /\ MapPages \intersect HandPages = {} /\ pd \in Nat \union {None}
      /\ \A u, v \in Held : Map[u] # None /\ Map[v] # None /\ Map[u].pa = Map[v].pa => u = v
  BY DEF HeldInv
<1>4. PdPages \union DirPages \union MapPages \union HandPages \subseteq busy \intersect Usable
  BY <1>2
<1>. QED
  BY <1>1, <1>2, <1>3, <1>4 DEF HeldInv, Held, Owned, Skipped

LEMMA AppendElems ==
  ASSUME NEW S, NEW q \in Seq(S), NEW x \in S
  PROVE  /\ Append(q, x) \in Seq(S) /\ Len(Append(q, x)) = Len(q) + 1 /\ Len(q) \in Nat
         /\ DOMAIN Append(q, x) = 1 .. Len(q) + 1 /\ DOMAIN q = 1 .. Len(q)
         /\ \A i \in 1 .. Len(q) : Append(q, x)[i] = q[i]
         /\ Append(q, x)[Len(q) + 1] = x
         /\ Elems(Append(q, x)) = Elems(q) \union {x}
<1>. DEFINE n == Len(q)
            r == Append(q, x)
<1>1. n \in Nat /\ DOMAIN q = 1 .. n
  BY LenProperties
<1>2. r \in Seq(S) /\ Len(r) = n + 1 /\ (\A i \in 1 .. n : r[i] = q[i]) /\ r[n + 1] = x
  BY AppendProperties
<1>3. DOMAIN r = 1 .. n + 1
  BY <1>2, LenProperties
<1>. HIDE DEF n, r
<1>4. 1 .. n + 1 = (1 .. n) \union {n + 1}
  BY <1>1
<1>5. Elems(r) = Elems(q) \union {x}
  BY <1>1, <1>2, <1>3, <1>4 DEF Elems
<1>. QED
  BY <1>1, <1>2, <1>3, <1>5 DEF n, r

\* The order of the pages in hand, after one that pmm_alloc() did not have.
LEMMA HandFails ==
  ASSUME HeldInv, hand \in Seq(Known \union {NoMem}), hand' = Append(hand, NoMem)
  PROVE  /\ HandPages' = HandPages
         /\ \A i, j \in DOMAIN hand' : hand'[i] = hand'[j] /\ hand'[i] # NoMem => i = j
<1>. DEFINE n == Len(hand)
            q == Append(hand, NoMem)
<1>1. /\ n \in Nat /\ DOMAIN q = 1 .. n + 1 /\ DOMAIN hand = 1 .. n
      /\ \A i \in 1 .. n : q[i] = hand[i]
      /\ q[n + 1] = NoMem
      /\ Elems(q) = Elems(hand) \union {NoMem}
  <2>1. NoMem \in Known \union {NoMem}
    OBVIOUS
  <2>. QED
    BY <2>1, AppendElems
<1>2. \A i, j \in DOMAIN hand : hand[i] = hand[j] /\ hand[i] # NoMem => i = j
  BY DEF HeldInv
<1>. HIDE DEF n, q
<1>3. HandPages' = Elems(q) \ {NoMem}
  BY DEF HandPages, Elems, q
<1>4. ASSUME NEW i \in 1 .. n + 1, NEW j \in 1 .. n + 1, q[i] = q[j], q[i] # NoMem
      PROVE  i = j
  <2>1. i \in 1 .. n /\ j \in 1 .. n
    BY <1>1, <1>4
  <2>. QED
    BY <1>1, <1>2, <1>4, <2>1
<1>. QED
  BY <1>1, <1>3, <1>4 DEF HandPages, q

\* While both pages of the user task are to be mapped, its code is not mapped.
LEMMA UserStarts ==
  ASSUME TodoInv, machine \in Machines, boot = "user", todo \in Seq(JobSet), Len(todo) = 2
  PROVE  Map[UserCodeVA] = None
<1>1. 1 \in DOMAIN todo /\ 2 \in DOMAIN todo
  BY LenProperties
<1>2. boot \in Phases
  BY DEF Phases
<1>3. \A i \in DOMAIN todo : todo[i] \in Elems(todo)
  BY DEF Elems
<1>4. \A j \in Elems(todo) : j.va \in {UserCodeVA, UserStackVA} /\ Map[j.va] = None
  BY <1>2, Layout DEF TodoInv, Fits
<1>5. todo[1].va # todo[2].va
  <2>1. \A i, k \in DOMAIN todo : todo[i].va = todo[k].va => i = k
    BY <1>2 DEF TodoInv
  <2>. QED
    BY <1>1, <2>1
<1>. QED
  BY <1>1, <1>3, <1>4, <1>5

\* The user task gives up, and with it the page it has if any.
LEMMA HeldSkips ==
  ASSUME HeldInv, Live, pd # None, UNCHANGED <<pd>>, DirPages' = DirPages, Map' = Map,
         Usable' = Usable, Known' = Known, hand' = <<>>, Elems(hand)' = {}, boot' = "up",
         busy' = busy, Known \subseteq busy, Map[UserCodeVA] = None,
         Elems(hand) = {hand[1]}
  PROVE  HeldInv'
<1>1. MapPages' = MapPages /\ PdPages' = PdPages /\ HandPages' = {}
  BY DEF MapPages, Held, PdPages, HandPages
<1>2. /\ Known \ busy \subseteq Usable
      /\ busy \intersect Usable = PdPages \union DirPages \union MapPages \union HandPages
  BY DEF HeldInv, Live, Owned
<1>3. /\ PdPages \intersect (DirPages \union MapPages \union HandPages) = {}
      /\ DirPages \intersect (MapPages \union HandPages) = {}
      /\ pd \in Nat \union {None}
      /\ \A u, v \in Held : Map[u] # None /\ Map[v] # None /\ Map[u].pa = Map[v].pa => u = v
  BY DEF HeldInv
<1>4. Owned' = PdPages \union DirPages \union MapPages
  BY <1>1 DEF Owned
<1>5. \/ busy' \intersect Usable' = Owned'
      \/ \E x : busy' \intersect Usable' = Owned' \union {x}
  <2>1. CASE hand[1] = NoMem
    <3>1. HandPages = {}
      BY <2>1 DEF HandPages
    <3>. QED
      BY <1>2, <1>4, <3>1
  <2>2. CASE hand[1] # NoMem
    <3>1. HandPages = {hand[1]}
      BY <2>2 DEF HandPages
    <3>. QED
      BY <1>2, <1>4, <3>1
  <2>. QED
    BY <2>1, <2>2
<1>6. Skipped'
  BY DEF Skipped
<1>7. /\ PdPages' \union DirPages' \union MapPages' \union HandPages' \subseteq busy' \intersect Usable'
      /\ Known' \ busy' \subseteq Usable'
  BY <1>1, <1>2
<1>8. /\ PdPages' \intersect (DirPages' \union MapPages' \union HandPages') = {}
      /\ DirPages' \intersect (MapPages' \union HandPages') = {}
      /\ MapPages' \intersect HandPages' = {}
  BY <1>1, <1>3
<1>9. boot' \notin Phases \union {"lcr3"}
  BY DEF Phases
<1>10. \A i, j \in DOMAIN hand' : hand'[i] = hand'[j] /\ hand'[i] # NoMem => i = j
  OBVIOUS
<1>11. \A u, v \in Held' : Map'[u] # None /\ Map'[v] # None /\ Map'[u].pa = Map'[v].pa => u = v
  BY <1>3 DEF Held
<1>. QED
  BY <1>3, <1>5, <1>6, <1>7, <1>8, <1>9, <1>10, <1>11 DEF HeldInv

LEMMA TakePageStep ==
  ASSUME KmainInv, TakePage
  PROVE  KmainInv' /\ SpaceStep
<1>1. /\ PoolInv /\ BootInv /\ TableInv /\ HeldInv /\ HandInv /\ TodoInv /\ NextVA /\ SpaceInv /\ TlbInv
  BY DEF KmainInv
<1>2. /\ boot \in Phases /\ todo # <<>> /\ Head(todo).pa = None /\ ~Ready /\ PmmAlloc
      /\ UNCHANGED <<machine, bitmap, cr3, pd, pgdir, tables, tlb, next_thread_va>>
  BY MappingIs DEF TakePage, Fresh
<1>3. boot \in FromPmm
  BY <1>1, <1>2, NextJob
<1>4. /\ PoolInv' /\ npages_total' = npages_total /\ Known' = Known
      /\ \/ ret' = NoMem /\ busy' = busy /\ Known \subseteq busy
         \/ ret' \in Nat /\ ret' \in Known /\ ret' \notin busy /\ busy' = busy \union {ret'}
  BY <1>1, <1>2, Allocates
<1>5. TableInv' /\ DirPages' = DirPages /\ Map' = Map
  BY <1>1, <1>2, SameTables
<1>6. TlbInv'
  BY <1>1, <1>2, <1>5, SameTlb
<1>7. /\ hand \in Seq(Known \union {NoMem}) /\ Len(hand) \in Nat
      /\ (boot = "user" => Len(todo) = 2 /\ Len(hand) < 2)
      /\ (boot # "user" => hand = <<>>)
  <2>1. hand \in Seq(Known \union {NoMem}) /\ Len(hand) \in Nat
    BY <1>1, LenProperties DEF HandInv
  <2>2. CASE boot = "user"
    BY <1>1, <1>2, <2>1, <2>2 DEF HandInv, Ready
  <2>3. CASE boot # "user"
    BY <1>2, <2>1, <2>3 DEF Ready
  <2>. QED
    BY <2>1, <2>2, <2>3
<1>. DEFINE Goes == UNCHANGED <<boot, todo>> /\ hand' = Append(hand, ret')
            GivesUp == /\ boot = "user" /\ boot' = "up" /\ hand' = <<>>
                       /\ hand # <<>> /\ NoMem \in {hand[1], ret'}
            Skips == boot = "smoke" /\ Enter("heap") /\ hand' = hand /\ ret' = NoMem
            Panics == boot' = "panic" /\ hand' = hand /\ ret' = NoMem
<1>8. /\ Goes \/ GivesUp \/ Skips \/ Panics
      /\ Goes /\ boot = "user" => ~ (Len(hand') = 2 /\ NoMem \in {hand'[1], hand'[2]})
      /\ Goes /\ boot # "user" => ret' # NoMem
  <2>1. CASE boot = "user"
    <3>1. IF hand # <<>> /\ NoMem \in {hand[1], ret'}
          THEN hand' = <<>> /\ Enter("up")
          ELSE hand' = Append(hand, ret') /\ UNCHANGED <<boot, todo>>
      BY <2>1 DEF TakePage
    <3>2. Enter("up") => boot' = "up"
      BY DEF Enter
    <3>3. boot # "up"
      BY <2>1
    <3>4. CASE hand # <<>> /\ NoMem \in {hand[1], ret'}
      BY <2>1, <3>1, <3>2, <3>3, <3>4
    <3>5. CASE ~ (hand # <<>> /\ NoMem \in {hand[1], ret'})
      <4>1. Goes
        BY <3>1, <3>5
      <4>2. ret' \in Known \union {NoMem}
        BY <1>4
      <4>3. /\ Len(hand') = Len(hand) + 1 /\ hand'[Len(hand) + 1] = ret'
            /\ \A i \in 1 .. Len(hand) : hand'[i] = hand[i]
        BY <1>7, <4>1, <4>2, AppendElems
      <4>4. Len(hand') = 2 => Len(hand) = 1 /\ hand # <<>>
        <5>1. Len(hand') = 2 => Len(hand) = 1
          <6>. DEFINE a == Len(hand')
                      b == Len(hand)
          <6>1. a = b + 1 /\ b \in Nat
            BY <1>7, <4>3
          <6>. HIDE DEF a, b
          <6>2. a = 2 => b = 1
            BY <6>1
          <6>. QED
            BY <6>2 DEF a, b
        <5>2. Len(<<>>) = 0
          OBVIOUS
        <5>. QED
          BY <5>1, <5>2
      <4>5. Len(hand') = 2 => hand'[1] = hand[1] /\ hand'[2] = ret'
        <5>1. 1 \in 1 .. 1 /\ 1 + 1 = 2
          OBVIOUS
        <5>2. Len(hand) = 1 => hand'[1] = hand[1] /\ hand'[2] = ret'
          BY <4>3, <5>1
        <5>. QED
          BY <4>4, <5>2
      <4>. QED
        BY <2>1, <3>5, <4>1, <4>4, <4>5
    <3>. QED
      BY <3>4, <3>5
  <2>2. CASE boot # "user" /\ ret' # NoMem
    <3>1. hand' = <<ret'>> /\ UNCHANGED <<boot, todo>>
      BY <2>2 DEF TakePage
    <3>2. hand' = Append(hand, ret')
      BY <1>7, <2>2, <3>1
    <3>. QED
      BY <2>2, <3>1, <3>2
  <2>3. CASE boot # "user" /\ ret' = NoMem
    <3>1. hand' = hand /\ IF boot = "smoke" THEN Enter("heap") ELSE boot' = "panic" /\ todo' = todo
      BY <2>3 DEF TakePage
    <3>2. ~ Goes
      <4>1. boot # "panic" /\ boot' # boot
        BY <1>2, <3>1 DEF Enter, Phases
      <4>. QED
        BY <4>1
    <3>. QED
      BY <2>3, <3>1, <3>2
  <2>. QED
    BY <2>1, <2>2, <2>3
<1>9. ret' \in Known \union {NoMem}
  BY <1>4
<1>10. Live /\ boot \in Places /\ npages_total \in Nat
       /\ boot' \in Places \ Booting /\ boot' \in {boot, "up", "heap", "panic"}
       /\ Rank(boot) \in Nat /\ Rank(boot') \in Nat /\ Rank(boot) <= Rank(boot')
  <2>1. boot \notin {"size", "free", "reserve", "panic", "run", "up"}
    BY <1>2 DEF Phases
  <2>2. boot' = boot \/ boot' = "up" \/ (boot = "smoke" /\ boot' = "heap") \/ boot' = "panic"
    BY <1>8 DEF Enter
  <2>3. boot \in Places /\ boot' \in Places \ Booting
    BY <1>2, <2>1, <2>2 DEF Places, Booting, Phases
  <2>4. Rank(boot) \in 0 .. 10 /\ Rank("up") = 10 /\ Rank("panic") = 10
        /\ Rank("smoke") = 4 /\ Rank("heap") = 5
    BY <2>3, RankIs DEF Rank
  <2>5. Rank(boot) <= Rank(boot') /\ Rank(boot') \in 0 .. 10
    <3>1. CASE boot' = boot
      BY <2>4, <3>1
    <3>2. CASE boot' = "up"
      BY <2>4, <3>2
    <3>3. CASE boot = "smoke" /\ boot' = "heap"
      BY <2>4, <3>3
    <3>4. CASE boot' = "panic"
      BY <2>4, <3>4
    <3>. QED
      BY <2>2, <3>1, <3>2, <3>3, <3>4
  <2>6. npages_total \in Nat
    BY <1>1 DEF PoolInv
  <2>. QED
    BY <2>1, <2>2, <2>3, <2>4, <2>5, <2>6 DEF Live
<1>11. BootInv' /\ EmptyInv' /\ Usable' = Usable /\ machine \in Machines
  BY <1>1, <1>2, <1>4, <1>10, KeepsBoot
<1>12. SpaceInv'
  <2>1. ThreadVABase .. ThreadVABase + 9 \subseteq VPage
    BY <1>11, Layout
  <2>. QED
    BY <1>1, <1>2, <1>5, <1>10, <2>1, SpaceKept
<1>13. pd # None
  BY <1>1, <1>2 DEF HeldInv
<1>14. HeldInv'
  <2>1. CASE hand' = Append(hand, ret') /\ ret' # NoMem
    BY <1>1, <1>2, <1>4, <1>5, <1>7, <1>10, <1>11, <1>13, <2>1, HeldTakes
  <2>2. CASE hand' = Append(hand, ret') /\ ret' = NoMem
    <3>1. busy' = busy
      BY <1>4, <2>2, PmmAssumption
    <3>2. HandPages' = HandPages
          /\ \A i, j \in DOMAIN hand' : hand'[i] = hand'[j] /\ hand'[i] # NoMem => i = j
      BY <1>1, <1>7, <2>2, HandFails
    <3>. QED
      BY <1>1, <1>2, <1>4, <1>5, <1>10, <1>11, <1>13, <3>1, <3>2, HeldStays
  <2>3. CASE hand' = hand /\ ret' = NoMem
    <3>1. busy' = busy
      BY <1>4, <2>3, PmmAssumption
    <3>2. HandPages' = HandPages
          /\ \A i, j \in DOMAIN hand' : hand'[i] = hand'[j] /\ hand'[i] # NoMem => i = j
      BY <1>1, <2>3 DEF HandPages, Elems, HeldInv
    <3>. QED
      BY <1>1, <1>2, <1>4, <1>5, <1>10, <1>11, <1>13, <3>1, <3>2, HeldStays
  <2>4. CASE GivesUp
    <3>1. Len(hand) = 1 /\ Elems(hand) = {hand[1]} /\ hand[1] \in Known \union {NoMem}
      <4>1. Len(hand) = 1
        <5>1. Len(hand) # 0
          BY <1>7, <2>4, EmptySeq
        <5>2. Len(hand) \in Nat /\ Len(hand) < 2
          BY <1>7, <2>4
        <5>. DEFINE b == Len(hand)
        <5>. HIDE DEF b
        <5>3. b \in Nat /\ b < 2 /\ b # 0
          BY <5>1, <5>2 DEF b
        <5>4. b = 1
          BY <5>3
        <5>. QED
          BY <5>4 DEF b
      <4>2. DOMAIN hand = 1 .. 1 /\ 1 .. 1 = {1}
        BY <1>7, <4>1, LenProperties
      <4>. QED
        BY <1>7, <4>1, <4>2 DEF Elems
    <3>2. Elems(hand)' = {}
      BY <2>4, NoElems DEF Elems
    <3>3. Known \subseteq busy /\ busy' = busy
      <4>1. CASE hand[1] = NoMem
        BY <1>1, <1>4, <2>4, <3>1, <4>1 DEF HandInv
      <4>2. CASE ret' = NoMem
        BY <1>4, <4>2, PmmAssumption
      <4>. QED
        BY <2>4, <4>1, <4>2
    <3>4. Map[UserCodeVA] = None
      <4>1. todo \in Seq(JobSet) /\ Len(todo) = 2
        BY <1>1, <1>2, <1>7, <2>4 DEF TodoInv
      <4>. QED
        BY <1>1, <1>2, <1>11, <2>4, <4>1, UserStarts
    <3>. QED
      BY <1>1, <1>2, <1>4, <1>5, <1>10, <1>11, <1>13, <2>4, <3>1, <3>2, <3>3, <3>4, HeldSkips
  <2>. QED
    BY <1>8, <2>1, <2>2, <2>3, <2>4
<1>15. TodoInv'
  <2>1. CASE Goes
    <3>1. UNCHANGED <<boot, todo, machine, next_thread_va>> /\ Map' = Map
      BY <1>2, <1>5, <2>1
    <3>. QED
      BY <1>1, <3>1 DEF TodoInv, Fits, Elems
  <2>2. CASE boot' \in {"up", "panic"}
    BY <2>2 DEF TodoInv, Phases
  <2>3. CASE Skips
    <3>1. "heap" \in Phases /\ "heap" \notin ThreadPhases /\ Rank(boot) < Rank("heap")
      BY <2>3 DEF Phases, ThreadPhases, Rank
    <3>. QED
      BY <1>1, <1>2, <1>5, <1>10, <1>11, <2>3, <3>1, EntersPhase
  <2>. QED
    BY <1>8, <2>1, <2>2, <2>3
<1>16. NextVA'
  <2>1. next_thread_va' = next_thread_va
        /\ next_thread_va \in {ThreadVABase, ThreadVABase + 3, ThreadVABase + 6, ThreadVABase + 9}
    BY <1>1, <1>2 DEF NextVA
  <2>2. CASE Goes
    BY <1>1, <2>1, <2>2 DEF NextVA, Rank
  <2>3. CASE boot' \in {"up", "panic"}
    BY <2>1, <2>3 DEF NextVA, Rank
  <2>4. CASE Skips
    <3>1. next_thread_va = ThreadVABase /\ boot' = "heap"
      BY <1>1, <2>4 DEF NextVA, Rank, Enter
    <3>. QED
      BY <2>1, <3>1 DEF NextVA
  <2>. QED
    BY <1>8, <2>2, <2>3, <2>4
<1>17. HandInv'
  <2>. DEFINE q == Append(hand, ret')
  <2>1. /\ q \in Seq(Known \union {NoMem}) /\ Len(q) = Len(hand) + 1
        /\ DOMAIN q = 1 .. Len(hand) + 1
        /\ Elems(q) = Elems(hand) \union {ret'}
    BY <1>7, <1>9, AppendElems
  <2>2. CASE Goes /\ boot = "user"
    <3>1. hand' = q /\ Elems(hand)' = Elems(q) /\ boot' = boot /\ todo' = todo
      BY <2>2 DEF Elems
    <3>2. Len(q) <= 2 /\ Len(todo) = 2
      BY <1>7, <2>1, <2>2
    <3>3. Len(q) = 2 => NoMem \notin Elems(q)
      <4>1. Len(q) = 2 => NoMem \notin {q[1], q[2]}
        BY <1>8, <2>2
      <4>2. Len(q) = 2 => Elems(q) = {q[1], q[2]}
        <5>1. Len(q) = 2 => DOMAIN q = 1 .. 2
          BY <2>1
        <5>2. 1 .. 2 = {1, 2}
          OBVIOUS
        <5>. HIDE DEF q
        <5>. QED
          BY <5>1, <5>2 DEF Elems
      <4>. HIDE DEF q
      <4>. QED
        BY <4>1, <4>2
    <3>4. q \in Seq(Known' \union {NoMem})
      BY <1>4, <2>1
    <3>5. NoMem \in Elems(q) => Known' \subseteq busy'
      <4>1. NoMem \in Elems(q) => NoMem \in Elems(hand) \/ ret' = NoMem
        BY <2>1
      <4>2. ret' = NoMem => Known \subseteq busy
        BY <1>4, PmmAssumption
      <4>3. NoMem \in Elems(hand) => Known \subseteq busy
        BY <1>1, <2>2 DEF HandInv
      <4>. QED
        BY <1>4, <4>1, <4>2, <4>3
    <3>. HIDE DEF q
    <3>. QED
      BY <2>2, <3>1, <3>2, <3>3, <3>4, <3>5 DEF HandInv, ThreadPhases
  <2>3. CASE Goes /\ boot # "user"
    <3>1. hand = <<>> /\ ret' # NoMem
      BY <1>7, <1>8, <2>3
    <3>2. Len(q) = 1 /\ Elems(q) = {ret'} /\ hand' = q /\ Elems(hand)' = Elems(q)
      <4>1. Elems(hand) = {} /\ Len(hand) = 0
        BY <3>1, NoElems
      <4>2. Len(q) = 1 /\ Elems(q) = {ret'}
        BY <2>1, <4>1
      <4>. QED
        BY <2>3, <4>2 DEF Elems
    <3>3. boot' = boot /\ todo' = todo /\ todo # <<>> /\ boot \in FromPmm
      BY <1>2, <1>3, <2>3
    <3>4. q \in Seq(Known' \union {NoMem})
      BY <1>4, <2>1
    <3>. HIDE DEF q
    <3>. QED
      BY <2>3, <3>1, <3>2, <3>3, <3>4 DEF HandInv, ThreadPhases, FromPmm
  <2>4. CASE GivesUp
    <3>1. hand' \in Seq(Known' \union {NoMem}) /\ boot' = "up"
      BY <1>4, <2>1, <2>4
    <3>. QED
      BY <3>1 DEF HandInv, ThreadPhases
  <2>5. CASE Skips
    <3>1. hand' = <<>> /\ boot' = "heap"
      BY <1>7, <2>5 DEF Enter
    <3>2. Elems(hand)' = {}
      BY <3>1, NoElems DEF Elems
    <3>. QED
      BY <3>1, <3>2 DEF HandInv, ThreadPhases
  <2>6. CASE Panics
    <3>1. hand' \in Seq(Known' \union {NoMem}) /\ boot' = "panic"
      BY <1>4, <1>7, <2>6
    <3>. QED
      BY <3>1 DEF HandInv, ThreadPhases
  <2>. QED
    BY <1>8, <2>2, <2>3, <2>4, <2>5, <2>6
<1>. QED
  BY <1>4, <1>5, <1>6, <1>11, <1>12, <1>14, <1>15, <1>16, <1>17 DEF KmainInv, SpaceStep

LEMMA SmokeTestStep ==
  ASSUME KmainInv, SmokeTest
  PROVE  KmainInv' /\ SpaceStep
<1>. DEFINE v == SmokeVA
            p == Map[SmokeVA].pa
<1>1. /\ PoolInv /\ BootInv /\ TableInv /\ HeldInv /\ HandInv /\ TodoInv /\ NextVA /\ SpaceInv /\ TlbInv
  BY DEF KmainInv
<1>2. /\ boot = "smoke" /\ todo = <<>> /\ PmapUnmap(v) /\ PmmFree(PageSize * Lookup(v).pa)
      /\ Enter("heap")
      /\ UNCHANGED <<machine, bitmap, cr3, pd, pgdir, hand, next_thread_va>>
  BY DEF SmokeTest
<1>3. machine \in Machines /\ boot \in Phases /\ "heap" \in Phases /\ "heap" \notin ThreadPhases
      /\ Rank(boot) = 4 /\ Rank("heap") = 5 /\ Live /\ boot \in Places
      /\ "heap" \in Places \ Booting /\ npages_total \in Nat
  BY <1>1, <1>2 DEF BootInv, Phases, ThreadPhases, Rank, Live, Places, Booting, PoolInv
<1>4. v \in VPage /\ v \in Held /\ Held \subseteq VPage
  BY <1>3, Layout
<1>5. Map[v] # None /\ Map[v] = Lookup(v) /\ p = Lookup(v).pa
  BY <1>1, <1>2, <1>3, <1>4, MapTyped DEF TodoInv
<1>6. pd # None /\ pd \in busy /\ DirPages \subseteq busy
  BY <1>1, <1>3 DEF HeldInv, PdPages
<1>7. p \in MapPages /\ p \in busy
  <2>1. p \in MapPages
    BY <1>4, <1>5 DEF MapPages
  <2>. QED
    BY <1>1, <2>1 DEF HeldInv
<1>8. PoolInv' /\ Known' = Known /\ npages_total' = npages_total /\ busy' = busy \ {p}
  BY <1>1, <1>2, <1>5, <1>7, GivesPage
<1>9. /\ Stored(v, None) /\ DirPages' = DirPages
      /\ \E S : S \subseteq VPage /\ tlb' = Invlpg(v, tlb \union Uses(S))
  BY <1>1, <1>2, <1>4, <1>5, <1>6, UnmapEffect
<1>10. TableInv' /\ TlbInv'
  BY <1>1, <1>2, <1>4, <1>9, TlbFollows DEF Stored
<1>11. Map'[v] = None /\ \A u \in VPage : u # v => Map'[u] = Map[u]
  BY <1>9 DEF Stored
<1>12. boot' = "heap" /\ TodoInv'
  BY <1>1, <1>2, <1>3, <1>11, EntersPhase
<1>13. BootInv' /\ EmptyInv' /\ Usable' = Usable
  BY <1>1, <1>2, <1>3, <1>8, <1>12, KeepsBoot
<1>14. SpaceInv'
  <2>1. ThreadVABase .. ThreadVABase + 9 \subseteq VPage
    BY <1>3, Layout
  <2>. QED
    BY <1>1, <1>2, <1>3, <1>11, <1>12, <2>1, SpaceKept
<1>15. HandInv'
  <2>1. hand = <<>> /\ hand' = <<>>
    BY <1>1, <1>2 DEF HandInv
  <2>2. Elems(hand)' = {}
    BY <2>1, NoElems DEF Elems
  <2>. QED
    BY <1>12, <2>1, <2>2 DEF HandInv, ThreadPhases
<1>16. NextVA'
  <2>1. next_thread_va' = ThreadVABase
    BY <1>1, <1>2 DEF NextVA, Rank
  <2>. QED
    BY <1>12, <2>1 DEF NextVA
<1>17. HeldInv'
  <2>1. /\ Known \ busy \subseteq Usable
        /\ busy \intersect Usable = PdPages \union DirPages \union MapPages \union HandPages
    BY <1>1, <1>3 DEF HeldInv, Live, Owned
  <2>2. /\ PdPages \intersect (DirPages \union MapPages \union HandPages) = {}
        /\ DirPages \intersect (MapPages \union HandPages) = {}
        /\ MapPages \intersect HandPages = {} /\ pd \in Nat \union {None}
        /\ \A u, w \in Held : Map[u] # None /\ Map[w] # None /\ Map[u].pa = Map[w].pa => u = w
        /\ \A i, j \in DOMAIN hand : hand[i] = hand[j] /\ hand[i] # NoMem => i = j
    BY <1>1 DEF HeldInv
  <2>3. PdPages' = PdPages /\ HandPages' = HandPages
    BY <1>2 DEF PdPages, HandPages, Elems
  <2>4. MapPages' = MapPages \ {p}
    <3>1. MapPages' = {Map'[u].pa : u \in {w \in Held : Map'[w] # None}}
      BY DEF MapPages, Held
    <3>2. \A u \in Held : u # v => Map'[u] = Map[u]
      BY <1>4, <1>11
    <3>3. \A u \in Held : u # v /\ Map[u] # None => Map[u].pa # p
      BY <1>4, <1>5, <2>2
    <3>. QED
      BY <1>4, <1>11, <3>1, <3>2, <3>3 DEF MapPages
  <2>5. p \notin PdPages \union DirPages \union HandPages /\ p \in Usable /\ p \in Known
    BY <1>1, <1>7, <2>1, <2>2 DEF PoolInv
  <2>6. PdPages' \union DirPages' \union MapPages' \union HandPages' = busy' \intersect Usable'
    BY <1>8, <1>9, <1>13, <2>1, <2>3, <2>4, <2>5
  <2>7. Known' \ busy' \subseteq Usable'
    BY <1>8, <1>13, <2>1, <2>5
  <2>8. PdPages' \intersect (DirPages' \union MapPages' \union HandPages') = {}
    BY <1>9, <2>2, <2>3, <2>4
  <2>9. DirPages' \intersect (MapPages' \union HandPages') = {}
    BY <1>9, <2>2, <2>3, <2>4
  <2>10. MapPages' \intersect HandPages' = {}
    BY <2>2, <2>3, <2>4
  <2>11. \A u, w \in Held : Map'[u] # None /\ Map'[w] # None /\ Map'[u].pa = Map'[w].pa => u = w
    BY <1>4, <1>11, <2>2
  <2>12. PdPages' \union DirPages' \union MapPages' \union HandPages' \subseteq busy' \intersect Usable'
    BY <2>6
  <2>13. hand' = hand /\ pd' = pd /\ pd' # None
    BY <1>2, <1>6
  <2>. QED
    BY <2>2, <2>6, <2>7, <2>8, <2>9, <2>10, <2>11, <2>12, <2>13 DEF HeldInv, Held, Owned, Skipped
<1>18. SpaceStep
  BY <1>4, <1>5, <1>11 DEF SpaceStep, Changes
<1>. QED
  BY <1>8, <1>10, <1>12, <1>13, <1>14, <1>15, <1>16, <1>17, <1>18 DEF KmainInv

LEMMA Stutters ==
  ASSUME KmainInv, UNCHANGED vars
  PROVE  KmainInv' /\ SpaceStep
<1>1. /\ UNCHANGED <<busy, npages_total, npages_free, alloc_cursor, ret, machine, boot, todo, bitmap>>
      /\ UNCHANGED <<cr3, pd, pgdir, tables, tlb, hand, next_thread_va>>
  BY DEF vars, bvars, pvars, mvars
<1>2. Known' = Known /\ RamPages' = RamPages /\ Usable' = Usable
      /\ BitmapFor(npages_total)' = BitmapFor(npages_total)
      /\ \A S : InsideOf(S)' = InsideOf(S) /\ CoveredBy(S)' = CoveredBy(S)
  BY <1>1, SameMachine
<1>3. TableInv' /\ DirPages' = DirPages /\ Map' = Map
  BY <1>1, SameTables DEF KmainInv
<1>4. PoolInv'
  BY <1>1, <1>2 DEF KmainInv, PoolInv
<1>5. InsideOf(Elems(todo))' = InsideOf(Elems(todo)) /\ CoveredBy(Elems(todo))' = CoveredBy(Elems(todo))
  <2>1. Elems(todo)' = Elems(todo)
    BY <1>1 DEF Elems
  <2>. QED
    BY <1>2, <2>1 DEF InsideOf, CoveredBy, Inside, Covering, Span
<1>6. BootInv'
  BY <1>1, <1>2, <1>5 DEF KmainInv, BootInv, Places, Phases, Booting
<1>7. EmptyInv'
  BY <1>1 DEF KmainInv, EmptyInv, Blank, Booting
<1>8. HeldInv'
  <2>1. PdPages' = PdPages /\ HandPages' = HandPages /\ MapPages' = MapPages
    BY <1>1, <1>3 DEF PdPages, HandPages, MapPages, Held, Elems
  <2>. QED
    BY <1>1, <1>2, <1>3, <2>1 DEF KmainInv, HeldInv, Held, Phases, Owned, Skipped
<1>9. HandInv'
  BY <1>1, <1>2 DEF KmainInv, HandInv, Elems, ThreadPhases
<1>10. TodoInv'
  BY <1>1, <1>3 DEF KmainInv, TodoInv, Fits, Elems
<1>11. NextVA'
  BY <1>1 DEF KmainInv, NextVA, Rank
<1>12. SpaceInv'
  BY <1>1, <1>3 DEF KmainInv, SpaceInv, Fits, Rank
<1>13. TlbInv'
  BY <1>1, <1>3, SameTlb DEF KmainInv
<1>. QED
  BY <1>3, <1>4, <1>6, <1>7, <1>8, <1>9, <1>10, <1>11, <1>12, <1>13 DEF KmainInv, SpaceStep

LEMMA KmainStep ==
  ASSUME KmainInv, [KmainNext]_vars
  PROVE  KmainInv' /\ SpaceStep
<1>1. CASE Bootstrap /\ UNCHANGED mvars
  BY <1>1, BootStep
<1>2. CASE PmapInit
  BY <1>2, PmapInitStep
<1>3. CASE TakePage
  BY <1>3, TakePageStep
<1>4. CASE MapNext
  BY <1>4, MapNextStep
<1>5. CASE MapFresh
  BY <1>5, MapFreshStep
<1>6. CASE SmokeTest
  BY <1>6, SmokeTestStep
<1>7. CASE PhaseDone
  BY <1>7, PhaseDoneStep
<1>8. CASE Lcr3
  BY <1>8, Lcr3Step
<1>9. CASE UNCHANGED vars
  BY <1>9, Stutters
<1>. QED
  BY <1>1, <1>2, <1>3, <1>4, <1>5, <1>6, <1>7, <1>8, <1>9 DEF KmainNext

LEMMA KmainHolds == KmainSpec => []KmainInv
<1>1. PmapBootInit => KmainInv
  BY InitStep
<1>2. KmainInv /\ [KmainNext]_vars => KmainInv'
  BY KmainStep
<1>. QED
  BY <1>1, <1>2, PTL DEF KmainSpec

-----------------------------------------------------------------------------
(***************************************************************************)
(* The theorems.                                                           *)
(***************************************************************************)

\* pmm_init() writes the bitmap while the boot loader's data, and the kernel, are
\* still in use: it lies above all of them.
THEOREM BitmapLiesApart == KmainSpec => []BitmapApart
<1>1. ASSUME KmainInv
      PROVE  BitmapApart
  <2>. SUFFICES ASSUME boot \notin {"size", "panic"}, NEW r \in Taken \ {bitmap}
                PROVE  ~ Meets(bitmap, r)
    BY DEF BitmapApart
  <2>1. machine \in Machines /\ npages_total \in Nat /\ bitmap = BitmapFor(npages_total)
        /\ bitmap \in Regions
    BY <1>1 DEF KmainInv, BootInv, PoolInv
  <2>2. BootDataEnd <= bitmap.addr /\ BootDataEnd \in Nat /\ bitmap.addr \in Nat
    BY <2>1, BitmapAbove, BootDataEnds DEF Regions
  <2>3. End(r) \in Nat /\ End(r) <= BootDataEnd
    <3>1. /\ Kernel \in Regions /\ LowEnd \in Nat /\ LowEnd <= Kernel.addr
          /\ machine.mbi \in Regions /\ machine.mods \in Seq(Regions)
      BY <2>1, BootAssumption
    <3>2. \A x \in Regions : End(x) \in Nat
      BY DEF Regions, End
    <3>3. CASE r = Region(0, LowEnd)
      <4>1. End(r) = LowEnd /\ End(Kernel) = Kernel.addr + Kernel.len
            /\ Kernel.addr \in Nat /\ Kernel.len \in Nat
        BY <3>1, <3>3 DEF Region, End, Regions
      <4>2. End(Kernel) <= BootDataEnd
        BY <2>1, BootDataEnds
      <4>. QED
        BY <2>2, <3>1, <4>1, <4>2
    <3>4. CASE r \in {Kernel, machine.mbi}
      BY <2>1, <3>1, <3>2, <3>4, BootDataEnds
    <3>5. ASSUME NEW i \in DOMAIN machine.mods, r = machine.mods[i]
          PROVE  End(r) \in Nat /\ End(r) <= BootDataEnd
      <4>1. machine.mods[i] \in Regions
        BY <3>1, LenProperties
      <4>. QED
        BY <2>1, <3>2, <3>5, <4>1, BootDataEnds
    <3>. QED
      BY <3>3, <3>4, <3>5 DEF Taken
  <2>. QED
    BY <2>2, <2>3 DEF Meets
<1>. QED
  BY <1>1, KmainHolds, PTL

\* Every change of a mapping the CPU may have cached is followed by invlpg() or by
\* lcr3(): the TLB never disagrees with the tables.
THEOREM TlbStaysRight == KmainSpec => []TlbAgrees
<1>1. ASSUME KmainInv
      PROVE  TlbAgrees
  <2>1. CASE cr3 = "boot"
    BY <1>1, <2>1 DEF KmainInv, TlbInv, TlbAgrees, Walk
  <2>2. CASE cr3 = "own"
    <3>1. ASSUME NEW c \in tlb
          PROVE  Walk(c[1]) = c[2]
      <4>1. c[1] \in VPage /\ Map[c[1]] = c[2]
        BY <1>1, <2>2 DEF KmainInv, TlbInv
      <4>2. Map[c[1]] = Lookup(c[1])
        BY <4>1 DEF Map
      <4>. QED
        BY <2>2, <4>1, <4>2 DEF Walk
    <3>. QED
      BY <3>1 DEF TlbAgrees
  <2>. QED
    BY <1>1, <2>1, <2>2 DEF KmainInv, TlbInv
<1>. QED
  BY <1>1, KmainHolds, PTL

\* thread_stack_alloc() leaves a page out below every stack and nothing ever maps it,
\* nor the page above, nor page 0.
THEOREM GuardPagesStay == KmainSpec => []GuardPages
<1>1. ASSUME KmainInv
      PROVE  GuardPages
  <2>1. machine \in Machines /\ ThreadVABase \in Nat
    BY <1>1, PmapAssumption DEF KmainInv, BootInv
  <2>2. \A v \in VPage : Map[v] = Lookup(v)
    BY DEF Map
  <2>3. ASSUME NEW v \in VPage, Map[v] # None
        PROVE  \E x \in Phases : v \in Area(x, machine) /\
                 (x \in ThreadPhases => v \in {ThreadVABase + 1, ThreadVABase + 4, ThreadVABase + 7})
    BY <1>1, <2>3 DEF KmainInv, SpaceInv, Fits
  <2>4. Lookup(0) = None
    <3>1. 0 \in VPage
      <4>1. Dirs \in Nat \ {0} /\ Slots \in Nat \ {0}
        BY PmapAssumption
      <4>2. Dirs * Slots \in Nat /\ Dirs * Slots > 0
        BY <4>1
      <4>. QED
        BY <4>2 DEF VPage
    <3>. QED
      BY <2>1, <2>2, <2>3, <3>1, Layout
  <2>5. ThreadVABase .. ThreadVABase + 9 \subseteq VPage
    BY <2>1, Layout
  <2>6. ASSUME NEW v \in ThreadVABase .. ThreadVABase + 9, Map[v] # None
        PROVE  v \in {ThreadVABase + 1, ThreadVABase + 4, ThreadVABase + 7}
    <3>1. PICK x \in Phases : v \in Area(x, machine) /\
                 (x \in ThreadPhases => v \in {ThreadVABase + 1, ThreadVABase + 4, ThreadVABase + 7})
      BY <2>3, <2>5, <2>6
    <3>2. v \in Held
      BY <2>1, Layout
    <3>3. x \in FromPmm
      BY <2>1, <3>1, <3>2, HeldAreas
    <3>4. x \notin {"smoke", "heap", "user"}
      BY <2>1, <3>1, HeldAreas
    <3>. QED
      BY <2>1, <3>1, <3>3, <3>4, HeldAreas
  <2>7. next_thread_va \in {ThreadVABase, ThreadVABase + 3, ThreadVABase + 6, ThreadVABase + 9}
    BY <1>1 DEF KmainInv, NextVA
  <2>8. ASSUME NEW v \in ThreadVABase .. next_thread_va - 1, Lookup(v) # None
        PROVE  v > ThreadVABase /\ Lookup(v - 1) = None /\ Lookup(v + 1) = None
    <3>1. v \in ThreadVABase .. ThreadVABase + 9
      BY <2>1, <2>7
    <3>2. v \in {ThreadVABase + 1, ThreadVABase + 4, ThreadVABase + 7}
      BY <2>2, <2>5, <2>6, <2>8, <3>1
    <3>3. /\ v - 1 \in ThreadVABase .. ThreadVABase + 9 /\ v + 1 \in ThreadVABase .. ThreadVABase + 9
          /\ v - 1 \notin {ThreadVABase + 1, ThreadVABase + 4, ThreadVABase + 7}
          /\ v + 1 \notin {ThreadVABase + 1, ThreadVABase + 4, ThreadVABase + 7}
          /\ v > ThreadVABase
      BY <2>1, <3>2
    <3>4. Map[v - 1] = None /\ Map[v + 1] = None
      BY <2>6, <3>3
    <3>. QED
      BY <2>2, <2>5, <3>3, <3>4
  <2>. QED
    BY <2>4, <2>8 DEF GuardPages
<1>. QED
  BY <1>1, KmainHolds, PTL

\* kmain() maps a page that is not mapped and unmaps one that is, one at a time:
\* pmap.c implements the function from pages to mappings that vmm.h promises.
THEOREM SpaceImplemented == KmainSpec => ImplementsSpace
<1>1. PmapBootInit => Space!Init
  <2>. SUFFICES ASSUME PmapBootInit PROVE Space!Init
    OBVIOUS
  <2>1. pgdir = [d \in 0 .. Dirs - 1 |-> None]
    BY DEF PmapBootInit
  <2>2. \A v \in VPage : Lookup(v) = None
    BY <2>1, Entered DEF Lookup
  <2>. QED
    BY <2>2 DEF Space!Init
<1>2. KmainInv /\ [KmainNext]_vars => [Space!Next]_([v \in VPage |-> Lookup(v)])
  <2>. SUFFICES ASSUME KmainInv, [KmainNext]_vars
                PROVE  [Space!Next]_([v \in VPage |-> Lookup(v)])
    OBVIOUS
  <2>1. SpaceStep
    BY KmainStep
  <2>2. CASE Map' = Map
    BY <2>2 DEF Map
  <2>3. ASSUME NEW v \in VPage, Changes(v)
        PROVE  Space!Next
    <3>1. (Map[v] = None <=> Map'[v] # None) /\ \A u \in VPage \ {v} : Map'[u] = Map[u]
      BY <2>3 DEF Changes
    <3>2. CASE Map[v] = None
      <4>1. Space!Map(v)
        BY <3>1, <3>2 DEF Space!Map, Space!Only, Map
      <4>. QED
        BY <4>1 DEF Space!Next
    <3>3. CASE Map[v] # None
      <4>1. Space!Unmap(v)
        BY <3>1, <3>3 DEF Space!Unmap, Space!Only, Map
      <4>. QED
        BY <4>1 DEF Space!Next
    <3>. QED
      BY <3>2, <3>3
  <2>. QED
    BY <2>1, <2>2, <2>3 DEF SpaceStep
<1>. QED
  BY <1>1, <1>2, KmainHolds, PTL DEF KmainSpec, ImplementsSpace, Space!Spec

\* A page whose bytes the kernel or the boot loader uses is not given out.
LEMMA NotUsable ==
  ASSUME machine \in Machines, npages_total \in Nat, NEW r \in Taken, r \in Regions, r.len > 0,
         NEW p \in Usable
  PROVE  p \notin Pages(r)
<1>1. p \in Known /\ p \in Nat /\ ~ Meets(PageRegion(p), r)
  BY DEF Usable, Known
<1>2. r.addr \in Nat /\ r.len \in Nat /\ End(r) \in Nat
  BY DEF Regions, End
<1>3. RoundDown(r.addr) \in Nat /\ RoundUp(End(r)) \in Nat
  BY <1>2, Rounding
<1>4. p \in Pages(r) <=> RoundDown(r.addr) <= p /\ p < RoundUp(End(r))
  <2>. DEFINE a == RoundDown(r.addr)
              e == RoundUp(End(r))
  <2>1. Pages(r) = a .. e - 1
    BY DEF Pages
  <2>2. a \in Nat /\ e \in Nat
    BY <1>3
  <2>. HIDE DEF a, e
  <2>3. p \in Pages(r) <=> a <= p /\ p < e
    BY <1>1, <2>1, <2>2
  <2>. QED
    BY <2>3 DEF a, e
<1>5. PageSize \in Nat /\ PageSize > 0
  BY PmmAssumption
<1>6. RoundDown(r.addr) <= p /\ p < RoundUp(End(r))
      <=> r.addr < PageSize * p + PageSize /\ PageSize * p < End(r)
  BY <1>1, <1>2, PagesCovering
<1>7. Meets(PageRegion(p), r) <=> r.addr < PageSize * p + PageSize /\ PageSize * p < End(r)
  BY <1>5 DEF Meets, PageRegion, Region, End
<1>. QED
  BY <1>1, <1>4, <1>6, <1>7

\* A region that starts and ends with a page and has no page has no bytes either.
LEMMA BitmapPages ==
  ASSUME KmainInv, NEW p \in Usable
  PROVE  p \notin Pages(bitmap)
<1>1. machine \in Machines /\ npages_total \in Nat /\ bitmap \in Regions /\ bitmap \in Taken
  BY DEF KmainInv, BootInv, PoolInv, Taken
<1>2. PageSize \in Nat \ {0} /\ p \in Nat
  BY PmmAssumption DEF Usable, Known
<1>3. CASE bitmap.len > 0
  BY <1>1, <1>3, NotUsable
<1>4. CASE ~ (bitmap.len > 0)
  <2>1. bitmap.len = 0 /\ bitmap.addr \in Nat
    BY <1>1, <1>4 DEF Regions
  <2>2. PICK k \in Nat : bitmap.addr = PageSize * k
    <3>1. CASE bitmap = Region(0, 0)
      <4>1. bitmap.addr = PageSize * 0
        BY <1>2, <3>1 DEF Region
      <4>. QED
        BY <4>1
    <3>2. CASE bitmap = BitmapFor(npages_total)
      <4>1. bitmap.addr = PageSize * RoundUp(BootDataEnd)
        BY <1>1, <3>2, BitmapAbove
      <4>2. RoundUp(BootDataEnd) \in Nat
        BY <1>1, BootDataEnds, Rounding
      <4>. QED
        BY <4>1, <4>2
    <3>. QED
      BY <3>1, <3>2 DEF KmainInv, BootInv
  <2>3. End(bitmap) = PageSize * k
    BY <1>2, <2>1, <2>2 DEF End
  <2>4. RoundDown(PageSize * k) = k
    BY PageOfItsAddress
  <2>5. RoundUp(PageSize * k) \in Nat /\ PageSize * RoundUp(PageSize * k) < PageSize * k + PageSize
        /\ PageSize * k \in Nat
    BY <1>2, Rounding
  <2>6. RoundUp(PageSize * k) <= k
    <3>. DEFINE u == RoundUp(PageSize * k)
    <3>1. u \in Nat /\ PageSize * u < PageSize * (k + 1)
      <4>1. PageSize * (k + 1) = PageSize * k + PageSize
        BY <1>2
      <4>. QED
        BY <2>5, <4>1
    <3>. HIDE DEF u
    <3>2. u < k + 1
      BY <1>2, <3>1, Factors
    <3>3. u <= k
      BY <3>1, <3>2
    <3>. QED
      BY <3>3 DEF u
  <2>7. Pages(bitmap) = k .. RoundUp(PageSize * k) - 1
    BY <2>2, <2>3, <2>4 DEF Pages
  <2>. QED
    BY <1>2, <2>5, <2>6, <2>7
<1>. QED
  BY <1>3, <1>4

\* Whatever kmain() maps, ring 3 sees its own two pages only, its code without write
\* permission, and their frames are nobody else's.
THEOREM UserIsConfined == KmainSpec => []UserConfined
<1>1. ASSUME KmainInv
      PROVE  UserConfined
  <2>. DEFINE mapped == {v \in VPage : Lookup(v) # None}
              user == {v \in mapped : "USER" \in Lookup(v).flags}
  <2>1. machine \in Machines /\ npages_total \in Nat /\ TableInv /\ HeldInv /\ SpaceInv
    BY <1>1 DEF KmainInv, BootInv, PoolInv
  <2>2. \A v \in VPage : Map[v] = Lookup(v)
    BY DEF Map
  <2>3. UserCodeVA # UserStackVA /\ UserCodeVA \in Held /\ UserStackVA \in Held /\ Held \subseteq VPage
    BY <2>1, PmapAssumption, Layout
  <2>4. ASSUME NEW v \in mapped
        PROVE  /\ \E x \in Phases : Fits(x, v, Lookup(v).pa, Lookup(v).flags)
               /\ Lookup(v).flags = CASE v = UserCodeVA -> {"USER"}
                                      [] v = UserStackVA -> {"RW", "USER"}
                                      [] OTHER -> {"RW"}
    <3>1. \E x \in Phases : Fits(x, v, Lookup(v).pa, Lookup(v).flags)
      BY <2>1, <2>2, <2>4 DEF SpaceInv
    <3>. QED
      BY <3>1 DEF Fits
  <2>5. ASSUME NEW v \in user
        PROVE  v \in {UserCodeVA, UserStackVA}
    <3>1. "USER" \in Lookup(v).flags
      OBVIOUS
    <3>. QED
      BY <2>4, <3>1
  <2>6. UserCodeVA \in mapped => Lookup(UserCodeVA).flags = {"USER"}
    BY <2>3, <2>4
  <2>7. ASSUME NEW v \in user
        PROVE  /\ v \in Held /\ Map[v] # None /\ Map[v] = Lookup(v)
               /\ Lookup(v).pa \in MapPages /\ Lookup(v).pa \in Usable
    <3>1. v \in Held /\ Map[v] # None /\ Map[v] = Lookup(v)
      BY <2>2, <2>3, <2>5
    <3>2. Lookup(v).pa \in MapPages
      BY <3>1 DEF MapPages
    <3>. QED
      BY <2>1, <3>1, <3>2 DEF HeldInv
  <2>8. ASSUME NEW v \in user, NEW u \in mapped \ {v}, Lookup(u).pa = Lookup(v).pa
        PROVE  u = Lookup(u).pa
    <3>1. PICK x \in Phases : Fits(x, u, Lookup(u).pa, Lookup(u).flags)
      BY <2>4
    <3>2. CASE x \in {"low", "fb"}
      BY <3>1, <3>2 DEF Fits
    <3>3. CASE x = "kernel"
      <4>1. Lookup(u).pa \in KernelPages
        BY <3>1, <3>3 DEF Fits
      <4>2. Kernel \in Regions /\ Kernel.len > 0 /\ Kernel \in Taken
        BY BootAssumption DEF Taken
      <4>3. KernelPages = Pages(Kernel)
        BY DEF KernelPages, Pages
      <4>4. Lookup(v).pa \in Usable
        BY <2>7
      <4>5. Lookup(v).pa \notin Pages(Kernel)
        BY <2>1, <4>2, <4>4, NotUsable
      <4>. QED
        BY <2>8, <4>1, <4>3, <4>5
    <3>4. CASE x \notin {"low", "fb", "kernel"}
      <4>1. x \in FromPmm
        BY <3>4 DEF Phases, FromPmm, ThreadPhases
      <4>2. u \in Held
        BY <2>1, <3>1, <4>1, HeldAreas DEF Fits
      <4>3. Map[u] # None /\ Map[u] = Lookup(u)
        BY <2>2
      <4>4. Map[u].pa = Map[v].pa
        BY <2>7, <2>8, <4>3
      <4>5. u = v
        BY <2>1, <2>7, <4>2, <4>3, <4>4 DEF HeldInv
      <4>. QED
        BY <4>5
    <3>. QED
      BY <3>2, <3>3, <3>4
  <2>9. ASSUME NEW v \in user
        PROVE  Lookup(v).pa \notin TablePages \union {pd} \union Pages(bitmap)
    <3>1. Lookup(v).pa \in MapPages /\ Lookup(v).pa \in Usable
      BY <2>7
    <3>2. TablePages = DirPages
      BY <2>1 DEF TablePages, TableInv
    <3>3. Lookup(v).pa \notin Pages(bitmap)
      BY <1>1, <3>1, BitmapPages
    <3>4. Lookup(v).pa # pd
      <4>1. Lookup(v).pa # None
        BY <3>1, PmapAssumption DEF Usable, Known
      <4>. QED
        BY <2>1, <3>1, <4>1 DEF HeldInv, PdPages
    <3>. QED
      BY <2>1, <3>1, <3>2, <3>3, <3>4 DEF HeldInv
  <2>. HIDE DEF user, mapped
  <2>10. /\ user \subseteq {UserCodeVA, UserStackVA}
         /\ "RW" \notin (IF UserCodeVA \in mapped THEN Lookup(UserCodeVA).flags ELSE {})
         /\ \A v \in user : \A u \in mapped \ {v} : Lookup(u).pa = Lookup(v).pa => u = Lookup(u).pa
         /\ \A v \in user : Lookup(v).pa \notin TablePages \union {pd} \union Pages(bitmap)
    BY <2>5, <2>6, <2>8, <2>9
  <2>. QED
    BY <2>10 DEF UserConfined, user, mapped
<1>. QED
  BY <1>1, KmainHolds, PTL

\* A set with no two members has one member or none.
LEMMA AtMostOne ==
  ASSUME NEW S, \A a, b \in S : a = b
  PROVE  Cardinality(S) = IF S = {} THEN 0 ELSE 1
<1>1. CASE S = {}
  BY <1>1, FS_EmptySet
<1>2. CASE S # {}
  <2>1. PICK a \in S : TRUE
    BY <1>2
  <2>2. S = {a}
    BY <2>1
  <2>. QED
    BY <1>2, <2>2, FS_Singleton
<1>. QED
  BY <1>1, <1>2

\* What kmain() may have mapped and pmm_alloc() has given lies below the next guard page.
LEMMA PrivatePages ==
  ASSUME KmainInv
  PROVE  /\ Private \subseteq Held
         /\ \A v \in Held : Map[v] # None => v \in Private
<1>1. next_thread_va \in {ThreadVABase, ThreadVABase + 3, ThreadVABase + 6, ThreadVABase + 9}
      /\ ThreadVABase \in Nat
  BY PmapAssumption DEF KmainInv, NextVA
<1>2. ThreadVABase .. next_thread_va \subseteq ThreadVABase .. ThreadVABase + 9
  BY <1>1
<1>3. ASSUME NEW v \in ThreadVABase .. ThreadVABase + 9, Map[v] # None
      PROVE  v \in ThreadVABase .. next_thread_va
  <2>1. v < next_thread_va
    BY <1>3 DEF KmainInv, SpaceInv
  <2>. QED
    BY <1>1, <2>1
<1>. QED
  BY <1>2, <1>3 DEF Private, Held

\* What HeldInv says of the pages without an owner.
LEMMA OwnersSuffice ==
  ASSUME HeldInv, boot \notin {"size", "free", "reserve", "panic"}, Usable \subseteq Known,
         machine \in Machines,
         \A p \in Known : /\ Owners(p) = IF p \in Owned THEN 1 ELSE 0
                          /\ p \in Owned => p \in Usable /\ p \in busy
  PROVE  OwnedOnce
<1>1. Lost = (Usable \intersect busy) \ Owned
  BY DEF Lost
<1>2. CASE busy \intersect Usable = Owned
  BY <1>1, <1>2 DEF OwnedOnce
<1>3. ASSUME boot = "up", Skipped, NEW x, busy \intersect Usable = Owned \union {x}
      PROVE  OwnedOnce
  <2>1. Map[UserCodeVA] = Lookup(UserCodeVA)
    BY Layout DEF Map
  <2>2. \A p, q \in Lost : p = q
    BY <1>1, <1>3
  <2>3. \A p \in Known : Owners(p) = 0 \/ (Owners(p) = 1 /\ p \in Usable /\ p \in busy)
    OBVIOUS
  <2>. QED
    BY <1>3, <2>1, <2>2, <2>3 DEF Skipped, OwnedOnce
<1>. QED
  BY <1>2, <1>3 DEF HeldInv

\* No page ever has two owners and only usable pages are given out, on every path
\* through kmain(); one page is lost at most, when memory ends between the two of the
\* user task.
THEOREM PagesOwnedOnce == KmainSpec => []OwnedOnce
<1>1. ASSUME KmainInv
      PROVE  OwnedOnce
  <2>. SUFFICES ASSUME boot \notin {"size", "free", "reserve", "panic"}
                PROVE  /\ \A p \in Known : /\ Owners(p) = IF p \in Owned THEN 1 ELSE 0
                                           /\ p \in Owned => p \in Usable /\ p \in busy
                       /\ HeldInv
    <3>1. Usable \subseteq Known /\ machine \in Machines
      BY <1>1 DEF Usable, KmainInv, BootInv
    <3>. HIDE DEF Owned, Owners
    <3>. QED
      BY <3>1, OwnersSuffice DEF OwnedOnce
  <2>. SUFFICES ASSUME NEW p \in Known
                PROVE  /\ Owners(p) = IF p \in Owned THEN 1 ELSE 0
                       /\ p \in Owned => p \in Usable /\ p \in busy
    BY <1>1 DEF KmainInv
  <2>. DEFINE A == {i \in {1} : pd = p}
              B == {d \in DOMAIN pgdir : pgdir[d] = p}
              C == {v \in Private : Lookup(v) # None /\ Lookup(v).pa = p}
              D == {i \in DOMAIN hand : hand[i] = p}
  <2>1. machine \in Machines /\ TableInv /\ HeldInv /\ HandInv
    BY <1>1 DEF KmainInv, BootInv
  <2>2. p # None /\ p # NoMem
    BY PmapAssumption, PmmAssumption DEF Known
  <2>3. Held \subseteq VPage
    BY <2>1, Layout
  <2>4. Private \subseteq Held /\ \A v \in Held : Map[v] # None => v \in Private
    BY <1>1, PrivatePages
  <2>5. \A v \in VPage : Map[v] = Lookup(v)
    BY DEF Map
  <2>6. (A # {} <=> p \in PdPages) /\ \A i, j \in A : i = j
    BY <2>2 DEF PdPages
  <2>7. (B # {} <=> p \in DirPages) /\ \A i, j \in B : i = j
    BY <2>1, <2>2 DEF DirPages, TableInv
  <2>8. (C # {} <=> p \in MapPages) /\ \A i, j \in C : i = j
    <3>1. C = {v \in Held : Map[v] # None /\ Map[v].pa = p}
      BY <2>3, <2>4, <2>5
    <3>2. C # {} <=> p \in MapPages
      BY <3>1 DEF MapPages
    <3>3. \A i, j \in C : i = j
      BY <2>1, <3>1 DEF HeldInv
    <3>. QED
      BY <3>2, <3>3
  <2>9. (D # {} <=> p \in HandPages) /\ \A i, j \in D : i = j
    BY <2>1, <2>2 DEF HandPages, Elems, HeldInv
  <2>10. Owners(p) = Cardinality(A) + Cardinality(B) + Cardinality(C) + Cardinality(D)
    BY DEF Owners
  <2>. HIDE DEF A, B, C, D
  <2>11. /\ Cardinality(A) = (IF p \in PdPages THEN 1 ELSE 0)
         /\ Cardinality(B) = (IF p \in DirPages THEN 1 ELSE 0)
         /\ Cardinality(C) = (IF p \in MapPages THEN 1 ELSE 0)
         /\ Cardinality(D) = (IF p \in HandPages THEN 1 ELSE 0)
    BY <2>6, <2>7, <2>8, <2>9, AtMostOne
  <2>12. /\ p \in Owned <=>
              p \in PdPages \/ p \in DirPages \/ p \in MapPages \/ p \in HandPages
         /\ p \in Owned => p \in Usable /\ p \in busy
    BY <2>1 DEF HeldInv, Owned
  <2>13. /\ ~ (p \in PdPages /\ (p \in DirPages \/ p \in MapPages \/ p \in HandPages))
         /\ ~ (p \in DirPages /\ (p \in MapPages \/ p \in HandPages))
         /\ ~ (p \in MapPages /\ p \in HandPages)
    BY <2>1 DEF HeldInv
  <2>. QED
    BY <2>10, <2>11, <2>12, <2>13
<1>. QED
  BY <1>1, KmainHolds, PTL

-----------------------------------------------------------------------------
(***************************************************************************)
(* What the kernel reaches through physical addresses.                     *)
(***************************************************************************)

\* What each of the first three phases has mapped when it is over.
Due(phase) ==
  CASE phase = "low" -> 1 .. Smaller(npages_total, PmapLowEnd) - 1
    [] phase = "kernel" -> {KernBase + p : p \in KernelPages}
    [] phase = "fb" -> FbPages(machine.fb)
DuePhases == {"low", "kernel", "fb"}

\* A page that is due is mapped, or still in the list of its phase.
Mapped(phase) ==
  \A v \in Due(phase) : Map[v] # None \/ (boot = phase /\ \E j \in Elems(todo) : j.va = v)

ReachInv ==
  /\ boot # "panic" => (cr3 = "own" <=> Rank(boot) >= Rank("fb"))
  /\ boot \notin {"size", "panic"} => End(bitmap) <= PageSize * npages_total
  /\ boot \notin Booting \union {"panic"} =>
       \A x \in DuePhases : Rank(x) <= Rank(boot) => Mapped(x)

\* The lists are complete: every page that is due has its job.
LEMMA DueListed ==
  ASSUME machine \in Machines, npages_total \in Nat, NEW x \in DuePhases, NEW v \in Due(x)
  PROVE  v \in VPage /\ v \in Area(x, machine) /\ \E j \in Elems(Jobs(x)) : j.va = v
<1>1. DuePhases \subseteq Phases /\ \A u \in Area(x, machine) : u \in VPage
  BY Layout DEF DuePhases, Phases
<1>2. CASE x = "low"
  <2>. DEFINE n == Smaller(npages_total, PmapLowEnd) - 1
              q == LowJobs
  <2>1. n \in Int /\ n <= PmapLowEnd - 1 /\ PmapLowEnd \in Nat
    BY PmapAssumption DEF Smaller
  <2>2. v \in 1 .. n
    BY <1>2 DEF Due
  <2>3. q = [i \in 1 .. n |-> Job(i, i, {"RW"})]
    BY DEF LowJobs
  <2>. HIDE DEF n, q
  <2>4. v \in DOMAIN q /\ q[v].va = v
    BY <2>2, <2>3 DEF Job
  <2>5. v \in Area(x, machine)
    BY <1>2, <2>1, <2>2 DEF Area
  <2>6. Jobs(x) = q
    BY <1>2 DEF Jobs, q
  <2>. QED
    BY <1>1, <2>4, <2>5, <2>6 DEF Elems
<1>3. CASE x = "kernel"
  <2>. DEFINE a == RoundDown(Kernel.addr)
              e == RoundUp(End(Kernel))
              n == Cardinality(KernelPages)
              q == KernelJobs
  <2>1. PICK p \in KernelPages : v = KernBase + p
    BY <1>3 DEF Due
  <2>2. a \in Nat /\ e \in Nat /\ KernBase \in Nat
    <3>1. Kernel.addr \in Nat /\ End(Kernel) \in Nat
      BY BootAssumption DEF Regions, End
    <3>. QED
      BY <3>1, Rounding, PmapAssumption
  <2>3. KernelPages = a .. e - 1
    BY DEF KernelPages
  <2>4. q = [i \in 1 .. n |-> Job(KernBase + a + i - 1, a + i - 1, {"RW"})]
    BY DEF KernelJobs
  <2>. HIDE DEF a, e, q
  <2>5. n = IF a > e - 1 THEN 0 ELSE (e - 1) - a + 1
    BY <2>2, <2>3, FS_Interval
  <2>. HIDE DEF n
  <2>6. p - a + 1 \in 1 .. n /\ KernBase + a + (p - a + 1) - 1 = v
    BY <2>1, <2>2, <2>3, <2>5
  <2>7. p - a + 1 \in DOMAIN q /\ q[p - a + 1].va = v
    BY <2>4, <2>6 DEF Job
  <2>8. v \in Area(x, machine)
    BY <1>3, <2>1 DEF Area
  <2>9. Jobs(x) = q
    BY <1>3 DEF Jobs, q
  <2>. QED
    BY <1>1, <2>7, <2>8, <2>9 DEF Elems
<1>4. CASE x = "fb"
  <2>. DEFINE fb == machine.fb
              a == RoundDown(fb.addr)
              e == RoundUp(End(fb))
              q == FbJobs
  <2>1. v \in FbPages(fb) /\ fb # None
    BY <1>4 DEF Due, FbPages
  <2>2. /\ a \in Nat /\ e \in Nat /\ FbPages(fb) = a .. e - 1
        /\ q = [i \in 1 .. e - a |-> Job(a + i - 1, a + i - 1, {"RW"})]
    BY <2>1, FbList
  <2>. HIDE DEF a, e, q
  <2>3. v - a + 1 \in 1 .. e - a /\ a + (v - a + 1) - 1 = v
    BY <2>1, <2>2
  <2>4. v - a + 1 \in DOMAIN q /\ q[v - a + 1].va = v
    BY <2>2, <2>3 DEF Job
  <2>5. v \in Area(x, machine)
    BY <1>4, <2>1 DEF Area
  <2>6. Jobs(x) = q
    BY <1>4 DEF Jobs, q
  <2>. QED
    BY <1>1, <2>4, <2>5, <2>6 DEF Elems
<1>. QED
  BY <1>2, <1>3, <1>4 DEF DuePhases

LEMMA DueSame ==
  ASSUME machine' = machine, npages_total' = npages_total
  PROVE  \A x : Due(x)' = Due(x)
BY DEF Due

\* A step within a phase: what leaves the list is mapped.
LEMMA StaysDue ==
  ASSUME machine \in Machines, npages_total \in Nat, ReachInv, boot \in Phases, boot' = boot,
         UNCHANGED <<machine, bitmap, npages_total, cr3>>,
         \A v \in VPage : Map[v] # None => Map'[v] # None,
         boot \in DuePhases =>
           \A j \in Elems(todo) : j \in Elems(todo') \/ Map'[j.va] # None
  PROVE  ReachInv'
<1>1. boot \notin Booting \union {"panic", "size"}
  BY DEF Phases, Booting
<1>2. ASSUME NEW x \in DuePhases, Rank(x) <= Rank(boot)
      PROVE  Mapped(x)'
  <2>1. Mapped(x)
    BY <1>1, <1>2 DEF ReachInv
  <2>2. Elems(todo)' = Elems(todo')
    BY DEF Elems
  <2>3. ASSUME NEW v \in Due(x)
        PROVE  Map'[v] # None \/ (boot' = x /\ \E j \in Elems(todo)' : j.va = v)
    <3>1. CASE Map[v] # None
      BY <3>1, DueListed
    <3>2. CASE boot = x /\ \E j \in Elems(todo) : j.va = v
      BY <2>2, <3>2
    <3>. QED
      BY <2>1, <3>1, <3>2 DEF Mapped
  <2>. QED
    BY <2>3, DueSame DEF Mapped
<1>3. \A x : Rank(x)' = Rank(x)
  BY DEF Rank
<1>. QED
  BY <1>1, <1>2, <1>3 DEF ReachInv, DuePhases, Booting

\* A step to the next phase: the list of the one before is empty.
LEMMA MovesDue ==
  ASSUME machine \in Machines, npages_total \in Nat, ReachInv, boot \notin {"size", "panic"},
         NEW phase \in Places \ Booting, Enter(phase),
         UNCHANGED <<machine, bitmap, npages_total>>,
         cr3' = "own" <=> Rank(phase) >= Rank("fb"),
         \A x \in DuePhases : Rank(x) <= Rank(phase) =>
           x = phase \/ (boot \notin Booting /\ Rank(x) <= Rank(boot) /\ (boot = x => todo = <<>>)),
         \A x \in DuePhases : \A v \in Due(x) : Map[v] # None => Map'[v] # None
  PROVE  ReachInv'
<1>1. boot' = phase /\ todo' = Jobs(phase)
  BY DEF Enter
<1>2. ASSUME NEW x \in DuePhases, Rank(x) <= Rank(phase)
      PROVE  Mapped(x)'
  <2>1. Elems(todo)' = Elems(todo')
    BY DEF Elems
  <2>2. ASSUME NEW v \in Due(x)
        PROVE  Map'[v] # None \/ (boot' = x /\ \E j \in Elems(todo)' : j.va = v)
    <3>1. CASE x = phase
      BY <1>1, <2>1, <3>1, DueListed
    <3>2. CASE boot \notin Booting /\ Rank(x) <= Rank(boot) /\ (boot = x => todo = <<>>)
      <4>1. Map[v] # None \/ (boot = x /\ \E j \in Elems(todo) : j.va = v)
        BY <3>2 DEF ReachInv, Mapped
      <4>2. Map[v] # None
        BY <3>2, <4>1, NoElems
      <4>. QED
        BY <4>2
    <3>. QED
      BY <1>2, <3>1, <3>2
  <2>. QED
    BY <2>2, DueSame DEF Mapped
<1>3. \A x : Rank(x)' = Rank(x)
  BY DEF Rank
<1>. QED
  BY <1>1, <1>2, <1>3 DEF ReachInv, DuePhases, Booting

\* None of the pages of the first phases is the page of the test of vmm_map().
LEMMA DueKept ==
  ASSUME machine \in Machines, npages_total \in Nat, \A u \in VPage : u # SmokeVA => Map'[u] = Map[u]
  PROVE  \A x \in DuePhases : \A v \in Due(x) : Map[v] # None => Map'[v] # None
<1>1. "smoke" \in Phases /\ "smoke" \notin DuePhases /\ DuePhases \subseteq Phases
      /\ Area("smoke", machine) = {SmokeVA}
  BY Layout DEF Phases, DuePhases
<1>2. ASSUME NEW x \in DuePhases, NEW v \in Due(x)
      PROVE  v \in VPage /\ v # SmokeVA
  <2>1. v \in VPage /\ v \in Area(x, machine)
    BY <1>2, DueListed
  <2>2. Area(x, machine) \intersect Area("smoke", machine) = {}
    BY <1>1, Layout
  <2>. QED
    BY <1>1, <2>1, <2>2
<1>. QED
  BY <1>2

LEMMA RankOrder ==
  /\ Rank("low") = 1 /\ Rank("kernel") = 2 /\ Rank("lcr3") = 2 /\ Rank("fb") = 3
  /\ \A x \in Booting : Rank(x) = 0
  /\ \A x \in {"smoke", "heap", "thread_a", "thread_b", "user", "thread_u", "up", "panic"} :
       Rank(x) \in 4 .. 10
BY DEF Rank, Booting

\* The bitmap was laid out to end within the pages that are counted.
LEMMA SizeReaches ==
  ASSUME KmainInv, Bootstrap, UNCHANGED mvars, ReachInv
  PROVE  ReachInv'
<1>1. PoolInv /\ BootInv /\ KmainInv' /\ machine \in Machines
  BY BootStep DEF KmainInv, BootInv
<1>2. boot' \in Booting \union {"panic"} /\ boot \in Booting
  BY DEF Bootstrap, Size, FreeEntry, FreeDone, ReserveEntry, ReserveDone, Booting
<1>3. CASE boot' = "panic"
  BY <1>3 DEF ReachInv
<1>4. CASE boot' # "panic"
  <2>1. cr3' = "boot" /\ Rank(boot') = 0 /\ boot' \in Booting
    <3>1. EmptyInv'
      BY <1>1 DEF KmainInv
    <3>2. boot' \in Booting
      BY <1>2, <1>4
    <3>. QED
      BY <3>1, <3>2, RankOrder DEF EmptyInv, Blank, Booting
  <2>2. (End(bitmap) <= PageSize * npages_total)'
    <3>1. CASE Size
      <4>. DEFINE n == RoundUp(MaxAvailable)
      <4>1. bitmap' = BitmapFor(n) /\ npages_total' = n /\ ~ (End(BitmapFor(n)) > MaxAvailable)
        BY <1>4, <3>1 DEF Size, PmmInit
      <4>2. MaxAvailable \in Nat /\ n \in Nat /\ MaxAvailable <= PageSize * n
        BY <1>1, RamEnds, Rounding
      <4>3. BitmapFor(n) \in Regions
        BY <1>1, <4>2, BitmapAbove
      <4>4. End(BitmapFor(n)) \in Nat
        BY <4>3 DEF Regions, End
      <4>5. PageSize * n \in Nat
        BY <4>2, PmmAssumption
      <4>6. End(bitmap)' = End(BitmapFor(n))
        BY <4>1 DEF End
      <4>. HIDE DEF n
      <4>7. (PageSize * npages_total)' = PageSize * n
        BY <4>1
      <4>. QED
        BY <4>1, <4>2, <4>4, <4>5, <4>6, <4>7
    <3>2. CASE ~ Size
      <4>1. boot # "size" /\ UNCHANGED <<bitmap, npages_total>>
        BY <3>2 DEF Bootstrap, FreeEntry, FreeDone, ReserveEntry, ReserveDone, PmmFreeRegion,
                    PmmReserve, pvars
      <4>. QED
        BY <1>2, <4>1 DEF ReachInv, End, Booting
    <3>. QED
      BY <3>1, <3>2
  <2>3. Rank("fb") = 3 /\ \A x : Rank(x)' = Rank(x)
    BY RankOrder DEF Rank
  <2>. QED
    BY <2>1, <2>2, <2>3 DEF ReachInv, Booting
<1>. QED
  BY <1>3, <1>4

LEMMA ReachInit == PmapBootInit => ReachInv
<1>. SUFFICES ASSUME PmapBootInit PROVE ReachInv
  OBVIOUS
<1>1. boot = "size" /\ cr3 = "boot"
  BY DEF PmapBootInit, BootInit
<1>. QED
  BY <1>1, RankOrder DEF ReachInv, Booting

\* What a step of kmain() does to the pages that are due.
LEMMA ReachStep ==
  ASSUME KmainInv, ReachInv, KmainNext
  PROVE  ReachInv'
<1>1. /\ PoolInv /\ BootInv /\ TableInv /\ HeldInv /\ HandInv /\ TodoInv /\ NextVA
      /\ EmptyInv /\ machine \in Machines /\ npages_total \in Nat
  BY DEF KmainInv, BootInv, PoolInv
<1>2. CASE boot' = "panic"
  BY <1>2 DEF ReachInv
<1>3. CASE Bootstrap /\ UNCHANGED mvars
  BY <1>3, SizeReaches
<1>4. ASSUME boot \in Phases, boot \notin DuePhases, PmmAlloc \/ UNCHANGED npages_total,
             UNCHANGED <<machine, bitmap, cr3, pgdir, tables>>,
             boot' = boot \/ (Rank(boot) <= Rank(boot') /\ boot' \in Places \ Booting /\ Enter(boot'))
      PROVE  ReachInv'
  <2>1. npages_total' = npages_total
    BY <1>4 DEF PmmAlloc
  <2>2. Map' = Map
    BY <1>1, <1>4, SameTables
  <2>3. CASE boot' = boot
    BY <1>1, <1>4, <2>1, <2>2, <2>3, StaysDue
  <2>4. CASE Rank(boot) <= Rank(boot') /\ boot' \in Places \ Booting /\ Enter(boot')
    <3>1. Rank(boot) \in 4 .. 10 /\ Rank(boot) <= Rank(boot') /\ Rank(boot') \in 0 .. 10
          /\ boot \notin {"size", "panic"} /\ boot \notin Booting
      BY <1>4, <2>4, RankOrder, RankIs DEF DuePhases, Phases, Places, Booting
    <3>2. cr3' = "own" <=> Rank(boot') >= Rank("fb")
      BY <1>4, <3>1, RankOrder DEF ReachInv
    <3>3. \A x \in DuePhases : Rank(x) \in 1 .. 3
      BY RankOrder DEF DuePhases
    <3>4. \A x \in DuePhases : Rank(x) <= Rank(boot) /\ boot # x
      BY <1>4, <3>1, <3>3
    <3>5. \A x \in DuePhases : \A v \in Due(x) : Map[v] # None => Map'[v] # None
      BY <2>2
    <3>. QED
      BY <1>1, <1>4, <2>1, <2>4, <3>1, <3>2, <3>4, <3>5, MovesDue
  <2>. QED
    BY <1>4, <2>3, <2>4
<1>5. CASE PmapInit /\ boot' # "panic"
  <2>1. boot = "run" /\ Enter("low") /\ UNCHANGED <<machine, bitmap, cr3, pgdir, tables>>
        /\ npages_total' = npages_total
    BY <1>5 DEF PmapInit, PmmAlloc
  <2>2. Map' = Map /\ cr3 = "boot"
    BY <1>1, <2>1, SameTables DEF EmptyInv, Blank, Booting
  <2>3. "low" \in Places \ Booting /\ "run" \in Booting
    BY DEF Places, Phases, Booting
  <2>4. \A x \in DuePhases : Rank(x) <= Rank("low") => x = "low"
    BY RankOrder DEF DuePhases
  <2>5. ~ (Rank("low") >= Rank("fb"))
    BY RankOrder
  <2>. QED
    BY <1>1, <2>1, <2>2, <2>3, <2>4, <2>5, MovesDue
<1>6. CASE TakePage /\ boot' # "panic"
  <2>1. /\ boot \in Phases /\ todo # <<>> /\ Head(todo).pa = None /\ PmmAlloc
        /\ UNCHANGED <<machine, bitmap, cr3, pgdir, tables>>
    BY <1>6, MappingIs DEF TakePage, Fresh
  <2>2. boot \in FromPmm /\ boot \notin DuePhases
    BY <1>1, <2>1, NextJob DEF FromPmm, ThreadPhases, DuePhases
  <2>3. boot' = boot \/ (boot = "user" /\ Enter("up")) \/ (boot = "smoke" /\ Enter("heap"))
    BY <1>6 DEF TakePage
  <2>4. CASE boot' = boot
    BY <1>4, <2>1, <2>2, <2>4
  <2>5. CASE boot = "user" /\ Enter("up")
    <3>1. boot' = "up" /\ Rank(boot) <= Rank(boot') /\ boot' \in Places \ Booting
      BY <2>5 DEF Enter, Rank, Places, Booting
    <3>. QED
      BY <1>4, <2>1, <2>2, <2>5, <3>1
  <2>6. CASE boot = "smoke" /\ Enter("heap")
    <3>1. boot' = "heap" /\ Rank(boot) <= Rank(boot') /\ boot' \in Places \ Booting
      BY <2>6 DEF Enter, Rank, Places, Phases, Booting
    <3>. QED
      BY <1>4, <2>1, <2>2, <2>6, <3>1
  <2>. QED
    BY <2>3, <2>4, <2>5, <2>6
<1>7. CASE MapNext /\ boot' # "panic"
  <2>. DEFINE h == Head(todo)
  <2>1. /\ boot \in Phases /\ todo # <<>> /\ h.pa # None
        /\ PmapMap(h.va, h.pa, h.flags, boot) /\ todo' = Tail(todo)
        /\ UNCHANGED <<machine, bitmap, cr3, pd, hand, next_thread_va>>
    BY <1>7, MappingIs DEF MapNext, Fresh
  <2>2. h \in JobSet /\ h.va \in VPage /\ h.pa \in Nat /\ h.flags \in SUBSET {"RW", "USER"}
        /\ Map[h.va] = None /\ Elems(todo) = {h} \union Elems(todo')
    <3>1. todo \in Seq(JobSet) /\ h \in JobSet /\ h.va \in VPage /\ Map[h.va] = None
      BY <1>1, <2>1, NextJob
    <3>2. Elems(todo) = {h} \union Elems(Tail(todo))
      BY <2>1, <3>1, TailElems
    <3>. QED
      BY <2>1, <3>1, <3>2 DEF JobSet
  <2>3. pd \in busy /\ DirPages \subseteq busy
    BY <1>1, <2>1 DEF HeldInv, PdPages
  <2>. HIDE DEF h
  <2>4. npages_total' = npages_total /\ boot' = boot /\ Stored(h.va, Entry(h.pa, h.flags))
    BY <1>1, <1>7, <2>1, <2>2, <2>3, MapEffect
  <2>5. Map'[h.va] # None /\ \A u \in VPage : Map[u] # None => Map'[u] # None
    BY <2>2, <2>4, EntryTyped DEF Stored
  <2>. QED
    BY <1>1, <2>1, <2>2, <2>4, <2>5, StaysDue
<1>8. CASE MapFresh /\ boot' # "panic"
  <2>. DEFINE h == Head(todo)
  <2>1. /\ boot \in Phases /\ todo # <<>> /\ h.pa = None /\ Ready
        /\ PmapMap(h.va, Head(hand), h.flags, boot)
        /\ UNCHANGED <<machine, bitmap, cr3, pd>>
    BY <1>8, MappingIs DEF MapFresh, Fresh
  <2>2. h \in JobSet /\ h.va \in VPage /\ h.flags \in SUBSET {"RW", "USER"} /\ boot \in FromPmm
    BY <1>1, <2>1, NextJob DEF JobSet
  <2>3. boot \notin DuePhases
    BY <2>2 DEF FromPmm, ThreadPhases, DuePhases
  <2>4. Head(hand) \in Nat /\ pd \in busy /\ DirPages \subseteq busy
    BY <1>1, <2>1, <2>2, ReadyHand DEF HeldInv, PdPages
  <2>. HIDE DEF h
  <2>5. npages_total' = npages_total /\ boot' = boot /\ Stored(h.va, Entry(Head(hand), h.flags))
    BY <1>1, <1>8, <2>1, <2>2, <2>4, MapEffect
  <2>6. \A u \in VPage : Map[u] # None => Map'[u] # None
    BY <2>2, <2>4, <2>5, EntryTyped DEF Stored
  <2>. QED
    BY <1>1, <2>1, <2>3, <2>5, <2>6, StaysDue
<1>9. CASE SmokeTest
  <2>1. /\ boot = "smoke" /\ todo = <<>> /\ PmapUnmap(SmokeVA) /\ Enter("heap")
        /\ UNCHANGED <<machine, bitmap, cr3, pd, pgdir>> /\ npages_total' = npages_total
    BY <1>9 DEF SmokeTest, PmmFree
  <2>2. SmokeVA \in VPage /\ Map[SmokeVA] # None
    BY <1>1, <2>1, Layout DEF TodoInv, Phases
  <2>3. pd \in busy /\ DirPages \subseteq busy
    BY <1>1, <2>1 DEF HeldInv, PdPages, Phases
  <2>4. \A u \in VPage : u # SmokeVA => Map'[u] = Map[u]
    BY <1>1, <2>1, <2>2, <2>3, UnmapEffect DEF Stored
  <2>5. "heap" \in Places \ Booting /\ boot \notin {"size", "panic"} /\ boot \notin Booting
    BY <2>1 DEF Places, Phases, Booting
  <2>6. \A x \in DuePhases : Rank(x) <= Rank(boot) /\ boot # x
    BY <2>1, RankOrder DEF DuePhases, Rank
  <2>7. Rank(boot) >= 3 /\ Rank("heap") >= 3 /\ Rank("fb") = 3
    BY <2>1 DEF Rank
  <2>8. cr3' = "own" <=> Rank("heap") >= Rank("fb")
    BY <2>1, <2>5, <2>7 DEF ReachInv
  <2>. QED
    BY <1>1, <2>1, <2>4, <2>5, <2>6, <2>8, DueKept, MovesDue
<1>10. CASE PhaseDone
  <2>. DEFINE next == After[boot]
  <2>1. /\ boot \in Phases \ {"smoke"} /\ todo = <<>> /\ Enter(next)
        /\ UNCHANGED <<machine, bitmap, cr3, pgdir, tables, npages_total>>
    BY <1>10, AfterIs DEF PhaseDone, pvars, mvars
  <2>2. Map' = Map
    BY <1>1, <2>1, SameTables
  <2>3. next \in Places \ Booting /\ boot \notin {"size", "panic"} /\ boot \notin Booting
    BY <2>1, AfterIs DEF Phases, Places, Booting
  <2>4. \A x \in DuePhases : Rank(x) <= Rank(next) => x = next \/ Rank(x) <= Rank(boot)
    BY <2>1, AfterIs DEF DuePhases, Phases, Rank
  <2>5. cr3' = "own" <=> Rank(next) >= Rank("fb")
    <3>1. Rank(boot) >= Rank("fb") <=> Rank(next) >= Rank("fb")
      BY <2>1, AfterIs DEF Phases, Rank
    <3>. QED
      BY <2>1, <2>3, <3>1 DEF ReachInv
  <2>. HIDE DEF next
  <2>6. \A x \in DuePhases : \A v \in Due(x) : Map[v] # None => Map'[v] # None
    BY <2>2
  <2>. QED
    BY <1>1, <2>1, <2>3, <2>4, <2>5, <2>6, MovesDue
<1>11. CASE Lcr3
  <2>1. /\ boot = "lcr3" /\ cr3' = "own" /\ Enter("fb")
        /\ UNCHANGED <<machine, bitmap, pgdir, tables, npages_total>>
    BY <1>11 DEF Lcr3, pvars
  <2>2. Map' = Map
    BY <1>1, <2>1, SameTables
  <2>3. "fb" \in Places \ Booting /\ boot \notin {"size", "panic"} /\ boot \notin Booting
    BY <2>1 DEF Phases, Places, Booting
  <2>4. \A x \in DuePhases : x = "fb" \/ (Rank(x) <= Rank(boot) /\ boot # x)
    BY <2>1, RankOrder DEF DuePhases
  <2>5. Rank("fb") >= Rank("fb")
    BY RankOrder
  <2>. QED
    BY <1>1, <2>1, <2>2, <2>3, <2>4, <2>5, MovesDue
<1>. QED
  BY <1>2, <1>3, <1>5, <1>6, <1>7, <1>8, <1>9, <1>10, <1>11 DEF KmainNext

\* Mapped pages belong to one phase.
LEMMA PhaseOf ==
  ASSUME machine \in Machines, SpaceInv, NEW x \in Phases, NEW v \in Area(x, machine),
         Map[v] # None
  PROVE  Fits(x, v, Map[v].pa, Map[v].flags)
<1>1. v \in VPage
  BY Layout
<1>2. PICK y \in Phases : Fits(y, v, Map[v].pa, Map[v].flags)
  BY <1>1 DEF SpaceInv
<1>3. v \in Area(y, machine)
  BY <1>2 DEF Fits
<1>4. x = y
  BY <1>3, Layout
<1>. QED
  BY <1>2, <1>4

\* The pages of a region that starts behind page 0.
LEMMA PagesWithin ==
  ASSUME NEW r \in Regions, NEW n \in Nat, PageSize <= r.addr, End(r) <= PageSize * n
  PROVE  \A p \in Pages(r) : p \in Nat /\ 1 <= p /\ p < n
<1>. DEFINE a == RoundDown(r.addr)
            e == RoundUp(End(r))
<1>1. PageSize \in Nat \ {0} /\ r.addr \in Nat /\ End(r) \in Nat
  BY PmmAssumption DEF Regions, End
<1>2. a \in Nat /\ r.addr < PageSize * a + PageSize /\ e \in Nat
      /\ PageSize * e < End(r) + PageSize
  BY <1>1, Rounding
<1>. HIDE DEF a, e
<1>3. PageSize * 0 < PageSize * a
  <2>1. PageSize * a \in Nat /\ PageSize * 0 = 0
    BY <1>1, <1>2
  <2>. QED
    BY <1>1, <1>2, <2>1
<1>4. PageSize * e < PageSize * (n + 1)
  <2>1. PageSize * (n + 1) = PageSize * n + PageSize /\ PageSize * e \in Nat /\ PageSize * n \in Nat
    BY <1>1, <1>2
  <2>. QED
    BY <1>1, <1>2, <2>1
<1>5. 0 < a /\ e < n + 1
  BY <1>1, <1>2, <1>3, <1>4, Factors
<1>6. Pages(r) = a .. e - 1
  BY DEF Pages, a, e
<1>. QED
  BY <1>2, <1>5, <1>6

\* No table, and not the directory, is page 0.
LEMMA NotPageZero ==
  ASSUME machine \in Machines, npages_total \in Nat, LowEnd > 0
  PROVE  0 \notin Usable
<1>1. SUFFICES ASSUME 0 \in Usable PROVE FALSE
  OBVIOUS
<1>. DEFINE r == Region(0, LowEnd)
<1>2. r \in Taken /\ r \in Regions /\ r.len > 0
  BY BootAssumption DEF Taken, Region, Regions
<1>3. 0 \notin Pages(r)
  BY <1>1, <1>2, NotUsable
<1>4. End(r) = LowEnd /\ LowEnd \in Nat /\ PageSize \in Nat \ {0}
  BY BootAssumption, PmmAssumption DEF End, Region
<1>5. RoundDown(0) = 0
  <2>1. RoundDown(0) \in Nat /\ PageSize * RoundDown(0) <= 0
    BY Rounding
  <2>2. PageSize * RoundDown(0) < PageSize * 1
    BY <1>4, <2>1
  <2>3. RoundDown(0) < 1
    BY <1>4, <2>1, <2>2, Factors
  <2>. QED
    BY <2>1, <2>3
<1>6. RoundUp(LowEnd) \in Nat /\ LowEnd <= PageSize * RoundUp(LowEnd)
  BY <1>4, Rounding
<1>7. RoundUp(LowEnd) > 0
  BY <1>4, <1>6
<1>8. Pages(r) = RoundDown(0) .. RoundUp(LowEnd) - 1
  BY <1>4 DEF Pages, Region
<1>. QED
  BY <1>3, <1>5, <1>6, <1>7, <1>8

\* The first table of boot.S, which it installs at 0 and at KERNBASE, covers the kernel;
\* the boot loader left nothing in page 0.
BootTable ==
  /\ KernBase % Slots = 0 /\ KernelPages \subseteq 0 .. Slots - 1
  /\ LowEnd > 0 /\ \A m \in Machines : PageSize <= m.mbi.addr

\* What the kernel writes or reads through physical addresses lies below 4 MB while
\* boot.S's table is walked, and below PMAP_LOW_END from lcr3() on.
ByAddress == Pages(bitmap) \union PdPages \union TablePages \union Pages(machine.mbi)
LiesLow ==
  boot \notin {"size", "panic"} =>
    \A p \in ByAddress : p < (IF cr3 = "boot" THEN Slots ELSE PmapLowEnd)

\* Those pages are pages of the machine.
LEMMA ByAddressKnown ==
  ASSUME BootTable, KmainInv, ReachInv, boot \notin {"size", "panic"}, NEW p \in ByAddress
  PROVE  p \in Nat /\ 1 <= p /\ p < npages_total
<1>1. machine \in Machines /\ npages_total \in Nat /\ bitmap = BitmapFor(npages_total)
      /\ bitmap \in Regions /\ machine.mbi \in Regions
  BY BootAssumption DEF KmainInv, BootInv, PoolInv
<1>2. PageSize \in Nat /\ End(machine.mbi) \in Nat /\ End(bitmap) \in Nat /\ bitmap.addr \in Nat
      /\ machine.mbi.addr \in Nat /\ machine.mbi.addr <= End(machine.mbi)
      /\ bitmap.addr <= End(bitmap)
  BY <1>1, PmmAssumption DEF Regions, End
<1>3. PageSize <= machine.mbi.addr
  BY <1>1 DEF BootTable
<1>4. End(machine.mbi) <= BootDataEnd /\ BootDataEnd \in Nat /\ BootDataEnd <= bitmap.addr
  BY <1>1, BootDataEnds, BitmapAbove
<1>5. End(bitmap) <= PageSize * npages_total /\ PageSize * npages_total \in Nat
  BY <1>1, <1>2 DEF ReachInv
<1>6. PageSize <= bitmap.addr /\ End(machine.mbi) <= PageSize * npages_total
  BY <1>2, <1>3, <1>4, <1>5
<1>7. CASE p \in Pages(bitmap) \union Pages(machine.mbi)
  BY <1>1, <1>3, <1>5, <1>6, <1>7, PagesWithin
<1>8. CASE p \in PdPages \union TablePages
  <2>1. TablePages = DirPages
    BY DEF KmainInv, TableInv, TablePages
  <2>2. p \in Usable
    BY <1>8, <2>1 DEF KmainInv, HeldInv
  <2>3. p # 0
    BY <1>1, <2>2, NotPageZero DEF BootTable
  <2>. QED
    BY <1>1, <2>2, <2>3 DEF Usable, Known
<1>. QED
  BY <1>7, <1>8 DEF ByAddress

\* Under boot.S's tables.
LEMMA BootReaches ==
  ASSUME BootTable, NEW p \in Nat, p < Slots
  PROVE  /\ BootWalk(p) # None /\ BootWalk(p).pa = p
         /\ BootWalk(KernBase + p) # None /\ BootWalk(KernBase + p).pa = p
<1>1. Slots \in Nat \ {0} /\ KernBase \in Nat /\ p \in 0 .. Slots - 1
  BY PmapAssumption
<1>. DEFINE k == KernBase \div Slots
<1>2. k \in Nat /\ KernBase = Slots * k
  <2>1. KernBase = Slots * (KernBase \div Slots) + (KernBase % Slots) /\ KernBase \div Slots \in Nat
    BY <1>1, Division
  <2>2. Slots * (KernBase \div Slots) \in Nat
    BY <1>1, <2>1
  <2>. QED
    BY <1>1, <2>1, <2>2 DEF BootTable
<1>. HIDE DEF k
<1>3. Slot(p) = p /\ Dir(p) = 0
  <2>1. Slots * 0 + p = p /\ 0 \in Nat
    BY <1>1
  <2>2. (Slots * 0 + p) % Slots = p /\ (Slots * 0 + p) \div Slots = 0
    BY <1>1, Remainder
  <2>. QED
    BY <2>1, <2>2 DEF Slot, Dir
<1>4. Slot(KernBase + p) = p /\ Dir(KernBase + p) = k
  <2>1. (Slots * k + p) % Slots = p /\ (Slots * k + p) \div Slots = k
    BY <1>1, <1>2, Remainder
  <2>. QED
    BY <1>2, <2>1 DEF Slot, Dir
<1>5. Dir(KernBase) = k
  <2>1. 0 \in 0 .. Slots - 1 /\ Slots * k + 0 = KernBase
    BY <1>1, <1>2
  <2>2. (Slots * k + 0) \div Slots = k
    BY <1>1, <1>2, <2>1, Remainder
  <2>. QED
    BY <2>1, <2>2 DEF Dir
<1>6. Entry(p, {"RW"}) # None /\ Entry(p, {"RW"}).pa = p
  BY EntryTyped
<1>. QED
  BY <1>3, <1>4, <1>5, <1>6 DEF BootWalk

LEMMA ReachableFromInv ==
  ASSUME BootTable, KmainInv, ReachInv, LiesLow
  PROVE  Reachable
<1>1. SUFFICES ASSUME boot \notin {"size", "panic"}
      PROVE  /\ Seen(ByAddress)
             /\ \A p \in KernelPages : Walk(KernBase + p) # None /\ Walk(KernBase + p).pa = p
             /\ machine.fb # None /\ boot \in DOMAIN After \ {"low", "kernel", "fb"} =>
                  Seen(Pages(machine.fb))
  BY DEF Reachable, ByAddress, PdPages
<1>2. /\ machine \in Machines /\ npages_total \in Nat /\ SpaceInv /\ cr3 \in {"boot", "own"}
      /\ boot \in Places
  BY DEF KmainInv, BootInv, PoolInv, TlbInv
<1>3. \A p \in ByAddress : p \in Nat /\ 1 <= p /\ p < npages_total
  BY <1>1, ByAddressKnown
<1>4. CASE cr3 = "boot"
  <2>1. \A v : Walk(v) = BootWalk(v)
    BY <1>4 DEF Walk
  <2>2. Seen(ByAddress)
    BY <1>1, <1>3, <1>4, <2>1, BootReaches DEF LiesLow, Seen
  <2>3. ASSUME NEW p \in KernelPages
        PROVE  Walk(KernBase + p) # None /\ Walk(KernBase + p).pa = p
    <3>1. p \in Nat /\ p < Slots
      BY PmapAssumption DEF BootTable
    <3>. QED
      BY <2>1, <3>1, BootReaches
  <2>4. boot \notin DOMAIN After \ {"low", "kernel", "fb"}
    <3>1. ~ (Rank(boot) >= Rank("fb"))
      BY <1>1, <1>4 DEF ReachInv
    <3>. QED
      BY <3>1, AfterIs DEF Rank, Phases
  <2>. QED
    BY <2>2, <2>3, <2>4
<1>5. CASE cr3 = "own"
  <2>1. boot \notin Booting \union {"panic", "low", "kernel"}
        /\ \A x \in DuePhases : Rank(x) <= Rank(boot)
    <3>1. Rank(boot) >= Rank("fb") /\ Rank(boot) \in 0 .. 10
      BY <1>1, <1>2, <1>5, RankIs DEF ReachInv
    <3>2. Rank(boot) >= 3
      BY <3>1, RankOrder
    <3>3. boot \notin Booting \union {"low", "kernel"}
      BY <3>2, RankOrder
    <3>4. \A x \in DuePhases : Rank(x) \in 1 .. 3
      BY RankOrder DEF DuePhases
    <3>. QED
      BY <1>1, <3>1, <3>2, <3>3, <3>4
  <2>2. ASSUME NEW x \in DuePhases, boot # x, NEW v \in Due(x)
        PROVE  Walk(v) # None /\ Walk(v) = Map[v] /\ Fits(x, v, Map[v].pa, Map[v].flags)
    <3>1. Map[v] # None
      BY <2>1, <2>2 DEF ReachInv, Mapped
    <3>2. v \in VPage /\ v \in Area(x, machine) /\ x \in Phases
      BY <1>2, DueListed DEF DuePhases, Phases
    <3>3. Walk(v) = Map[v]
      BY <1>5, <3>2 DEF Walk, Map
    <3>. QED
      BY <1>2, <3>1, <3>2, <3>3, PhaseOf
  <2>3. Seen(ByAddress)
    <3>1. ASSUME NEW p \in ByAddress
          PROVE  Walk(p) # None /\ Walk(p).pa = p
      <4>1. p \in Nat /\ 1 <= p /\ p < npages_total /\ p < PmapLowEnd /\ PmapLowEnd \in Nat
        BY <1>1, <1>3, <1>5, PmapAssumption DEF LiesLow
      <4>2. p \in Due("low")
        BY <1>2, <4>1 DEF Due, Smaller
      <4>3. Walk(p) # None /\ Walk(p) = Map[p] /\ Fits("low", p, Map[p].pa, Map[p].flags)
        BY <2>1, <2>2, <4>2 DEF DuePhases
      <4>. QED
        BY <4>3 DEF Fits
    <3>. QED
      BY <3>1 DEF Seen
  <2>4. ASSUME NEW p \in KernelPages
        PROVE  Walk(KernBase + p) # None /\ Walk(KernBase + p).pa = p
    <3>. DEFINE v == KernBase + p
    <3>1. v \in Due("kernel")
      BY DEF Due
    <3>2. Walk(v) # None /\ Walk(v) = Map[v] /\ Fits("kernel", v, Map[v].pa, Map[v].flags)
      <4>. HIDE DEF v
      <4>. QED
        BY <2>1, <2>2, <3>1 DEF DuePhases
    <3>3. Map[v].pa \in KernelPages /\ v = KernBase + Map[v].pa
      BY <3>2 DEF Fits
    <3>4. p \in Nat /\ Map[v].pa \in Nat /\ KernBase \in Nat
      BY <3>3, PmapAssumption DEF BootTable
    <3>5. Map[v].pa = p
      BY <3>3, <3>4
    <3>. QED
      BY <3>2, <3>5
  <2>5. ASSUME machine.fb # None, boot # "fb"
        PROVE  Seen(Pages(machine.fb))
    <3>1. Pages(machine.fb) = Due("fb")
      BY <2>5 DEF Pages, Due, FbPages
    <3>2. \A v \in Due("fb") : Walk(v) # None /\ Walk(v).pa = v
      <4>1. ASSUME NEW v \in Due("fb") PROVE Walk(v) # None /\ Walk(v).pa = v
        <5>1. Walk(v) # None /\ Walk(v) = Map[v] /\ Fits("fb", v, Map[v].pa, Map[v].flags)
          BY <2>2, <2>5 DEF DuePhases
        <5>. QED
          BY <5>1 DEF Fits
      <4>. QED
        BY <4>1
    <3>. QED
      BY <3>1, <3>2 DEF Seen
  <2>. QED
    BY <2>3, <2>4, <2>5
<1>. QED
  BY <1>2, <1>4, <1>5

\* Through every phase of kmain(), under boot.S's tables and under its own, the kernel
\* finds its code at KERNBASE, the frame buffer where it lies, and its tables, the
\* bitmap and the boot data at their physical addresses, as long as those lie in the
\* window that is mapped (boot.S, pmap.c:125-150, main.c).
THEOREM LowPagesAreReached ==
  ASSUME BootTable
  PROVE  KmainSpec /\ []LiesLow => []Reachable
<1>1. KmainSpec => [](KmainInv /\ ReachInv)
  <2>1. PmapBootInit => KmainInv /\ ReachInv
    BY InitStep, ReachInit
  <2>2. KmainInv /\ ReachInv /\ [KmainNext]_vars => (KmainInv /\ ReachInv)'
    <3>1. KmainInv /\ ReachInv /\ KmainNext => KmainInv' /\ ReachInv'
      BY KmainStep, ReachStep
    <3>2. KmainInv /\ ReachInv /\ UNCHANGED vars => KmainInv' /\ ReachInv'
      <4>. SUFFICES ASSUME KmainInv, ReachInv, UNCHANGED vars PROVE KmainInv' /\ ReachInv'
        OBVIOUS
      <4>1. KmainInv' /\ UNCHANGED <<machine, boot, todo, bitmap, cr3, npages_total, pgdir, tables>>
        BY Stutters DEF vars, bvars, pvars, mvars
      <4>2. Map' = Map /\ \A x : Rank(x)' = Rank(x)
        BY <4>1, SameTables DEF KmainInv, Rank
      <4>3. \A x : Mapped(x)' = Mapped(x)
        BY <4>1, <4>2, DueSame DEF Mapped, Elems
      <4>. QED
        BY <4>1, <4>2, <4>3 DEF ReachInv, End, Booting, DuePhases
    <3>. QED
      BY <3>1, <3>2
  <2>. QED
    BY <2>1, <2>2, PTL DEF KmainSpec
<1>2. KmainInv /\ ReachInv /\ LiesLow => Reachable
  BY ReachableFromInv
<1>. QED
  BY <1>1, <1>2, PTL
=============================================================================
