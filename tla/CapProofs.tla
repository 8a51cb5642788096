----------------------------- MODULE CapProofs ------------------------------
(***************************************************************************)
(* Proofs about the capability table (Cap), for tables, threads and kinds  *)
(* of every number.                                                        *)
(***************************************************************************)
EXTENDS Cap, Arithmetic

-----------------------------------------------------------------------------
\* What a thread's place says of its handle; the bound check holds until the
\* access because the table only grows.
CapInv ==
  /\ CapTypeOK
  /\ \A t \in Proc : pc[t] \in {"lookup", "delete"} => arg[t] \in 0 .. cap - 1

\* The slot's epoch counts the objects it has held, so that the handles and
\* epochs not yet reached have never been given out.
EpochsCount ==
  \A h \in Handle :
    slots[h].epoch + (IF slots[h].kind = CAP_NONE THEN 0 ELSE 1) <= objs

IssuedSoFar ==
  \A h \in Handle :
    /\ issued[<<h, slots[h].epoch>>] =
         IF slots[h].kind = CAP_NONE THEN {} ELSE {slots[h].obj}
    /\ \A e \in 0 .. EpochMod - 1 :
         /\ e > slots[h].epoch => issued[<<h, e>>] = {}
         /\ issued[<<h, e>>] = {} \/ \E o \in 1 .. MaxObj : issued[<<h, e>>] = {o}

EpochInv == CapInv /\ EpochsCount /\ IssuedSoFar

LEMMA InitHolds == Init => EpochInv
<1>. SUFFICES ASSUME Init PROVE EpochInv
  OBVIOUS
<1>1. EmptySlot \in Slot
  BY CapAssumption DEF EmptySlot, Slot
<1>2. CapTypeOK
  BY <1>1, CapAssumption DEF Init, CapTypeOK
<1>3. CapInv
  BY <1>2 DEF Init, CapInv
<1>4. \A h \in Handle : slots[h].epoch = 0 /\ slots[h].kind = CAP_NONE
  BY DEF Init, EmptySlot
<1>5. EpochsCount
  BY <1>4 DEF Init, EpochsCount
<1>6. IssuedSoFar
  BY <1>4, CapAssumption DEF Init, IssuedSoFar
<1>. QED
  BY <1>3, <1>5, <1>6 DEF EpochInv

\* Putting an object into a hole h of a table of well-formed slots.
LEMMA PutSlot ==
  ASSUME NEW table \in [Handle -> Slot], NEW h \in Handle, NEW k \in Kinds,
         NEW o \in 0 .. MaxObj
  PROVE  /\ Put(table, h, k, o) \in [Handle -> Slot]
         /\ Put(table, h, k, o)[h].kind = k
         /\ Put(table, h, k, o)[h].obj = o
         /\ Put(table, h, k, o)[h].epoch = table[h].epoch
         /\ \A g \in Handle : g # h => Put(table, h, k, o)[g] = table[g]
BY DEF Put, Slot

\* Both ways of cap_insert() fill a hole h of a table that agrees with
\* slots[]; here the table, below the epochs.
LEMMA InsertKeepsTable ==
  ASSUME CapInv, NEW t \in Proc, NEW k \in Kinds, NEW h \in Handle, objs < MaxObj,
         Inserted(t, slots, h, k), cap' \in 0 .. MaxCap, cap' >= cap, h < cap',
         array' \in Nat
  PROVE  /\ CapInv'
         /\ slots'[h].kind = k /\ slots'[h].obj = objs + 1
         /\ slots'[h].epoch = slots[h].epoch
         /\ \A g \in Handle : g # h => slots'[g] = slots[g]
<1>1. slots \in [Handle -> Slot] /\ objs \in 0 .. MaxObj /\ cap \in 0 .. MaxCap
      /\ issued \in [Handle \X (0 .. EpochMod - 1) -> SUBSET (1 .. MaxObj)]
  BY DEF CapInv, CapTypeOK
<1>2. MaxCap \in Nat /\ MaxObj \in Nat
  BY CapAssumption
<1>3. objs' = objs + 1 /\ objs + 1 \in 1 .. MaxObj /\ objs + 1 \in 0 .. MaxObj
  BY <1>1, <1>2 DEF Inserted
<1>4. /\ slots' \in [Handle -> Slot] /\ slots'[h].kind = k /\ slots'[h].obj = objs + 1
      /\ slots'[h].epoch = slots[h].epoch
      /\ \A g \in Handle : g # h => slots'[g] = slots[g]
  BY <1>1, <1>3, PutSlot DEF Inserted
<1>. DEFINE x == <<h, slots[h].epoch>>
<1>5. x \in Handle \X (0 .. EpochMod - 1)
  BY <1>1 DEF Slot
<1>6. issued' = [issued EXCEPT ![x] = issued[x] \union {objs + 1}]
  BY <1>4 DEF Inserted
<1>. HIDE DEF x
<1>7. issued[x] \union {objs + 1} \in SUBSET (1 .. MaxObj)
  BY <1>1, <1>3, <1>5
<1>8. issued' \in [Handle \X (0 .. EpochMod - 1) -> SUBSET (1 .. MaxObj)]
  BY <1>1, <1>6, <1>7
<1>9. \A g \in Handle : g >= cap' => slots'[g] = EmptySlot
  BY <1>1, <1>2, <1>4 DEF CapInv, CapTypeOK, Handle
<1>10. CapTypeOK'
  BY <1>1, <1>3, <1>4, <1>8, <1>9 DEF CapInv, CapTypeOK, Inserted
<1>11. \A t1 \in Proc : pc'[t1] \in {"lookup", "delete"} => arg'[t1] \in 0 .. cap' - 1
  BY <1>1, <1>2 DEF CapInv, Inserted
<1>. QED
  BY <1>4, <1>10, <1>11 DEF CapInv

\* The epochs: the pair of the hole and its epoch is given out for the first
\* time.
LEMMA InsertStep ==
  ASSUME EpochInv, NEW t \in Proc, NEW k \in Kinds, NEW h \in Handle, objs < MaxObj,
         slots[h].kind = CAP_NONE,
         Inserted(t, slots, h, k), cap' \in 0 .. MaxCap, cap' >= cap, h < cap',
         array' \in Nat
  PROVE  EpochInv'
<1>1. slots \in [Handle -> Slot] /\ objs \in 0 .. MaxObj
      /\ issued \in [Handle \X (0 .. EpochMod - 1) -> SUBSET (1 .. MaxObj)]
  BY DEF EpochInv, CapInv, CapTypeOK
<1>2. MaxObj \in Nat /\ EpochMod \in Nat \ {0} /\ CAP_NONE \notin Kinds
  BY CapAssumption
<1>3. objs + 1 \in 1 .. MaxObj /\ objs' = objs + 1
  BY <1>1, <1>2 DEF Inserted
<1>4. /\ CapInv'
      /\ slots'[h].kind = k /\ slots'[h].obj = objs + 1
      /\ slots'[h].epoch = slots[h].epoch
      /\ \A g \in Handle : g # h => slots'[g] = slots[g]
  BY InsertKeepsTable DEF EpochInv
<1>. DEFINE e0 == slots[h].epoch
<1>5. e0 \in 0 .. EpochMod - 1 /\ <<h, e0>> \in Handle \X (0 .. EpochMod - 1)
  BY <1>1 DEF Slot
<1>6. issued[<<h, e0>>] = {}
  BY DEF EpochInv, IssuedSoFar
<1>7. issued' = [issued EXCEPT ![<<h, e0>>] = {objs + 1}]
  BY <1>1, <1>4, <1>5, <1>6 DEF Inserted
<1>8. /\ issued'[<<h, e0>>] = {objs + 1}
      /\ \A x \in Handle \X (0 .. EpochMod - 1) : x # <<h, e0>> => issued'[x] = issued[x]
  BY <1>1, <1>3, <1>5, <1>7
<1>10. EpochsCount'
  <2>. SUFFICES ASSUME NEW g \in Handle
                PROVE  slots'[g].epoch + (IF slots'[g].kind = CAP_NONE THEN 0 ELSE 1) <= objs'
    BY DEF EpochsCount
  <2>1. slots[g].epoch \in Nat /\ objs \in Nat
    BY <1>1, <1>2 DEF Slot
  <2>2. slots[g].epoch + (IF slots[g].kind = CAP_NONE THEN 0 ELSE 1) <= objs
    BY DEF EpochInv, EpochsCount
  <2>3. CASE g = h
    BY <1>2, <1>3, <1>4, <2>1, <2>2, <2>3
  <2>4. CASE g # h
    BY <1>3, <1>4, <2>1, <2>2, <2>4
  <2>. QED
    BY <2>3, <2>4
<1>11. IssuedSoFar'
  <2>1. ASSUME NEW g \in Handle
        PROVE  issued'[<<g, slots'[g].epoch>>] =
                 IF slots'[g].kind = CAP_NONE THEN {} ELSE {slots'[g].obj}
    <3>1. CASE g = h
      BY <1>2, <1>4, <1>8, <3>1
    <3>2. CASE g # h
      <4>1. slots'[g] = slots[g] /\ slots[g].epoch \in 0 .. EpochMod - 1
        BY <1>1, <1>4, <3>2 DEF Slot
      <4>2. issued'[<<g, slots[g].epoch>>] = issued[<<g, slots[g].epoch>>]
        BY <1>8, <3>2, <4>1
      <4>. QED
        BY <4>1, <4>2 DEF EpochInv, IssuedSoFar
    <3>. QED
      BY <3>1, <3>2
  <2>2. ASSUME NEW g \in Handle, NEW e \in 0 .. EpochMod - 1
        PROVE  /\ e > slots'[g].epoch => issued'[<<g, e>>] = {}
               /\ issued'[<<g, e>>] = {} \/ \E o \in 1 .. MaxObj : issued'[<<g, e>>] = {o}
    <3>1. CASE g = h /\ e = e0
      BY <1>2, <1>3, <1>4, <1>8, <3>1
    <3>2. CASE ~(g = h /\ e = e0)
      <4>1. issued'[<<g, e>>] = issued[<<g, e>>] /\ slots'[g].epoch = slots[g].epoch
        BY <1>4, <1>8, <3>2
      <4>2. /\ e > slots[g].epoch => issued[<<g, e>>] = {}
            /\ issued[<<g, e>>] = {} \/ \E o \in 1 .. MaxObj : issued[<<g, e>>] = {o}
        BY DEF EpochInv, IssuedSoFar
      <4>. QED
        BY <4>1, <4>2
    <3>. QED
      BY <3>1, <3>2
  <2>. QED
    BY <2>1, <2>2 DEF IssuedSoFar
<1>. QED
  BY <1>4, <1>10, <1>11 DEF EpochInv
\* The search of cap_insert() stops at a hole of the table.
LEMMA FirstHole ==
  ASSUME CapInv, NEW t \in Proc, NEW k \in Kinds, InsertHole(t, k)
  PROVE  \E h \in Handle :
           /\ h < cap /\ slots[h].kind = CAP_NONE
           /\ Inserted(t, slots, h, k)
<1>1. cap \in 0 .. MaxCap /\ MaxCap \in Nat
  BY CapAssumption DEF CapInv, CapTypeOK
<1>. DEFINE h == CHOOSE h \in Free : \A g \in Free : h <= g
<1>2. h \in Free
  <2>1. Free \in SUBSET (0 .. cap) /\ Free # {} /\ cap \in Nat
    BY <1>1 DEF Free, InsertHole
  <2>2. \E x \in Free : \A y \in Free : x <= y
    BY <2>1, LeastExists
  <2>. QED
    BY <2>2
<1>3. Inserted(t, slots, h, k)
  BY DEF InsertHole
<1>. HIDE DEF h
<1>4. h \in Handle /\ slots[h].kind = CAP_NONE /\ h < cap
  BY <1>1, <1>2 DEF Free, Handle
<1>. QED
  BY <1>3, <1>4

\* captbl_grow() copies the slots and leaves room for one more.
LEMMA GrowRoom ==
  ASSUME CapInv, Free = {}, NewCap <= MaxCap
  PROVE  /\ Grown = slots
         /\ NewCap \in 0 .. MaxCap /\ cap < NewCap
         /\ cap \in Handle /\ slots[cap].kind = CAP_NONE
<1>1. cap \in 0 .. MaxCap /\ MaxCap \in Nat /\ slots \in [Handle -> Slot]
      /\ \A h \in Handle : h >= cap => slots[h] = EmptySlot
      /\ Initial \in Nat \ {0}
      /\ NewCap <= MaxCap
  BY CapAssumption DEF CapInv, CapTypeOK
<1>2. Grown = slots
  BY <1>1 DEF Grown, Handle
<1>3. NewCap \in 0 .. MaxCap /\ cap < NewCap
  <2>1. CASE cap = 0
    <3>1. NewCap = Initial
      BY <2>1 DEF NewCap
    <3>2. Initial \in Nat /\ 0 < Initial /\ Initial <= MaxCap /\ MaxCap \in Nat
      BY CapAssumption
    <3>. QED
      BY <2>1, <3>1, <3>2
  <2>2. CASE cap # 0
    BY <1>1, <2>2 DEF NewCap
  <2>. QED
    BY <2>1, <2>2
<1>4. cap \in Handle
  BY <1>1, <1>3 DEF Handle
<1>. QED
  BY <1>1, <1>2, <1>3, <1>4 DEF EmptySlot

\* So every successful cap_insert() fills a slot that nothing was in.
LEMMA InsertFills ==
  ASSUME CapInv, NEW t \in Proc, NEW k \in Kinds, InsertHole(t, k) \/ InsertGrow(t, k)
  PROVE  \E h \in Handle :
           /\ slots[h].kind = CAP_NONE /\ Inserted(t, slots, h, k)
           /\ cap' \in 0 .. MaxCap /\ cap' >= cap /\ h < cap' /\ array' \in Nat
           /\ objs < MaxObj
<1>1. cap \in 0 .. MaxCap /\ MaxCap \in Nat /\ array \in Nat
  BY CapAssumption DEF CapInv, CapTypeOK
<1>2. CASE InsertHole(t, k)
  <2>1. PICK h \in Handle : h < cap /\ slots[h].kind = CAP_NONE /\ Inserted(t, slots, h, k)
    BY <1>2, FirstHole
  <2>2. UNCHANGED <<cap, array>> /\ objs < MaxObj
    BY <1>2 DEF InsertHole
  <2>. QED
    BY <1>1, <2>1, <2>2
<1>3. CASE InsertGrow(t, k)
  <2>1. /\ Grown = slots
        /\ NewCap \in 0 .. MaxCap /\ cap < NewCap
        /\ cap \in Handle /\ slots[cap].kind = CAP_NONE
    BY <1>3, GrowRoom DEF InsertGrow
  <2>2. Inserted(t, Grown, cap, k) /\ cap' = NewCap /\ array' = array + 1 /\ objs < MaxObj
    BY <1>3 DEF InsertGrow
  <2>3. cap' >= cap /\ array' \in Nat
    BY <1>1, <2>1, <2>2
  <2>. QED
    BY <2>1, <2>2, <2>3
<1>. QED
  BY <1>2, <1>3

\* The two bound checks and what the caller of cap_lookup() does: the table
\* stays as it is.
LEMMA TableKept ==
  ASSUME EpochInv, UNCHANGED <<cap, slots, objs, issued>>, CapInv'
  PROVE  EpochInv'
BY DEF EpochInv, EpochsCount, IssuedSoFar

LEMMA EnterStep ==
  ASSUME CapInv, NEW t \in Proc, NEW h \in Handle, LookupEnter(t, h) \/ DeleteEnter(t, h)
  PROVE  CapInv'
<1>1. h \in 0 .. cap - 1 /\ pc[t] = "idle"
  BY CapAssumption DEF CapInv, CapTypeOK, LookupEnter, DeleteEnter, InTable, Handle
<1>2. arg' = [arg EXCEPT ![t] = h] /\ UNCHANGED <<cap, slots, array, ptr, objs, issued>>
  BY DEF LookupEnter, DeleteEnter
<1>3. PICK p \in {"lookup", "delete"} : pc' = [pc EXCEPT ![t] = p]
  BY DEF LookupEnter, DeleteEnter
<1>4. CapTypeOK'
  BY <1>1, <1>2, <1>3 DEF CapInv, CapTypeOK
<1>5. \A t1 \in Proc : pc'[t1] \in {"lookup", "delete"} => arg'[t1] \in 0 .. cap' - 1
  BY <1>1, <1>2, <1>3 DEF CapInv, CapTypeOK
<1>. QED
  BY <1>4, <1>5 DEF CapInv

LEMMA LookupStep ==
  ASSUME CapInv, NEW t \in Proc, NEW k \in Kinds \union {CAP_NONE}, Lookup(t, k)
  PROVE  CapInv'
<1>. DEFINE p == [array |-> array, h |-> arg[t], kind |-> k, obj |-> slots[arg[t]].obj]
<1>1. /\ arg[t] \in 0 .. cap - 1 /\ cap \in 0 .. MaxCap /\ array \in Nat
      /\ slots \in [Handle -> Slot] /\ MaxCap \in Nat /\ MaxObj \in Nat /\ pc[t] = "lookup"
  BY CapAssumption DEF CapInv, CapTypeOK, Lookup
<1>2. arg[t] \in Handle
  BY <1>1 DEF Handle
<1>3. p \in Pointer
  BY <1>1, <1>2 DEF Slot, Pointer
<1>4. p # NULL
  BY <1>3, CapAssumption DEF Pointer, Handle
<1>. HIDE DEF p
<1>5. /\ arg' = [arg EXCEPT ![t] = NULL]
      /\ UNCHANGED <<cap, slots, array, objs, issued>>
      /\ \/ pc' = [pc EXCEPT ![t] = "use"] /\ ptr' = [ptr EXCEPT ![t] = p]
         \/ pc' = [pc EXCEPT ![t] = "idle"] /\ ptr' = ptr
  BY DEF Lookup, p
<1>. QED
  BY <1>1, <1>3, <1>4, <1>5 DEF CapInv, CapTypeOK

LEMMA UseStep ==
  ASSUME CapInv, NEW t \in Proc, Use(t)
  PROVE  CapInv'
BY DEF CapInv, CapTypeOK, Use

\* cap_delete(): the epoch of the emptied slot moves on by one, and only a
\* full turn of the counter could bring it back to 0.
LEMMA DeletedSlot ==
  ASSUME NEW s \in Slot
  PROVE  /\ Cleared(s) \in Slot
         /\ Cleared(s).kind = CAP_NONE /\ Cleared(s).obj = 0
         /\ Cleared(s).epoch = (s.epoch + 1) % EpochMod
         /\ s.epoch + 1 < EpochMod => Cleared(s).epoch = s.epoch + 1
<1>1. EpochMod \in Nat \ {0} /\ MaxObj \in Nat /\ s.epoch \in 0 .. EpochMod - 1
  BY CapAssumption DEF Slot
<1>2. (s.epoch + 1) % EpochMod \in 0 .. EpochMod - 1
  BY <1>1
<1>3. s.epoch + 1 < EpochMod => (s.epoch + 1) % EpochMod = s.epoch + 1
  BY <1>1
<1>4. Cleared(s) = [kind |-> CAP_NONE, epoch |-> (s.epoch + 1) % EpochMod, obj |-> 0]
  BY DEF Cleared, EmptySlot
<1>. QED
  BY <1>1, <1>2, <1>3, <1>4 DEF Slot

LEMMA DeleteStep ==
  ASSUME CapInv, NEW t \in Proc, Delete(t)
  PROVE  CapInv'
<1>1. /\ arg[t] \in 0 .. cap - 1 /\ cap \in 0 .. MaxCap
      /\ slots \in [Handle -> Slot] /\ MaxCap \in Nat /\ pc[t] = "delete"
  BY CapAssumption DEF CapInv, CapTypeOK, Delete
<1>2. arg[t] \in Handle
  BY <1>1 DEF Handle
<1>3. Cleared(slots[arg[t]]) \in Slot
  BY <1>1, <1>2, DeletedSlot
<1>4. slots' = slots \/ slots' = [slots EXCEPT ![arg[t]] = Cleared(slots[arg[t]])]
  BY DEF Delete
<1>5. slots' \in [Handle -> Slot] /\ \A h \in Handle : h # arg[t] => slots'[h] = slots[h]
  BY <1>1, <1>2, <1>3, <1>4
<1>6. \A h \in Handle : h >= cap => h # arg[t]
  BY <1>1 DEF Handle
<1>7. CapTypeOK'
  BY <1>5, <1>6 DEF CapInv, CapTypeOK, Delete
<1>. QED
  BY <1>7 DEF CapInv, CapTypeOK, Delete

\* While every epoch can count the objects, cap_delete() leaves the emptied
\* slot at an epoch under which nothing was given out.
LEMMA DeleteEpochs ==
  ASSUME MaxObj < EpochMod, EpochInv, NEW t \in Proc, Delete(t)
  PROVE  EpochInv'
<1>1. /\ arg[t] \in 0 .. cap - 1 /\ cap \in 0 .. MaxCap /\ objs \in 0 .. MaxObj
      /\ slots \in [Handle -> Slot] /\ MaxCap \in Nat /\ pc[t] = "delete"
      /\ EpochMod \in Nat \ {0} /\ MaxObj \in Nat
  BY CapAssumption DEF EpochInv, CapInv, CapTypeOK, Delete
<1>. DEFINE h == arg[t]
<1>2. h \in Handle
  BY <1>1 DEF Handle
<1>3. UNCHANGED <<cap, objs, issued>>
  BY DEF Delete
<1>4. CapInv'
  BY DeleteStep DEF EpochInv
<1>5. CASE slots[h].kind = CAP_NONE
  <2>1. slots' = slots
    BY <1>5 DEF Delete
  <2>. QED
    BY <1>3, <1>4, <2>1, TableKept
<1>6. CASE slots[h].kind # CAP_NONE
  <2>. DEFINE e == slots[h].epoch
  <2>1. e \in 0 .. EpochMod - 1 /\ slots[h] \in Slot
    BY <1>1, <1>2 DEF Slot
  <2>2. e + 1 <= objs
    BY <1>2, <1>6 DEF EpochInv, EpochsCount
  <2>3. e + 1 < EpochMod /\ e + 1 \in 0 .. EpochMod - 1
    BY <1>1, <2>1, <2>2
  <2>4. slots' = [slots EXCEPT ![h] = Cleared(slots[h])]
    BY <1>6 DEF Delete
  <2>. HIDE DEF h
  <2>5. /\ slots'[h].kind = CAP_NONE /\ slots'[h].epoch = e + 1
        /\ \A g \in Handle : g # h => slots'[g] = slots[g]
    BY <1>1, <1>2, <2>1, <2>3, <2>4, DeletedSlot
  <2>. HIDE DEF e
  <2>6. EpochsCount'
    <3>. SUFFICES ASSUME NEW g \in Handle
                  PROVE  slots'[g].epoch + (IF slots'[g].kind = CAP_NONE THEN 0 ELSE 1) <= objs
      BY <1>3 DEF EpochsCount
    <3>1. CASE g = h
      BY <1>1, <2>1, <2>2, <2>5, <3>1
    <3>2. CASE g # h
      BY <2>5, <3>2 DEF EpochInv, EpochsCount
    <3>. QED
      BY <3>1, <3>2
  <2>7. issued[<<h, e + 1>>] = {}
    <3>1. e + 1 > slots[h].epoch
      BY <2>1 DEF e
    <3>. QED
      BY <1>2, <2>3, <3>1 DEF EpochInv, IssuedSoFar
  <2>8. IssuedSoFar'
    <3>. SUFFICES ASSUME NEW g \in Handle
                  PROVE  /\ issued[<<g, slots'[g].epoch>>] =
                              IF slots'[g].kind = CAP_NONE THEN {} ELSE {slots'[g].obj}
                         /\ \A i \in 0 .. EpochMod - 1 :
                              /\ i > slots'[g].epoch => issued[<<g, i>>] = {}
                              /\ \/ issued[<<g, i>>] = {}
                                 \/ \E o \in 1 .. MaxObj : issued[<<g, i>>] = {o}
      BY <1>3 DEF IssuedSoFar
    <3>1. CASE g = h
      <4>1. issued[<<g, slots'[g].epoch>>] =
              IF slots'[g].kind = CAP_NONE THEN {} ELSE {slots'[g].obj}
        BY <2>5, <2>7, <3>1
      <4>2. ASSUME NEW i \in 0 .. EpochMod - 1, i > slots'[g].epoch
            PROVE  issued[<<g, i>>] = {}
        <5>1. i > slots[h].epoch
          BY <2>1, <2>5, <3>1, <4>2 DEF e
        <5>. QED
          BY <1>2, <3>1, <5>1 DEF EpochInv, IssuedSoFar
      <4>. QED
        BY <4>1, <4>2 DEF EpochInv, IssuedSoFar
    <3>2. CASE g # h
      BY <2>5, <3>2 DEF EpochInv, IssuedSoFar
    <3>. QED
      BY <3>1, <3>2
  <2>. QED
    BY <1>4, <2>6, <2>8 DEF EpochInv
<1>. QED
  BY <1>5, <1>6

-----------------------------------------------------------------------------
\* A step is a successful insertion, a deletion, or leaves the table alone.
LEMMA StepsOfTheTable ==
  ASSUME CapInv, [Next]_vars
  PROVE  /\ CapInv'
         /\ \/ \E t \in Proc, k \in Kinds : InsertHole(t, k) \/ InsertGrow(t, k)
            \/ \E t \in Proc : Delete(t)
            \/ UNCHANGED <<cap, slots, objs, issued>>
<1>1. CASE UNCHANGED vars
  BY <1>1 DEF vars, CapInv, CapTypeOK
<1>2. ASSUME NEW t \in Proc, NEW k \in Kinds, InsertHole(t, k) \/ InsertGrow(t, k)
      PROVE  CapInv'
  BY <1>2, InsertFills, InsertKeepsTable
<1>3. ASSUME NEW t \in Proc, NEW k \in Kinds, InsertFails(t, k)
      PROVE  UNCHANGED vars
  BY <1>3 DEF InsertFails
<1>4. ASSUME NEW t \in Proc, NEW k \in Kinds \union {CAP_NONE}, Lookup(t, k)
      PROVE  CapInv' /\ UNCHANGED <<cap, slots, objs, issued>>
  BY <1>4, LookupStep DEF Lookup
<1>5. ASSUME NEW t \in Proc, NEW h \in Handle, LookupEnter(t, h) \/ DeleteEnter(t, h)
      PROVE  CapInv' /\ UNCHANGED <<cap, slots, objs, issued>>
  BY <1>5, EnterStep DEF LookupEnter, DeleteEnter
<1>6. ASSUME NEW t \in Proc, Use(t)
      PROVE  CapInv' /\ UNCHANGED <<cap, slots, objs, issued>>
  BY <1>6, UseStep DEF Use
<1>7. ASSUME NEW t \in Proc, Delete(t)
      PROVE  CapInv'
  BY <1>7, DeleteStep
<1>8. UNCHANGED vars => UNCHANGED <<cap, slots, objs, issued>>
  BY DEF vars
<1>. QED
  BY <1>1, <1>2, <1>3, <1>4, <1>5, <1>6, <1>7, <1>8 DEF Next

\* The capacity never promises a slot the array does not have, and a handle
\* that passed the bound check with interrupts on is still in the table when
\* slots[] is indexed, for any number of threads.
THEOREM TableIsSound == Spec => []TableSound
<1>1. Init => CapInv
  BY InitHolds DEF EpochInv
<1>2. CapInv /\ [Next]_vars => CapInv'
  BY StepsOfTheTable
<1>3. CapInv => TableSound
  BY CapAssumption DEF CapInv, CapTypeOK, TableSound, CheckedBoundHolds
<1>. QED
  BY <1>1, <1>2, <1>3, PTL DEF Spec

LEMMA EpochStep ==
  ASSUME MaxObj < EpochMod, EpochInv, [Next]_vars
  PROVE  EpochInv'
<1>1. CapInv /\ CapInv'
  BY StepsOfTheTable DEF EpochInv
<1>2. ASSUME NEW t \in Proc, NEW k \in Kinds, InsertHole(t, k) \/ InsertGrow(t, k)
      PROVE  EpochInv'
  BY <1>1, <1>2, InsertFills, InsertStep
<1>3. ASSUME NEW t \in Proc, Delete(t)
      PROVE  EpochInv'
  BY <1>3, DeleteEpochs
<1>. QED
  BY <1>1, <1>2, <1>3, TableKept, StepsOfTheTable

\* As long as fewer objects than 2^32 were inserted, a handle with the epoch
\* of its slot names one object for ever: the pair that an insertion gives
\* out was never given out before.
THEOREM EpochsIdentify ==
  ASSUME MaxObj < EpochMod
  PROVE  Spec => []EpochIdentifies
<1>1. EpochInv /\ [Next]_vars => EpochInv'
  BY EpochStep
<1>2. EpochInv => EpochIdentifies
  <2>. SUFFICES ASSUME EpochInv PROVE EpochIdentifies
    OBVIOUS
  <2>1. ASSUME NEW x \in DOMAIN issued
        PROVE  Cardinality(issued[x]) <= 1
    <3>1. PICK h \in Handle, e \in 0 .. EpochMod - 1 : x = <<h, e>>
      BY DEF EpochInv, CapInv, CapTypeOK
    <3>2. issued[x] = {} \/ \E o \in 1 .. MaxObj : issued[x] = {o}
      BY <3>1 DEF EpochInv, IssuedSoFar
    <3>3. CASE issued[x] = {}
      BY <3>3, FS_EmptySet
    <3>4. ASSUME NEW o, issued[x] = {o}
          PROVE  Cardinality(issued[x]) <= 1
      <4>1. Cardinality({o}) = 1
        BY FS_Singleton
      <4>. QED
        BY <3>4, <4>1
    <3>. QED
      BY <3>2, <3>3, <3>4
  <2>2. 0 .. cap - 1 \subseteq Handle
    BY CapAssumption DEF EpochInv, CapInv, CapTypeOK, Handle
  <2>. QED
    BY <2>1, <2>2 DEF EpochIdentifies, EpochInv, IssuedSoFar
<1>. QED
  BY InitHolds, <1>1, <1>2, PTL DEF Spec

\* Under the same bound: no step points a handle in use at another object or
\* takes an epoch back.
THEOREM HandlesAreStable ==
  ASSUME MaxObj < EpochMod
  PROVE  Spec => HandlesStable
<1>. DEFINE Stable == \A h \in 0 .. cap - 1 :
       \/ slots'[h] = slots[h]
       \/ slots[h].kind = CAP_NONE /\ slots'[h].epoch = slots[h].epoch
       \/ slots'[h].kind = CAP_NONE /\ slots'[h].epoch = slots[h].epoch + 1
<1>1. EpochInv /\ [Next]_vars => EpochInv'
  BY EpochStep
<1>2. ASSUME EpochInv, [Next]_vars
      PROVE  Stable
  <2>1. /\ slots \in [Handle -> Slot] /\ objs \in 0 .. MaxObj /\ EpochMod \in Nat /\ MaxObj \in Nat
        /\ CapInv /\ 0 .. cap - 1 \subseteq Handle
    BY <1>2, CapAssumption DEF EpochInv, CapInv, CapTypeOK, Handle
  <2>2. ASSUME NEW t \in Proc, NEW k \in Kinds, InsertHole(t, k) \/ InsertGrow(t, k)
        PROVE  Stable
    <3>1. PICK h \in Handle : /\ slots[h].kind = CAP_NONE /\ Inserted(t, slots, h, k)
                              /\ cap' \in 0 .. MaxCap /\ cap' >= cap /\ h < cap'
                              /\ array' \in Nat /\ objs < MaxObj
      BY <2>1, <2>2, InsertFills
    <3>2. slots'[h].epoch = slots[h].epoch /\ \A g \in Handle : g # h => slots'[g] = slots[g]
      BY <2>1, <3>1, InsertKeepsTable
    <3>. QED
      BY <2>1, <3>1, <3>2
  <2>3. ASSUME NEW t \in Proc, Delete(t)
        PROVE  Stable
    <3>1. arg[t] \in Handle /\ slots[arg[t]] \in Slot
      BY <2>1, <2>3 DEF CapInv, Delete
    <3>2. CASE slots[arg[t]].kind = CAP_NONE
      BY <2>3, <3>2 DEF Delete
    <3>3. CASE slots[arg[t]].kind # CAP_NONE
      <4>1. slots' = [slots EXCEPT ![arg[t]] = Cleared(slots[arg[t]])]
        BY <2>3, <3>3 DEF Delete
      <4>2. slots[arg[t]].epoch + 1 < EpochMod
        <5>1. slots[arg[t]].epoch \in Nat /\ slots[arg[t]].epoch + 1 <= objs
          BY <1>2, <3>1, <3>3 DEF EpochInv, EpochsCount, Slot
        <5>. QED
          BY <2>1, <5>1
      <4>3. /\ Cleared(slots[arg[t]]).kind = CAP_NONE
            /\ Cleared(slots[arg[t]]).epoch = slots[arg[t]].epoch + 1
        BY <3>1, <4>2, DeletedSlot
      <4>. HIDE DEF Cleared
      <4>. QED
        BY <2>1, <3>1, <4>1, <4>3
    <3>. QED
      BY <3>2, <3>3
  <2>4. CASE UNCHANGED <<cap, slots, objs, issued>>
    BY <2>4
  <2>. QED
    BY <1>2, <2>1, <2>2, <2>3, <2>4, StepsOfTheTable
<1>. QED
  BY InitHolds, <1>1, <1>2, PTL DEF Spec, HandlesStable
=============================================================================
