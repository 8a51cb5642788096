-------------------------------- MODULE Cap --------------------------------
(***************************************************************************)
(* The capability table of a task (src/src/kern/subr_cap.c), shared by the *)
(* task's threads.  Each operation works on slots[] with interrupts off:   *)
(* that part is one step.  The bound check before it, and what the caller  *)
(* of cap_lookup() does with the pointer after it, are steps of their own. *)
(*                                                                         *)
(* Arrays of slots are numbered in the order kmalloc() gives them out; one *)
(* that captbl_grow() has freed is never used again under its number.      *)
(***************************************************************************)
EXTENDS Integers, FiniteSets

CONSTANTS
  Proc,       \* the threads of the task
  Kinds,      \* the kinds in use, CAP_NONE not among them
  CAP_NONE,
  NULL,
  Initial,    \* CAPTBL_INITIAL
  MaxCap,     \* BOUND: kmalloc() refuses arrays longer than this
  MaxObj,     \* BOUND: capabilities inserted
  EpochMod    \* 2^32: epoch wraps at it

ASSUME CapAssumption ==
  /\ Initial \in Nat \ {0} /\ MaxCap \in Nat /\ Initial <= MaxCap
  /\ MaxObj \in Nat
  /\ EpochMod \in Nat \ {0}
  /\ CAP_NONE \notin Kinds
  /\ NULL \notin Int
  /\ NULL \notin [array : Int, h : Int, kind : Kinds \union {CAP_NONE}, obj : Int]

VARIABLES
  cap, slots,     \* struct captbl
  array,          \* the number of the array slots points to
  pc, arg,        \* where each thread is, with which handle
  ptr,            \* the struct capslot * each thread got, or NULL
  objs,           \* how many objects were inserted; the next one's number
  issued          \* history: (handle, epoch) -> the object inserted under it

vars == <<cap, slots, array, pc, arg, ptr, objs, issued>>

Handle == 0 .. MaxCap - 1
Slot == [kind : Kinds \union {CAP_NONE}, epoch : 0 .. EpochMod - 1,
         obj : 0 .. MaxObj]
Pointer == [array : Nat, h : Handle, kind : Kinds \union {CAP_NONE},
            obj : 0 .. MaxObj]
EmptySlot == [kind |-> CAP_NONE, epoch |-> 0, obj |-> 0]

\* captbl_create(): no slots yet.  obj 0 is a null pointer.
Init ==
  /\ cap = 0 /\ array = 0
  /\ slots = [h \in Handle |-> EmptySlot]
  /\ pc = [t \in Proc |-> "idle"] /\ arg = [t \in Proc |-> NULL]
  /\ ptr = [t \in Proc |-> NULL]
  /\ objs = 0
  /\ issued = [x \in Handle \X (0 .. EpochMod - 1) |-> {}]

-----------------------------------------------------------------------------
\* captbl_grow(): double the table; kmalloc() may have no room.
NewCap == IF cap = 0 THEN Initial ELSE cap * 2
Free == {h \in 0 .. cap - 1 : slots[h].kind = CAP_NONE}

\* Mutant: the copied slots start over with epoch 0.
Grown_NewEpochs == [h \in Handle |-> IF h < cap THEN [slots[h] EXCEPT !.epoch = 0]
                                     ELSE EmptySlot]

\* The slots of the new array: the old ones copied, the rest empty.
Grown == [h \in Handle |-> IF h < cap THEN slots[h] ELSE EmptySlot]

\* Mutant: the slot's epoch starts over with each capability.
Put_NewEpoch(table, h, k, o) ==
  [table EXCEPT ![h] = [kind |-> k, epoch |-> 0, obj |-> o]]

\* The slot is filled; its epoch stays.
Put(table, h, k, o) ==
  [table EXCEPT ![h].kind = k, ![h].obj = o]

\* What cap_insert() leaves behind for handle h of the table.
Inserted(t, table, h, k) ==
  /\ slots' = Put(table, h, k, objs + 1)
  /\ objs' = objs + 1
  /\ issued' = [issued EXCEPT ![<<h, slots'[h].epoch>>] = @ \union {objs + 1}]
  /\ UNCHANGED <<pc, arg, ptr>>

\* cap_insert() into the first hole.
InsertHole(t, k) ==
  /\ pc[t] = "idle" /\ objs < MaxObj
  /\ Free # {}
  /\ LET h == CHOOSE h \in Free : \A g \in Free : h <= g
     IN Inserted(t, slots, h, k)
  /\ UNCHANGED <<cap, array>>

\* cap_insert() into a table that grows first.
InsertGrow(t, k) ==
  /\ pc[t] = "idle" /\ objs < MaxObj
  /\ Free = {} /\ NewCap <= MaxCap
  /\ Inserted(t, Grown, cap, k)
  /\ cap' = NewCap /\ array' = array + 1

\* cap_insert() when it cannot grow: CAP_INVALID, and nothing changes.
InsertFails(t, k) ==
  /\ pc[t] = "idle" /\ objs < MaxObj
  /\ Free = {}
  /\ UNCHANGED vars

-----------------------------------------------------------------------------
\* Mutant: off by one.
InTable_OffByOne(h) == h <= cap

\* handle >= t->cap, read before cli_save().
InTable(h) == h < cap

\* cap_lookup() and cap_delete() up to cli_save().
LookupEnter(t, h) ==
  /\ pc[t] = "idle"
  /\ InTable(h)
  /\ pc' = [pc EXCEPT ![t] = "lookup"] /\ arg' = [arg EXCEPT ![t] = h]
  /\ UNCHANGED <<cap, slots, array, ptr, objs, issued>>

DeleteEnter(t, h) ==
  /\ pc[t] = "idle"
  /\ InTable(h)
  /\ pc' = [pc EXCEPT ![t] = "delete"] /\ arg' = [arg EXCEPT ![t] = h]
  /\ UNCHANGED <<cap, slots, array, ptr, objs, issued>>

\* cap_lookup() with interrupts off: a pointer into slots[] if the kind agrees.
Lookup(t, k) ==
  /\ pc[t] = "lookup"
  /\ IF slots[arg[t]].kind = k
     THEN /\ pc' = [pc EXCEPT ![t] = "use"]
          /\ ptr' = [ptr EXCEPT ![t] = [array |-> array, h |-> arg[t], kind |-> k,
                                        obj |-> slots[arg[t]].obj]]
     ELSE pc' = [pc EXCEPT ![t] = "idle"] /\ UNCHANGED ptr
  /\ arg' = [arg EXCEPT ![t] = NULL]
  /\ UNCHANGED <<cap, slots, array, objs, issued>>

\* The caller reads the slot through the pointer and drops it.
Use(t) ==
  /\ pc[t] = "use"
  /\ pc' = [pc EXCEPT ![t] = "idle"] /\ ptr' = [ptr EXCEPT ![t] = NULL]
  /\ UNCHANGED <<cap, slots, array, arg, objs, issued>>

\* An emptied slot; its epoch moves on.
Cleared(s) == [EmptySlot EXCEPT !.epoch = (s.epoch + 1) % EpochMod]

\* cap_delete() with interrupts off: -1 for an empty slot.
Delete(t) ==
  /\ pc[t] = "delete"
  /\ IF slots[arg[t]].kind = CAP_NONE
     THEN UNCHANGED slots
     ELSE slots' = [slots EXCEPT ![arg[t]] = Cleared(@)]
  /\ pc' = [pc EXCEPT ![t] = "idle"] /\ arg' = [arg EXCEPT ![t] = NULL]
  /\ UNCHANGED <<cap, array, ptr, objs, issued>>

Next == \E t \in Proc :
          \/ \E k \in Kinds : \/ InsertHole(t, k) \/ InsertGrow(t, k)
                              \/ InsertFails(t, k)
          \/ \E k \in Kinds \union {CAP_NONE} : Lookup(t, k)
          \/ \E h \in Handle : LookupEnter(t, h) \/ DeleteEnter(t, h)
          \/ Use(t) \/ Delete(t)

Spec == Init /\ [][Next]_vars
-----------------------------------------------------------------------------
\* Types.  A slot beyond the table is empty.
CapTypeOK ==
  /\ cap \in 0 .. MaxCap /\ array \in Nat
  /\ slots \in [Handle -> Slot]
  /\ \A h \in Handle : h >= cap => slots[h] = EmptySlot
  /\ pc \in [Proc -> {"idle", "lookup", "delete", "use"}]
  /\ arg \in [Proc -> Handle \union {NULL}]
  /\ ptr \in [Proc -> Pointer \union {NULL}]
  /\ \A t \in Proc : pc[t] = "use" <=> ptr[t] # NULL
  /\ objs \in 0 .. MaxObj
  /\ issued \in [Handle \X (0 .. EpochMod - 1) -> SUBSET (1 .. MaxObj)]

\* A handle with the epoch of its slot names one object for ever, through
\* deletions, recycling and growth of the table (sys/cap.h: epoch exists `pra
\* detectar handle velho apontando pra um slot reciclado'): a pair that is not
\* in use has never been, and one that is in use was given out once.
EpochIdentifies ==
  /\ \A x \in DOMAIN issued : Cardinality(issued[x]) <= 1
  /\ \A h \in 0 .. cap - 1 :
       issued[<<h, slots[h].epoch>>] =
         IF slots[h].kind = CAP_NONE THEN {} ELSE {slots[h].obj}

\* The bound that cap_lookup() and cap_delete() checked with interrupts on
\* still holds when they index slots[] with interrupts off.
CheckedBoundHolds ==
  \A t \in Proc : pc[t] \in {"lookup", "delete"} => arg[t] < cap

\* The table holds what its capacity says, at every step of calls that overlap.
TableSound == CapTypeOK /\ CheckedBoundHolds

\* A handle in use is not pointed at anything else, and an epoch never goes
\* back, whatever other threads insert and however often the table grows.
HandlesStable ==
  [][\A h \in 0 .. cap - 1 :
       \/ slots'[h] = slots[h]
       \/ slots[h].kind = CAP_NONE /\ slots'[h].epoch = slots[h].epoch
       \/ slots'[h].kind = CAP_NONE /\ slots'[h].epoch = slots[h].epoch + 1]_vars

\* cap.h says of the pointer cap_lookup() returns that its growth is `nunca um
\* problema' for a caller that reads the slot at once.  [Refuted: the timer may
\* run another thread of the task between the lookup and the read.]
PointUseSafe == \A t \in Proc : pc[t] = "use" => ptr[t].array = array
=============================================================================
