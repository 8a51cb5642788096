------------------------------ MODULE Kmalloc ------------------------------
(***************************************************************************)
(* The kernel heap of mkrn (src/src/kern/subr_kmalloc.c): a first-fit list *)
(* of blocks in address order, each behind a header.  The list is touched  *)
(* with interrupts off, which makes one step of each such section; kfree() *)
(* reads the magic of its block before it turns them off.                  *)
(*                                                                         *)
(* A block is named by the address of its header; the pointer its caller   *)
(* holds is Hdr further.  What callers write into their blocks is not      *)
(* modelled: it is taken never to look like HDR_MAGIC, nor to set to 0 the *)
(* `free' word of a header that was absorbed into their block.             *)
(***************************************************************************)
EXTENDS Integers, FiniteSets

CONSTANTS
  Proc,       \* the threads and handlers that allocate
  HeapSize,   \* HEAP_SIZE
  Hdr,        \* sizeof(struct kmalloc_hdr)
  Align,      \* HEAP_ALIGN
  WordSize,   \* 2^32: size_t wraps at it
  Sizes,      \* BOUND: the sizes that are asked for
  NULL

ASSUME HeapAssumption ==
  /\ Hdr \in Nat \ {0} /\ Align \in Nat \ {0} /\ Hdr % Align = 0
  /\ HeapSize \in Nat /\ HeapSize > Hdr
  /\ WordSize \in Nat /\ HeapSize + Align < WordSize
  /\ Sizes \subseteq 0 .. WordSize - 1
  /\ NULL \notin Int

VARIABLES
  hdr,        \* what lies at each address, seen as a header
  live,       \* bytes asked for by the holder of a block, 0 if nobody holds it
  pc, arg,    \* where each Proc is in kfree(), and its block
  panicked,
  wronged,    \* whether somebody freed what nobody held
  reused      \* whether a block was given out while a kfree() of it, or of a
              \* block that had become part of it, stood between its two looks

vars == <<hdr, live, pc, arg, panicked, wronged, reused>>

Addr == 0 .. HeapSize - 1

\* The list from heap_head: a header is on it exactly while its magic is set.
Blocks == {a \in Addr : hdr[a].magic}
NoHdr == [magic |-> FALSE, size |-> 0, free |-> FALSE, next |-> NULL]

\* kheap_init(): one free block.
Init ==
  /\ hdr = [a \in Addr |->
              IF a = 0 THEN [magic |-> TRUE, size |-> HeapSize - Hdr,
                             free |-> TRUE, next |-> NULL]
                       ELSE NoHdr]
  /\ live = [a \in Addr |-> 0]
  /\ pc = [p \in Proc |-> "idle"] /\ arg = [p \in Proc |-> NULL]
  /\ panicked = FALSE /\ wronged = FALSE /\ reused = FALSE

-----------------------------------------------------------------------------

\* ALIGN_UP, in size_t arithmetic.
AlignUp(n) == (((n + Align - 1) % WordSize) \div Align) * Align

\* Larger than the heap with its first header.
TooBig(n) == n > HeapSize - Hdr

\* The free blocks with room for n bytes; the walk stops at the lowest.
Fits(n) == {b \in Blocks : hdr[b].free /\ hdr[b].size >= n}
FirstFit(n) == CHOOSE b \in Fits(n) : \A c \in Fits(n) : b <= c

\* Take block b for n bytes, leaving the rest as a free block if it is worth it.
Carve(b, n) ==
  LET nb == b + Hdr + n
  IN IF hdr[b].size >= n + Hdr + Align
     THEN [hdr EXCEPT
             ![nb] = [magic |-> TRUE, size |-> hdr[b].size - n - Hdr,
                      free |-> TRUE, next |-> hdr[b].next],
             ![b] = [magic |-> TRUE, size |-> n, free |-> FALSE, next |-> nb]]
     ELSE [hdr EXCEPT ![b].free = FALSE]

\* kmalloc(): NULL for 0, for too much and when nothing fits.
KmallocFails(p, n) ==
  /\ ~panicked /\ pc[p] = "idle"
  /\ n = 0 \/ TooBig(n) \/ Fits(AlignUp(n)) = {}
  /\ UNCHANGED vars

Kmalloc(p, n) ==
  /\ ~panicked /\ pc[p] = "idle"
  /\ n # 0 /\ ~TooBig(n) /\ Fits(AlignUp(n)) # {}
  /\ LET b == FirstFit(AlignUp(n))
     IN /\ hdr' = Carve(b, AlignUp(n))
        /\ live' = [live EXCEPT ![b] = n]
        /\ reused' = (reused \/ \E q \in Proc :
                        pc[q] = "free" /\ arg[q] \in b .. b + Hdr + hdr'[b].size - 1)
  /\ UNCHANGED <<pc, arg, panicked, wronged>>

-----------------------------------------------------------------------------
\* A block whose pointer a caller passes to kfree(): one that is held or, once
\* (BOUND), any address that could be one.
Freeable(b) == live[b] # 0 \/ ~wronged

\* Mutant: the magic is not looked at.
KfreeCheck_NoMagic(p, b) ==
  /\ ~panicked /\ pc[p] = "idle"
  /\ Freeable(b)
  /\ live' = [live EXCEPT ![b] = 0] /\ wronged' = (wronged \/ live[b] = 0)
  /\ pc' = [pc EXCEPT ![p] = "free"] /\ arg' = [arg EXCEPT ![p] = b]
  /\ UNCHANGED <<hdr, panicked, reused>>

\* kfree() up to cli_save(): the caller gives b up; a bad magic panics.
KfreeCheck(p, b) ==
  /\ ~panicked /\ pc[p] = "idle"
  /\ Freeable(b)
  /\ live' = [live EXCEPT ![b] = 0] /\ wronged' = (wronged \/ live[b] = 0)
  /\ IF hdr[b].magic
     THEN /\ pc' = [pc EXCEPT ![p] = "free"] /\ arg' = [arg EXCEPT ![p] = b]
          /\ UNCHANGED panicked
     ELSE panicked' = TRUE /\ UNCHANGED <<pc, arg>>
  /\ UNCHANGED <<hdr, reused>>

\* Mutant: the header of the absorbed block is not counted.
Absorb_NoHeader(h, b, c) ==
  [h EXCEPT ![b].size = h[b].size + h[c].size, ![b].next = h[c].next,
            ![c].magic = FALSE]

\* Block c, the one after b, becomes part of b and loses its magic.
Absorb(h, b, c) ==
  [h EXCEPT ![b].size = h[b].size + Hdr + h[c].size, ![b].next = h[c].next,
            ![c].magic = FALSE]

\* Mutant: it is not looked whether the next block is free.
MergeNext_Always(h, b) ==
  LET c == h[b].next IN IF c # NULL THEN Absorb(h, b, c) ELSE h

MergeNext(h, b) ==
  LET c == h[b].next
  IN IF c # NULL /\ h[c].free THEN Absorb(h, b, c) ELSE h

\* The walk from heap_head for the block that points to b: the last block if
\* none does, none at all for heap_head itself.
Prev(h, b) ==
  IF b = 0 THEN NULL
  ELSE IF \E p \in Addr : h[p].magic /\ h[p].next = b
       THEN CHOOSE p \in Addr : h[p].magic /\ h[p].next = b
       ELSE CHOOSE p \in Addr : h[p].magic /\ h[p].next = NULL

MergePrev(h, b) ==
  LET p == Prev(h, b)
  IN IF p # NULL /\ h[p].free THEN Absorb(h, p, b) ELSE h

\* kfree() with interrupts off.
KfreeCommit(p) ==
  LET b == arg[p]
      h == MergeNext([hdr EXCEPT ![b].free = TRUE], b)
  IN /\ ~panicked /\ pc[p] = "free"
     /\ IF hdr[b].free
        THEN panicked' = TRUE /\ UNCHANGED hdr
        ELSE hdr' = MergePrev(h, b) /\ UNCHANGED panicked
     /\ pc' = [pc EXCEPT ![p] = "idle"] /\ arg' = [arg EXCEPT ![p] = NULL]
     /\ UNCHANGED <<live, wronged, reused>>

Next == \E p \in Proc :
          \/ \E n \in Sizes : KmallocFails(p, n) \/ Kmalloc(p, n)
          \/ \E b \in Addr : KfreeCheck(p, b)
          \/ KfreeCommit(p)

Spec == Init /\ [][Next]_vars

-----------------------------------------------------------------------------
\* Types, and every pointer that can be handed out is aligned as its header is.
KTypeOK ==
  /\ hdr \in [Addr -> [magic : BOOLEAN, size : Nat, free : BOOLEAN,
                       next : Addr \union {NULL}]]
  /\ live \in [Addr -> Nat]
  /\ pc \in [Proc -> {"idle", "free"}]
  /\ arg \in [Proc -> Addr \union {NULL}]
  /\ panicked \in BOOLEAN /\ wronged \in BOOLEAN /\ reused \in BOOLEAN
  /\ \A a \in Blocks : a % Align = 0

End(b) == b + Hdr + hdr[b].size

\* The list tiles the heap: it starts at heap_head, each block ends where the
\* next one starts, the last at the end of the heap, and none lies in another.
Tiled ==
  /\ 0 \in Blocks
  /\ \A b \in Blocks :
       /\ End(b) <= HeapSize
       /\ hdr[b].next = IF End(b) = HeapSize THEN NULL ELSE End(b)
       /\ End(b) < HeapSize => End(b) \in Blocks
       /\ \A c \in Blocks : b < c => End(b) <= c

\* kfree() leaves no two neighbouring free blocks, so that the heap does not
\* fragment for good: `pra nao fragmentar a toa'.
NoAdjacentFree ==
  \A b \in Blocks : hdr[b].free /\ hdr[b].next # NULL => ~hdr[hdr[b].next].free

\* Memory that is held belongs to one holder: it lies in the heap and meets
\* neither another held block nor any header of the list, as long as nobody
\* frees what he does not hold.
LiveDisjoint == ~wronged =>
  \A a \in Addr : live[a] # 0 =>
    /\ a + Hdr + live[a] <= HeapSize
    /\ \A b \in Blocks \ {a} : b + Hdr <= a + Hdr \/ a + Hdr + live[a] <= b
    /\ \A b \in Addr \ {a} : live[b] # 0 =>
         b + Hdr + live[b] <= a \/ a + Hdr + live[a] <= b

\* Exactly the blocks that are held, or are on their way through kfree(), are
\* not free: nothing is lost and nothing held can be given out again, as long as
\* nobody frees what he does not hold.
NothingLost == ~wronged =>
  \A b \in Blocks :
    ~hdr[b].free <=> live[b] # 0 \/ \E p \in Proc : pc[p] = "free" /\ arg[p] = b

\* Callers that free what they hold, once, never see kfree() panic, however
\* their calls interleave with those of others.
NeverPanics == panicked => wronged

\* The heap through every interleaving of kmalloc() and of both halves of
\* kfree(): the list tiles it, aligned, with no two free neighbours; what is
\* held is disjoint, and a correct caller meets no panic.
HeapSound == KTypeOK /\ Tiled /\ NoAdjacentFree /\ LiveDisjoint /\ NeverPanics

\* `um double-free bate nesse magic zerado e vira panic()': once no kfree() is on
\* its way any more, a free of what nobody held has panicked, its own or, of two
\* frees of one block, the later one.  Except (reused) when the block was given
\* out between the look at its magic, with interrupts on, and the look at `free':
\* then the memory of its new holder is freed and nobody is told.
DoubleFreePanics ==
  wronged /\ ~reused => panicked \/ \E p \in Proc : pc[p] = "free"
=============================================================================
