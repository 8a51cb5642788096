--------------------------- MODULE KmallocProofs ----------------------------
(***************************************************************************)
(* Proofs about the kernel heap (Kmalloc), for heaps, headers, alignments  *)
(* and requests of every size.                                             *)
(***************************************************************************)
EXTENDS Kmalloc, Arithmetic

\* The list in a heap h: what Tiled and KTypeOK say of hdr, and that the walk
\* from heap_head comes to every block.
Header == [magic : BOOLEAN, size : Nat, free : BOOLEAN, next : Addr \union {NULL}]
BlocksOf(h) == {a \in Addr : h[a].magic}
EndOf(h, b) == b + Hdr + h[b].size

Tiles(h, b) ==
  /\ EndOf(h, b) <= HeapSize
  /\ h[b].next = IF EndOf(h, b) = HeapSize THEN NULL ELSE EndOf(h, b)
  /\ EndOf(h, b) < HeapSize => EndOf(h, b) \in BlocksOf(h)
  /\ \A c \in BlocksOf(h) : b < c => EndOf(h, b) <= c

Shape(h) ==
  /\ h \in [Addr -> Header]
  /\ \A b \in BlocksOf(h) : b % Align = 0
  /\ 0 \in BlocksOf(h)
  /\ \A b \in BlocksOf(h) : Tiles(h, b)
  /\ \A b \in BlocksOf(h) \ {0} : \E p \in BlocksOf(h) : h[p].next = b

\* Storing into one field of one header.
LEMMA SetSize ==
  ASSUME NEW h \in [Addr -> Header], NEW b \in Addr, NEW v \in Nat
  PROVE  /\ [h EXCEPT ![b].size = v] \in [Addr -> Header]
         /\ [h EXCEPT ![b].size = v][b].size = v
         /\ [h EXCEPT ![b].size = v][b].magic = h[b].magic
         /\ [h EXCEPT ![b].size = v][b].free = h[b].free
         /\ [h EXCEPT ![b].size = v][b].next = h[b].next
         /\ \A a \in Addr \ {b} : [h EXCEPT ![b].size = v][a] = h[a]
BY DEF Header

LEMMA SetNext ==
  ASSUME NEW h \in [Addr -> Header], NEW b \in Addr, NEW v \in Addr \union {NULL}
  PROVE  /\ [h EXCEPT ![b].next = v] \in [Addr -> Header]
         /\ [h EXCEPT ![b].next = v][b].next = v
         /\ [h EXCEPT ![b].next = v][b].magic = h[b].magic
         /\ [h EXCEPT ![b].next = v][b].size = h[b].size
         /\ [h EXCEPT ![b].next = v][b].free = h[b].free
         /\ \A a \in Addr \ {b} : [h EXCEPT ![b].next = v][a] = h[a]
BY DEF Header

LEMMA ClearMagic ==
  ASSUME NEW h \in [Addr -> Header], NEW b \in Addr
  PROVE  /\ [h EXCEPT ![b].magic = FALSE] \in [Addr -> Header]
         /\ ~[h EXCEPT ![b].magic = FALSE][b].magic
         /\ [h EXCEPT ![b].magic = FALSE][b].size = h[b].size
         /\ [h EXCEPT ![b].magic = FALSE][b].free = h[b].free
         /\ [h EXCEPT ![b].magic = FALSE][b].next = h[b].next
         /\ \A a \in Addr \ {b} : [h EXCEPT ![b].magic = FALSE][a] = h[a]
BY DEF Header

LEMMA ClearFree ==
  ASSUME NEW h \in [Addr -> Header], NEW b \in Addr
  PROVE  /\ [h EXCEPT ![b].free = FALSE] \in [Addr -> Header]
         /\ ~[h EXCEPT ![b].free = FALSE][b].free
         /\ [h EXCEPT ![b].free = FALSE][b].magic = h[b].magic
         /\ [h EXCEPT ![b].free = FALSE][b].size = h[b].size
         /\ [h EXCEPT ![b].free = FALSE][b].next = h[b].next
         /\ \A a \in Addr \ {b} : [h EXCEPT ![b].free = FALSE][a] = h[a]
BY DEF Header

LEMMA SetFree ==
  ASSUME NEW h \in [Addr -> Header], NEW b \in Addr
  PROVE  /\ [h EXCEPT ![b].free = TRUE] \in [Addr -> Header]
         /\ [h EXCEPT ![b].free = TRUE][b].free
         /\ [h EXCEPT ![b].free = TRUE][b].magic = h[b].magic
         /\ [h EXCEPT ![b].free = TRUE][b].size = h[b].size
         /\ [h EXCEPT ![b].free = TRUE][b].next = h[b].next
         /\ \A a \in Addr \ {b} : [h EXCEPT ![b].free = TRUE][a] = h[a]
BY DEF Header

\* A change of nothing but the free flags does not change the list.
LEMMA FlagsOnly ==
  ASSUME NEW h, Shape(h), NEW g \in [Addr -> Header],
         \A a \in Addr : /\ g[a].magic = h[a].magic /\ g[a].size = h[a].size
                         /\ g[a].next = h[a].next
  PROVE  Shape(g) /\ BlocksOf(g) = BlocksOf(h)
<1>1. BlocksOf(g) = BlocksOf(h)
  BY DEF BlocksOf
<1>2. \A b \in BlocksOf(h) : EndOf(g, b) = EndOf(h, b) /\ g[b].next = h[b].next
  BY DEF EndOf, BlocksOf
<1>. QED
  BY <1>1, <1>2 DEF Shape, Tiles

\* The next block starts where its predecessor ends.
LEMMA NextBlock ==
  ASSUME NEW h, Shape(h), NEW b \in BlocksOf(h), h[b].next # NULL
  PROVE  /\ h[b].next \in BlocksOf(h)
         /\ h[b].next = EndOf(h, b)
         /\ b < h[b].next
<1>1. Hdr \in Nat \ {0} /\ HeapSize \in Nat
  BY HeapAssumption
<1>2. b \in Nat /\ h[b].size \in Nat /\ Tiles(h, b)
  BY <1>1 DEF Shape, BlocksOf, Header, Addr
<1>. QED
  BY <1>1, <1>2 DEF Tiles, EndOf

\* One block at most points to a block.
LEMMA OnePredecessor ==
  ASSUME NEW h, Shape(h), NEW p \in BlocksOf(h), NEW q \in BlocksOf(h),
         h[p].next # NULL, h[p].next = h[q].next
  PROVE  p = q
<1>1. p \in Nat /\ q \in Nat
  BY HeapAssumption DEF BlocksOf, Addr
<1>2. h[p].next = EndOf(h, p) /\ h[q].next = EndOf(h, q) /\ p < EndOf(h, p) /\ q < EndOf(h, q)
  BY NextBlock
<1>3. /\ p < q => EndOf(h, p) <= q
      /\ q < p => EndOf(h, q) <= p
  BY DEF Shape, Tiles
<1>4. EndOf(h, p) \in Int /\ EndOf(h, q) \in Int
  BY <1>1, HeapAssumption DEF EndOf, Shape, Header, BlocksOf
<1>5. EndOf(h, p) = EndOf(h, q)
  BY <1>2
<1>6. ~(p < q) /\ ~(q < p)
  BY <1>1, <1>2, <1>3, <1>4, <1>5
<1>. QED
  BY <1>1, <1>6

\* A block b absorbs the one after it.
LEMMA AbsorbShape ==
  ASSUME NEW h, Shape(h), NEW b \in BlocksOf(h), NEW c, c = h[b].next, c # NULL
  PROVE  /\ Shape(Absorb(h, b, c))
         /\ BlocksOf(Absorb(h, b, c)) = BlocksOf(h) \ {c}
         /\ Absorb(h, b, c)[b].next = h[c].next
         /\ Absorb(h, b, c)[b].size = h[b].size + Hdr + h[c].size
         /\ \A a \in Addr : Absorb(h, b, c)[a].free = h[a].free
         /\ \A a \in Addr \ {b} : /\ Absorb(h, b, c)[a].next = h[a].next
                                  /\ Absorb(h, b, c)[a].size = h[a].size
<1>. DEFINE g == Absorb(h, b, c)
<1>1. /\ h \in [Addr -> Header] /\ Hdr \in Nat \ {0} /\ HeapSize \in Nat /\ NULL \notin Addr
      /\ Addr = 0 .. HeapSize - 1
  BY HeapAssumption DEF Shape, Addr
<1>2. b \in Addr /\ c \in BlocksOf(h) /\ c \in Addr /\ c = EndOf(h, b) /\ b < c
  BY NextBlock DEF BlocksOf
<1>3. h[b] \in Header /\ h[c] \in Header
  BY <1>1, <1>2
<1>. DEFINE size == h[b].size + Hdr + h[c].size
            g1 == [h EXCEPT ![b].size = size]
            g2 == [g1 EXCEPT ![b].next = h[c].next]
<1>4. /\ g1 \in [Addr -> Header]
      /\ g1[b].magic = h[b].magic /\ g1[b].free = h[b].free /\ g1[b].next = h[b].next
      /\ g1[b].size = size
      /\ \A a \in Addr \ {b} : g1[a] = h[a]
  <2>1. size \in Nat
    BY <1>1, <1>3 DEF Header
  <2>2. h \in [Addr -> Header] /\ b \in Addr
    BY <1>1, <1>2
  <2>. HIDE DEF size
  <2>. QED
    BY <2>1, <2>2, SetSize
<1>5. g = [g2 EXCEPT ![c].magic = FALSE]
  BY DEF Absorb
<1>. HIDE DEF g1
<1>6. /\ g2 \in [Addr -> Header]
      /\ g2[b].magic = h[b].magic /\ g2[b].free = h[b].free /\ g2[b].next = h[c].next
      /\ g2[b].size = h[b].size + Hdr + h[c].size
      /\ \A a \in Addr \ {b} : g2[a] = h[a]
  <2>1. h[c].next \in Addr \union {NULL}
    BY <1>3 DEF Header
  <2>. QED
    BY <1>2, <1>4, <2>1, SetNext
<1>. HIDE DEF g2, g
<1>7. /\ g \in [Addr -> Header]
      /\ ~g[c].magic /\ g[c].free = h[c].free /\ g[c].next = h[c].next
      /\ g[c].size = h[c].size
      /\ \A a \in Addr \ {c} : g[a] = g2[a]
  <2>1. g2[c] = h[c]
    BY <1>1, <1>2, <1>6
  <2>. QED
    BY <1>2, <1>5, <1>6, <2>1, ClearMagic
<1>8. /\ g[b].magic = h[b].magic /\ g[b].free = h[b].free /\ g[b].next = h[c].next
      /\ g[b].size = h[b].size + Hdr + h[c].size
      /\ \A a \in Addr \ {b, c} : g[a] = h[a]
  BY <1>1, <1>2, <1>6, <1>7
<1>9. BlocksOf(g) = BlocksOf(h) \ {c}
  BY <1>2, <1>7, <1>8 DEF BlocksOf
<1>10. /\ \A a \in Addr : g[a].free = h[a].free
      /\ \A a \in Addr \ {b} : g[a].next = h[a].next /\ g[a].size = h[a].size
  BY <1>7, <1>8
<1>11. /\ EndOf(g, b) = EndOf(h, c)
      /\ \A a \in Addr \ {b} : EndOf(g, a) = EndOf(h, a)
  <2>1. h[b].size \in Nat /\ h[c].size \in Nat /\ b \in Nat
    BY <1>1, <1>2, <1>3 DEF Header
  <2>2. c = b + Hdr + h[b].size
    BY <1>2 DEF EndOf
  <2>3. EndOf(g, b) = b + Hdr + (h[b].size + Hdr + h[c].size)
    BY <1>7, <1>8 DEF EndOf
  <2>4. EndOf(g, b) = EndOf(h, c)
    BY <1>1, <2>1, <2>2, <2>3 DEF EndOf
  <2>. QED
    BY <1>10, <2>4 DEF EndOf
<1>12. \A a \in BlocksOf(h) : Tiles(h, a)
  BY DEF Shape
<1>13. \A a \in BlocksOf(h) : a \in Addr /\ EndOf(h, a) \in Nat /\ a < EndOf(h, a)
  BY <1>1 DEF BlocksOf, EndOf, Header
<1>14. ASSUME NEW a \in BlocksOf(g)
       PROVE  Tiles(g, a)
  <2>1. CASE a = b
    <3>1. Tiles(h, b) /\ Tiles(h, c)
      BY <1>2, <1>12
    <3>2. EndOf(h, c) # c
      BY <1>1, <1>2, <1>13
    <3>. QED
      BY <1>1, <1>2, <1>7, <1>8, <1>9, <1>11, <1>13, <2>1, <3>1, <3>2 DEF Tiles
  <2>2. CASE a # b
    <3>1. a \in BlocksOf(h) /\ a # c /\ a \in Addr /\ Tiles(h, a) /\ EndOf(g, a) = EndOf(h, a)
          /\ g[a].next = h[a].next
      BY <1>9, <1>10, <1>11, <1>12, <1>13, <2>2
    <3>2. EndOf(h, a) # c
      <4>1. SUFFICES ASSUME EndOf(h, a) = c PROVE FALSE
        OBVIOUS
      <4>2. h[a].next = c
        BY <1>1, <1>2, <3>1, <4>1 DEF Tiles
      <4>. QED
        BY <2>2, <3>1, <4>2, OnePredecessor
    <3>. QED
      BY <1>9, <3>1, <3>2 DEF Tiles
  <2>. QED
    BY <2>1, <2>2
<1>15. 0 \in BlocksOf(g)
  BY <1>1, <1>2, <1>9 DEF Shape
<1>16. ASSUME NEW a \in BlocksOf(g) \ {0}
       PROVE  \E p \in BlocksOf(g) : g[p].next = a
  <2>1. PICK p \in BlocksOf(h) : h[p].next = a
    BY <1>9 DEF Shape
  <2>2. CASE p = c
    BY <1>2, <1>7, <1>8, <1>9, <2>1, <2>2
  <2>3. CASE p # c
    <3>1. p # b
      BY <1>9, <2>1
    <3>. QED
      BY <1>9, <1>10, <1>13, <2>1, <2>3, <3>1
  <2>. QED
    BY <2>2, <2>3
<1>17. Shape(g)
  BY <1>7, <1>9, <1>14, <1>15, <1>16 DEF Shape
<1>. QED
  BY <1>7, <1>8, <1>9, <1>10, <1>17 DEF g

\* A block b is split: n bytes stay with it, the rest is a free block.
Split(h, b, n) ==
  LET nb == b + Hdr + n
  IN [h EXCEPT ![nb] = [magic |-> TRUE, size |-> h[b].size - n - Hdr,
                        free |-> TRUE, next |-> h[b].next],
               ![b] = [magic |-> TRUE, size |-> n, free |-> FALSE, next |-> nb]]

LEMMA SplitShape ==
  ASSUME NEW h, Shape(h), NEW b \in BlocksOf(h), NEW n \in Nat, n % Align = 0,
         h[b].size >= n + Hdr + Align,
         NEW nb, nb = b + Hdr + n, NEW g, g = Split(h, b, n)
  PROVE  /\ Shape(g)
         /\ BlocksOf(g) = BlocksOf(h) \union {nb}
         /\ nb \in Addr /\ nb # b /\ nb \notin BlocksOf(h)
         /\ g[b].next = nb /\ g[nb].next = h[b].next
         /\ g[b].size = n /\ ~g[b].free /\ g[nb].free
         /\ \A a \in Addr \ {b, nb} : g[a] = h[a]
<1>1. /\ h \in [Addr -> Header] /\ Hdr \in Nat \ {0} /\ HeapSize \in Nat /\ NULL \notin Int
      /\ Addr = 0 .. HeapSize - 1 /\ Align \in Nat \ {0} /\ Hdr % Align = 0
  BY HeapAssumption DEF Shape, Addr
<1>2. b \in Addr /\ h[b] \in Header /\ Tiles(h, b) /\ b % Align = 0
  BY <1>1 DEF BlocksOf, Shape
<1>. DEFINE s == h[b].size
            rest == s - n - Hdr
            x == h[b].next
<1>3. s \in Nat /\ x \in Addr \union {NULL} /\ b \in Nat /\ rest \in Nat
      /\ s >= n + Hdr + Align
  BY <1>1, <1>2 DEF Header
<1>4. /\ EndOf(h, b) = b + Hdr + s /\ EndOf(h, b) <= HeapSize
      /\ \A c \in BlocksOf(h) : b < c => EndOf(h, b) <= c
  BY <1>2 DEF Tiles, EndOf
<1>. HIDE DEF s
<1>5. nb \in Addr /\ b < nb /\ nb < EndOf(h, b) /\ nb + Hdr + rest = EndOf(h, b)
      /\ EndOf(h, b) \in Nat
  <2>1. rest = s - n - Hdr
    OBVIOUS
  <2>. HIDE DEF rest
  <2>. QED
    BY <1>1, <1>3, <1>4, <2>1
<1>6. nb \notin BlocksOf(h)
  <2>. SUFFICES ASSUME nb \in BlocksOf(h) PROVE FALSE
    OBVIOUS
  <2>1. EndOf(h, b) <= nb
    BY <1>4, <1>5
  <2>. QED
    BY <1>1, <1>5, <2>1
<1>. HIDE DEF rest, x
<1>7. /\ g \in [Addr -> Header]
      /\ g[b] = [magic |-> TRUE, size |-> n, free |-> FALSE, next |-> nb]
      /\ g[nb] = [magic |-> TRUE, size |-> rest, free |-> TRUE, next |-> x]
      /\ \A a \in Addr \ {b, nb} : g[a] = h[a]
  <2>1. g = [h EXCEPT ![nb] = [magic |-> TRUE, size |-> rest, free |-> TRUE, next |-> x],
                      ![b] = [magic |-> TRUE, size |-> n, free |-> FALSE, next |-> nb]]
    BY DEF Split, rest, x, s
  <2>2. /\ [magic |-> TRUE, size |-> rest, free |-> TRUE, next |-> x] \in Header
        /\ [magic |-> TRUE, size |-> n, free |-> FALSE, next |-> nb] \in Header
    BY <1>3, <1>5 DEF Header
  <2>3. h \in [Addr -> Header] /\ b \in Addr /\ nb \in Addr /\ b # nb
    BY <1>1, <1>2, <1>3, <1>5
  <2>. QED
    BY <2>1, <2>2, <2>3
<1>8. BlocksOf(g) = BlocksOf(h) \union {nb}
  BY <1>5, <1>7 DEF BlocksOf
<1>9. /\ g[b].size = n /\ g[b].next = nb /\ ~g[b].free
      /\ g[nb].size = rest /\ g[nb].next = x /\ g[nb].free
  BY <1>7
<1>10. /\ EndOf(g, b) = nb /\ EndOf(g, nb) = EndOf(h, b)
       /\ \A a \in Addr \ {b, nb} : EndOf(g, a) = EndOf(h, a)
  BY <1>5, <1>7, <1>9 DEF EndOf
<1>11. \A a \in BlocksOf(h) : a \in Addr /\ EndOf(h, a) \in Nat /\ a < EndOf(h, a) /\ Tiles(h, a)
  BY <1>1 DEF BlocksOf, EndOf, Header, Shape
<1>12. ASSUME NEW a \in BlocksOf(g)
       PROVE  Tiles(g, a)
  <2>1. CASE a = b
    <3>1. ASSUME NEW c \in BlocksOf(g), b < c
          PROVE  nb <= c
      <4>1. CASE c = nb
        BY <1>1, <1>5, <4>1
      <4>2. CASE c \in BlocksOf(h)
        <5>1. EndOf(h, b) <= c /\ c \in Nat
          BY <1>1, <1>4, <1>11, <3>1, <4>2
        <5>. QED
          BY <1>1, <1>5, <5>1
      <4>. QED
        BY <1>8, <4>1, <4>2
    <3>2. nb < HeapSize /\ nb # HeapSize /\ nb <= HeapSize
      <4>1. HeapSize \in Nat /\ nb \in 0 .. HeapSize - 1
        BY <1>1, <1>5
      <4>. QED
        BY <4>1
    <3>3. nb \in BlocksOf(g)
      BY <1>8
    <3>4. EndOf(g, a) = nb /\ g[a].next = nb /\ \A c \in BlocksOf(g) : a < c => nb <= c
      BY <1>9, <1>10, <2>1, <3>1
    <3>. QED
      BY <3>2, <3>3, <3>4 DEF Tiles
  <2>2. CASE a = nb
    <3>1. ASSUME NEW c \in BlocksOf(g), nb < c
          PROVE  EndOf(h, b) <= c
      <4>1. c \in BlocksOf(h) /\ c \in Nat /\ nb \in Nat
        <5>1. c \in BlocksOf(g) /\ c # nb /\ nb \in Nat
          BY <1>1, <1>5, <3>1
        <5>2. c \in BlocksOf(h)
          BY <1>8, <5>1
        <5>3. c \in Addr
          BY <1>11, <5>2
        <5>. QED
          BY <1>1, <5>1, <5>2, <5>3
      <4>2. b < c
        BY <1>3, <1>5, <3>1, <4>1
      <4>. QED
        BY <1>4, <4>1, <4>2
    <3>2. x = IF EndOf(h, b) = HeapSize THEN NULL ELSE EndOf(h, b)
      BY <1>2 DEF Tiles, x
    <3>3. EndOf(h, b) <= HeapSize /\ (EndOf(h, b) < HeapSize => EndOf(h, b) \in BlocksOf(g))
      BY <1>2, <1>8 DEF Tiles
    <3>. QED
      BY <1>9, <1>10, <2>2, <3>1, <3>2, <3>3 DEF Tiles
  <2>3. CASE a # b /\ a # nb
    <3>1. /\ a \in BlocksOf(h) /\ a \in Addr /\ Tiles(h, a) /\ EndOf(g, a) = EndOf(h, a)
          /\ g[a].next = h[a].next
      BY <1>7, <1>8, <1>10, <1>11, <2>3
    <3>2. a < nb => EndOf(h, a) <= nb
      <4>1. CASE a < b
        <5>1. EndOf(h, a) <= b
          BY <1>2, <3>1, <4>1 DEF Tiles
        <5>. QED
          BY <1>1, <1>3, <1>5, <1>11, <3>1, <5>1
      <4>2. CASE a > b
        <5>1. EndOf(h, b) <= a
          BY <1>2, <3>1, <4>2 DEF Tiles
        <5>2. nb < a /\ nb \in Nat /\ a \in Nat
          BY <1>1, <1>5, <3>1, <5>1
        <5>. QED
          BY <5>2
      <4>. QED
        BY <1>1, <1>3, <2>3, <3>1, <4>1, <4>2
    <3>. QED
      BY <1>8, <3>1, <3>2 DEF Tiles
  <2>. QED
    BY <2>1, <2>2, <2>3
<1>13. ASSUME NEW a \in BlocksOf(g)
       PROVE  a % Align = 0
  <2>1. (b + Hdr) % Align = 0 /\ b + Hdr \in Nat
    <3>1. Hdr \in Nat /\ b \in Nat /\ b % Align = 0 /\ Hdr % Align = 0 /\ Align \in Nat \ {0}
      BY <1>1, <1>2, <1>3
    <3>. QED
      BY <3>1, Multiples
  <2>2. nb % Align = 0
    <3>1. ((b + Hdr) + n) % Align = 0
      BY <1>1, <2>1, Multiples
    <3>2. nb = (b + Hdr) + n
      OBVIOUS
    <3>. QED
      BY <3>1, <3>2
  <2>. QED
    BY <1>8, <2>2 DEF Shape
<1>14. ASSUME NEW a \in BlocksOf(g) \ {0}
       PROVE  \E p \in BlocksOf(g) : g[p].next = a
  <2>1. CASE a = nb
    BY <1>8, <1>9, <2>1
  <2>2. CASE a # nb
    <3>1. PICK p \in BlocksOf(h) : h[p].next = a
      BY <1>8, <2>2 DEF Shape
    <3>2. CASE p = b
      BY <1>8, <1>9, <3>1, <3>2 DEF x
    <3>3. CASE p # b
      BY <1>6, <1>7, <1>8, <1>11, <3>1, <3>3
    <3>. QED
      BY <3>2, <3>3
  <2>. QED
    BY <2>1, <2>2
<1>15. Shape(g)
  BY <1>7, <1>8, <1>12, <1>13, <1>14 DEF Shape
<1>. QED
  BY <1>3, <1>5, <1>6, <1>7, <1>8, <1>9, <1>15 DEF x

-----------------------------------------------------------------------------
\* No two free blocks in a row, but for the pairs that b is in.
ApartBut(h, b) ==
  \A a \in BlocksOf(h) : h[a].free /\ h[a].next # NULL /\ a # b /\ h[a].next # b =>
                           ~h[h[a].next].free
Apart(h) == \A a \in BlocksOf(h) : h[a].free /\ h[a].next # NULL => ~h[h[a].next].free

\* What becomes of the list when kfree() merges blocks of h into others: blocks
\* go only if they are free, and those that stay do not shrink.
Merged(h, g) ==
  /\ Shape(g) /\ BlocksOf(g) \subseteq BlocksOf(h)
  /\ \A a \in Addr : g[a].free = h[a].free
  /\ \A a \in BlocksOf(h) \ BlocksOf(g) : h[a].free
  /\ \A a \in Addr : h[a].size <= g[a].size

LEMMA AbsorbMerges ==
  ASSUME NEW h, Shape(h), NEW b \in BlocksOf(h), NEW c, c = h[b].next, c # NULL, h[c].free
  PROVE  Merged(h, Absorb(h, b, c))
<1>1. h \in [Addr -> Header] /\ Hdr \in Nat
  BY HeapAssumption DEF Shape
<1>2. b \in Addr /\ c \in Addr /\ h[b].size \in Nat /\ h[c].size \in Nat
  BY <1>1, NextBlock DEF BlocksOf, Header
<1>3. \A a \in Addr : h[a].size \in Nat
  BY <1>1 DEF Header
<1>. DEFINE g == Absorb(h, b, c)
<1>4. /\ Shape(g) /\ BlocksOf(g) = BlocksOf(h) \ {c}
      /\ \A a \in Addr : g[a].free = h[a].free
      /\ g[b].size = h[b].size + Hdr + h[c].size
      /\ \A a \in Addr \ {b} : g[a].size = h[a].size
  BY AbsorbShape
<1>. HIDE DEF g
<1>5. \A a \in Addr : h[a].size <= g[a].size
  BY <1>1, <1>2, <1>3, <1>4
<1>6. Merged(h, g)
  BY <1>4, <1>5 DEF Merged
<1>. QED
  BY <1>6 DEF g

LEMMA NoMerge ==
  ASSUME NEW h, Shape(h)
  PROVE  Merged(h, h)
<1>1. \A a \in Addr : h[a].size \in Nat
  BY DEF Shape, Header
<1>. QED
  BY <1>1 DEF Merged

\* The block after the freed one is taken in if it is free; the one after that
\* is not.
LEMMA MergeNextApart ==
  ASSUME NEW h, Shape(h), NEW b \in BlocksOf(h), h[b].free, ApartBut(h, b),
         NEW g, g = MergeNext(h, b)
  PROVE  /\ Merged(h, g) /\ b \in BlocksOf(g) /\ ApartBut(g, b)
         /\ g[b].next # NULL => ~g[g[b].next].free
<1>. DEFINE c == h[b].next
<1>1. h \in [Addr -> Header] /\ b \in Addr /\ Addr \subseteq Nat
  BY HeapAssumption DEF Shape, BlocksOf, Addr
<1>2. CASE c # NULL /\ h[c].free
  <2>1. g = Absorb(h, b, c) /\ c = h[b].next
    BY <1>2 DEF MergeNext
  <2>2. c \in BlocksOf(h) /\ b < c /\ c \in Addr
    BY <1>2, NextBlock DEF BlocksOf
  <2>3. /\ Shape(g) /\ BlocksOf(g) = BlocksOf(h) \ {c} /\ g[b].next = h[c].next
        /\ \A a \in Addr : g[a].free = h[a].free
        /\ \A a \in Addr \ {b} : g[a].next = h[a].next
    <3>. HIDE DEF c
    <3>. QED
      BY <1>2, <2>1, AbsorbShape
  <2>4. b \in BlocksOf(g) /\ Merged(h, g)
    BY <1>1, <1>2, <2>1, <2>2, <2>3, AbsorbMerges
  <2>5. ASSUME h[c].next # NULL
        PROVE  ~h[h[c].next].free /\ h[c].next \in Addr
    <3>1. h[c].next \in BlocksOf(h) /\ c < h[c].next
      BY <2>2, <2>5, NextBlock
    <3>2. h[c].next \in Addr /\ h[c].next # b /\ c # b
      <4>1. h[c].next \in Addr
        BY <3>1 DEF BlocksOf
      <4>. HIDE DEF c
      <4>. QED
        BY <1>1, <2>2, <3>1, <4>1
    <3>. QED
      BY <1>2, <2>2, <2>5, <3>2 DEF ApartBut
  <2>6. g[b].next # NULL => ~g[g[b].next].free
    BY <2>3, <2>5
  <2>7. ASSUME NEW a \in BlocksOf(g), g[a].free, g[a].next # NULL, a # b, g[a].next # b
        PROVE  ~g[g[a].next].free
    <3>1. a \in BlocksOf(h) /\ a \in Addr /\ g[a].next = h[a].next /\ h[a].free
      BY <2>3, <2>7 DEF BlocksOf
    <3>2. h[a].next \in Addr /\ ~h[h[a].next].free
      BY <1>1, <2>7, <3>1, NextBlock DEF ApartBut, BlocksOf
    <3>. QED
      BY <2>3, <3>1, <3>2
  <2>. QED
    BY <2>4, <2>6, <2>7 DEF ApartBut
<1>3. CASE ~(c # NULL /\ h[c].free)
  <2>1. g = h
    BY <1>3 DEF MergeNext
  <2>. QED
    BY <1>3, <2>1, NoMerge
<1>. QED
  BY <1>2, <1>3

\* The walk for the predecessor finds it.
LEMMA PrevBlock ==
  ASSUME NEW h, Shape(h), NEW b \in BlocksOf(h)
  PROVE  /\ b = 0 => Prev(h, b) = NULL
         /\ b # 0 => /\ Prev(h, b) \in BlocksOf(h)
                     /\ h[Prev(h, b)].next = b
<1>1. CASE b = 0
  BY <1>1 DEF Prev
<1>2. CASE b # 0
  <2>1. \E p \in Addr : h[p].magic /\ h[p].next = b
    BY <1>2 DEF Shape, BlocksOf
  <2>2. Prev(h, b) = CHOOSE p \in Addr : h[p].magic /\ h[p].next = b
    BY <1>2, <2>1 DEF Prev
  <2>. QED
    BY <1>2, <2>1, <2>2 DEF BlocksOf
<1>. QED
  BY <1>1, <1>2

\* The freed block goes into the one before it if that is free: no two free
\* blocks are left in a row.
LEMMA MergePrevApart ==
  ASSUME NEW h, Shape(h), NEW b \in BlocksOf(h), ApartBut(h, b), h[b].free,
         h[b].next # NULL => ~h[h[b].next].free,
         NEW g, g = MergePrev(h, b)
  PROVE  Merged(h, g) /\ Apart(g)
<1>. DEFINE p == Prev(h, b)
<1>1. h \in [Addr -> Header] /\ b \in Addr /\ NULL \notin Addr
  BY HeapAssumption DEF Shape, BlocksOf, Addr
<1>2. CASE p # NULL /\ h[p].free
  <2>1. p \in BlocksOf(h) /\ h[p].next = b /\ p \in Addr
    BY <1>2, PrevBlock DEF BlocksOf
  <2>2. g = Absorb(h, p, b)
    BY <1>2 DEF MergePrev
  <2>. HIDE DEF p
  <2>3. /\ Shape(g) /\ BlocksOf(g) = BlocksOf(h) \ {b} /\ g[p].next = h[b].next
        /\ \A a \in Addr : g[a].free = h[a].free
        /\ \A a \in Addr \ {p} : g[a].next = h[a].next
    BY <1>1, <2>1, <2>2, AbsorbShape
  <2>4. Merged(h, g)
    BY <1>1, <2>1, <2>2, AbsorbMerges
  <2>5. ASSUME NEW a \in BlocksOf(g), g[a].free, g[a].next # NULL
        PROVE  ~g[g[a].next].free
    <3>1. a \in BlocksOf(h) /\ a # b /\ a \in Addr /\ h[a].free
      BY <2>3, <2>5 DEF BlocksOf
    <3>2. CASE a = p
      <4>1. h[b].next # NULL /\ ~h[h[b].next].free /\ h[b].next \in Addr
        BY <2>3, <2>5, <3>2, NextBlock DEF BlocksOf
      <4>. QED
        BY <2>3, <3>2, <4>1
    <3>3. CASE a # p
      <4>1. g[a].next = h[a].next /\ h[a].next \in Addr
        BY <2>3, <2>5, <3>1, <3>3, NextBlock DEF BlocksOf
      <4>2. h[a].next # b
        BY <1>1, <2>1, <3>1, <3>3, OnePredecessor
      <4>3. ~h[h[a].next].free
        BY <2>5, <3>1, <4>1, <4>2 DEF ApartBut
      <4>. QED
        BY <2>3, <4>1, <4>3
    <3>. QED
      BY <3>2, <3>3
  <2>. QED
    BY <2>4, <2>5 DEF Apart
<1>3. CASE ~(p # NULL /\ h[p].free)
  <2>1. g = h
    BY <1>3 DEF MergePrev
  <2>2. ASSUME NEW a \in BlocksOf(h), h[a].free, h[a].next # NULL
        PROVE  ~h[h[a].next].free
    <3>1. CASE a = b
      BY <2>2, <3>1
    <3>2. CASE h[a].next = b
      <4>1. b # 0
        BY <2>2, <3>2, NextBlock, HeapAssumption DEF BlocksOf, Addr
      <4>2. p \in BlocksOf(h) /\ h[p].next = b /\ p \in Addr
        BY <4>1, PrevBlock DEF BlocksOf
      <4>. HIDE DEF p
      <4>3. a = p
        BY <1>1, <3>2, <4>2, OnePredecessor
      <4>. QED
        BY <1>1, <1>3, <2>2, <4>2, <4>3
    <3>3. CASE a # b /\ h[a].next # b
      BY <2>2, <3>3 DEF ApartBut
    <3>. QED
      BY <3>1, <3>2, <3>3
  <2>. QED
    BY <2>1, <2>2, NoMerge DEF Apart
<1>. QED
  BY <1>2, <1>3

-----------------------------------------------------------------------------
\* Rounding up a request that fits the heap does not wrap.
LEMMA RoundedUp ==
  ASSUME NEW n \in Nat, ~TooBig(n)
  PROVE  AlignUp(n) \in Nat /\ AlignUp(n) % Align = 0 /\ n <= AlignUp(n)
<1>. DEFINE x == n + Align - 1
            q == x \div Align
<1>1. /\ Align \in Nat \ {0} /\ WordSize \in Nat \ {0} /\ HeapSize \in Nat /\ Hdr \in Nat
      /\ HeapSize + Align < WordSize /\ Align > 0
  BY HeapAssumption
<1>2. x \in Nat /\ x < WordSize
  BY <1>1 DEF TooBig
<1>3. x % WordSize = x
  <2>. HIDE DEF x
  <2>1. x \in 0 .. WordSize - 1 /\ WordSize * 0 + x = x
    BY <1>1, <1>2
  <2>2. (WordSize * 0 + x) % WordSize = x
    BY <1>1, <2>1, Remainder
  <2>. QED
    BY <2>1, <2>2
<1>4. q \in Nat /\ x < Align * q + Align
  <2>. HIDE DEF x
  <2>. QED
    BY <1>1, <1>2, Division
<1>5. AlignUp(n) = q * Align
  BY <1>3 DEF AlignUp
<1>. HIDE DEF q
<1>6. q * Align = Align * q + 0 /\ Align * q \in Nat
  BY <1>1, <1>4
<1>7. (Align * q + 0) % Align = 0
  <2>1. 0 \in 0 .. Align - 1
    BY <1>1
  <2>. QED
    BY <1>1, <1>4, <2>1, Remainder
<1>. QED
  BY <1>1, <1>4, <1>5, <1>6, <1>7

\* The first fit is a free block with room.
LEMMA FirstFitFits ==
  ASSUME NEW n, Fits(n) # {}
  PROVE  FirstFit(n) \in Fits(n)
<1>1. Fits(n) \in SUBSET (0 .. HeapSize) /\ HeapSize \in Nat
  BY HeapAssumption DEF Fits, Blocks, Addr
<1>2. \E b \in Fits(n) : \A c \in Fits(n) : b <= c
  BY <1>1, LeastExists
<1>. QED
  BY <1>2 DEF FirstFit

\* kmalloc() takes a free block b: what it leaves of it is a free block of its
\* own, not next to another one.
LEMMA CarveList ==
  ASSUME Shape(hdr), Apart(hdr), NEW n \in Nat, n % Align = 0, NEW b \in Fits(n),
         NEW g, g = Carve(b, n)
  PROVE  /\ Shape(g) /\ Apart(g)
         /\ BlocksOf(hdr) \subseteq BlocksOf(g) /\ b \in BlocksOf(g)
         /\ ~g[b].free /\ n <= g[b].size
         /\ \A a \in BlocksOf(g) \ BlocksOf(hdr) : g[a].free
         /\ \A a \in BlocksOf(hdr) \ {b} : g[a] = hdr[a]
         /\ \A a \in Addr : a # b => g[a].magic \/ g[a] = hdr[a]
<1>1. b \in BlocksOf(hdr) /\ b \in Addr /\ hdr[b].free /\ hdr[b].size >= n
      /\ hdr \in [Addr -> Header]
  BY DEF Fits, Blocks, BlocksOf, Shape
<1>. DEFINE nb == b + Hdr + n
<1>2. CASE hdr[b].size >= n + Hdr + Align
  <2>1. g = Split(hdr, b, n)
    BY <1>2 DEF Carve, Split
  <2>2. nb = b + Hdr + n
    OBVIOUS
  <2>. HIDE DEF nb
  <2>3. /\ Shape(g)
        /\ BlocksOf(g) = BlocksOf(hdr) \union {nb}
        /\ nb \in Addr /\ nb # b /\ nb \notin BlocksOf(hdr)
        /\ g[b].next = nb /\ g[nb].next = hdr[b].next
        /\ g[b].size = n /\ ~g[b].free /\ g[nb].free
        /\ \A a \in Addr \ {b, nb} : g[a] = hdr[a]
    BY <1>1, <1>2, <2>1, <2>2, SplitShape
  <2>4. ASSUME NEW a \in BlocksOf(g), g[a].free, g[a].next # NULL
        PROVE  ~g[g[a].next].free
    <3>1. g[a].next \in BlocksOf(g)
      BY <2>3, <2>4, NextBlock
    <3>2. CASE a = nb
      <4>1. hdr[b].next # NULL /\ ~hdr[hdr[b].next].free /\ hdr[b].next \in BlocksOf(hdr)
        BY <1>1, <2>3, <2>4, <3>2, NextBlock DEF Apart
      <4>2. hdr[b].next # b
        BY <1>1, <4>1
      <4>. QED
        BY <2>3, <3>2, <4>1, <4>2 DEF BlocksOf
    <3>3. CASE a # nb
      <4>1. a \in BlocksOf(hdr) /\ a # b /\ g[a] = hdr[a]
        BY <2>3, <2>4, <3>3 DEF BlocksOf
      <4>2. ~hdr[hdr[a].next].free /\ hdr[a].next \in BlocksOf(hdr)
        BY <2>4, <4>1, NextBlock DEF Apart
      <4>3. hdr[a].next # b
        BY <1>1, <4>2
      <4>. QED
        BY <2>3, <4>1, <4>2, <4>3 DEF BlocksOf
    <3>. QED
      BY <3>2, <3>3
  <2>5. n <= g[b].size
    BY <2>3
  <2>6. \A a \in Addr : a # b => g[a].magic \/ g[a] = hdr[a]
    BY <2>3 DEF BlocksOf
  <2>. QED
    BY <1>1, <2>3, <2>4, <2>5, <2>6 DEF Apart, BlocksOf
<1>3. CASE ~(hdr[b].size >= n + Hdr + Align)
  <2>1. g = [hdr EXCEPT ![b].free = FALSE]
    BY <1>3 DEF Carve
  <2>2. /\ g \in [Addr -> Header]
        /\ ~g[b].free /\ g[b].size = hdr[b].size /\ g[b].next = hdr[b].next
        /\ g[b].magic = hdr[b].magic
        /\ \A a \in Addr \ {b} : g[a] = hdr[a]
    BY <1>1, <2>1, ClearFree
  <2>3. Shape(g) /\ BlocksOf(g) = BlocksOf(hdr)
    BY <2>2, FlagsOnly
  <2>4. ASSUME NEW a \in BlocksOf(g), g[a].free, g[a].next # NULL
        PROVE  ~g[g[a].next].free
    <3>1. a \in BlocksOf(hdr) /\ a # b /\ g[a] = hdr[a]
      BY <2>2, <2>3, <2>4 DEF BlocksOf
    <3>2. ~hdr[hdr[a].next].free /\ hdr[a].next \in BlocksOf(hdr)
      BY <2>4, <3>1, NextBlock DEF Apart
    <3>. QED
      BY <2>2, <3>1, <3>2 DEF BlocksOf
  <2>5. \A a \in Addr : a # b => g[a] = hdr[a]
    BY <2>2
  <2>. QED
    BY <1>1, <2>2, <2>3, <2>4, <2>5 DEF Apart, BlocksOf
<1>. QED
  BY <1>2, <1>3

-----------------------------------------------------------------------------
\* The heap at every step.  Structure: the list is in shape, and a block that a
\* kfree() is about to look at under cli either is a block still or was merged
\* away as a free one, so that kfree() sees it free.
Freeing(p, b) == pc[p] = "free" /\ arg[p] = b

ListInv ==
  /\ Shape(hdr) /\ Apart(hdr)
  /\ live \in [Addr -> Nat]
  /\ pc \in [Proc -> {"idle", "free"}] /\ arg \in [Proc -> Addr \union {NULL}]
  /\ panicked \in BOOLEAN /\ wronged \in BOOLEAN
  /\ \A p \in Proc : pc[p] = "free" =>
       arg[p] \in Addr /\ (hdr[arg[p]].magic \/ hdr[arg[p]].free)

\* Ownership, as long as everybody frees what he holds: what is held is a block
\* with room for it, and each block on its way through kfree() has one thread
\* that brings it there.
Owned ==
  /\ \A b \in BlocksOf(hdr) :
       ~hdr[b].free <=> live[b] # 0 \/ \E p \in Proc : Freeing(p, b)
  /\ \A a \in Addr : live[a] # 0 => a \in BlocksOf(hdr) /\ live[a] <= hdr[a].size
  /\ \A p \in Proc : pc[p] = "free" => arg[p] \in BlocksOf(hdr) /\ live[arg[p]] = 0
  /\ \A p, q \in Proc : pc[p] = "free" /\ pc[q] = "free" /\ arg[p] = arg[q] => p = q

HeapInv == ListInv /\ reused \in BOOLEAN /\ (~wronged => Owned /\ ~panicked)

LEMMA InitHolds == Init => HeapInv
<1>. SUFFICES ASSUME Init PROVE HeapInv
  OBVIOUS
<1>1. /\ Hdr \in Nat /\ Hdr > 0 /\ HeapSize \in Nat /\ HeapSize > Hdr /\ NULL \notin Addr
      /\ Addr = 0 .. HeapSize - 1 /\ Align \in Nat \ {0} /\ 0 \in Addr
      /\ HeapSize - Hdr \in Nat
  BY HeapAssumption DEF Addr
<1>2. /\ hdr \in [Addr -> Header]
      /\ hdr[0] = [magic |-> TRUE, size |-> HeapSize - Hdr, free |-> TRUE, next |-> NULL]
      /\ \A a \in Addr \ {0} : ~hdr[a].magic
  BY <1>1 DEF Init, Header, NoHdr
<1>3. BlocksOf(hdr) = {0}
  BY <1>1, <1>2 DEF BlocksOf
<1>4. EndOf(hdr, 0) = HeapSize
  BY <1>1, <1>2 DEF EndOf
<1>5. 0 % Align = 0
  <2>1. 0 \in 0 .. Align - 1 /\ Align * 0 + 0 = 0 /\ 0 \in Nat
    BY <1>1
  <2>2. (Align * 0 + 0) % Align = 0
    BY <1>1, <2>1, Remainder
  <2>. QED
    BY <2>1, <2>2
<1>6. Tiles(hdr, 0)
  BY <1>1, <1>2, <1>3, <1>4 DEF Tiles
<1>7. Shape(hdr)
  BY <1>2, <1>3, <1>5, <1>6 DEF Shape
<1>8. Apart(hdr)
  BY <1>2, <1>3 DEF Apart
<1>9. Owned /\ ~panicked
  BY <1>1, <1>2, <1>3 DEF Init, Owned, Freeing
<1>. QED
  BY <1>7, <1>8, <1>9, <1>1 DEF Init, HeapInv, ListInv

\* kmalloc() gives out a block that nobody had.
LEMMA KmallocStep ==
  ASSUME HeapInv, NEW p \in Proc, NEW n \in Sizes, Kmalloc(p, n)
  PROVE  HeapInv'
<1>. DEFINE k == AlignUp(n)
            b == FirstFit(k)
<1>1. n \in Nat /\ n # 0 /\ ~TooBig(n) /\ Fits(k) # {}
  BY HeapAssumption DEF Kmalloc
<1>2. k \in Nat /\ k % Align = 0 /\ n <= k
  BY <1>1, RoundedUp
<1>3. b \in Fits(k)
  BY <1>1, FirstFitFits
<1>4. hdr' = Carve(b, k) /\ live' = [live EXCEPT ![b] = n]
      /\ UNCHANGED <<pc, arg, panicked, wronged>> /\ reused' \in BOOLEAN
  BY DEF Kmalloc, HeapInv
<1>. HIDE DEF b, k
<1>5. Shape(hdr) /\ Apart(hdr) /\ live \in [Addr -> Nat]
  BY DEF HeapInv, ListInv
<1>6. /\ Shape(hdr') /\ Apart(hdr')
      /\ BlocksOf(hdr) \subseteq BlocksOf(hdr') /\ b \in BlocksOf(hdr')
      /\ ~hdr'[b].free /\ k <= hdr'[b].size
      /\ \A a \in BlocksOf(hdr') \ BlocksOf(hdr) : hdr'[a].free
      /\ \A a \in BlocksOf(hdr) \ {b} : hdr'[a] = hdr[a]
      /\ \A a \in Addr : a # b => hdr'[a].magic \/ hdr'[a] = hdr[a]
  BY <1>2, <1>3, <1>4, <1>5, CarveList
<1>7. b \in BlocksOf(hdr) /\ b \in Addr /\ hdr[b].free
  BY <1>3 DEF Fits, Blocks, BlocksOf
<1>8. live' \in [Addr -> Nat] /\ live'[b] = n /\ \A a \in Addr \ {b} : live'[a] = live[a]
  BY <1>1, <1>4, <1>5, <1>7
<1>9. ListInv'
  <2>1. \A q \in Proc : pc'[q] = "free" =>
          arg'[q] \in Addr /\ (hdr'[arg'[q]].magic \/ hdr'[arg'[q]].free)
    BY <1>4, <1>6, <1>7 DEF HeapInv, ListInv, BlocksOf
  <2>. QED
    BY <1>4, <1>6, <1>8, <2>1 DEF HeapInv, ListInv
<1>10. ASSUME ~wronged
       PROVE  Owned'
  <2>1. Owned
    BY <1>10 DEF HeapInv
  <2>2. live[b] = 0 /\ \A q \in Proc : ~Freeing(q, b)
    BY <1>7, <2>1 DEF Owned
  <2>3. n <= hdr'[b].size
    <3>1. hdr'[b].size \in Nat
      BY <1>6, <1>7 DEF Shape, Header
    <3>. QED
      BY <1>1, <1>2, <1>6, <3>1
  <2>4. ASSUME NEW a \in BlocksOf(hdr')
        PROVE  ~hdr'[a].free <=> live'[a] # 0 \/ \E q \in Proc : Freeing(q, a)'
    <3>1. a \in Addr /\ \A q \in Proc : Freeing(q, a)' <=> Freeing(q, a)
      BY <1>4 DEF BlocksOf, Freeing
    <3>2. CASE a = b
      BY <1>1, <1>6, <1>8, <3>2
    <3>3. CASE a # b /\ a \in BlocksOf(hdr)
      BY <1>6, <1>8, <2>1, <3>1, <3>3 DEF Owned
    <3>4. CASE a \notin BlocksOf(hdr)
      <4>1. live[a] = 0 /\ \A q \in Proc : ~Freeing(q, a)
        BY <2>1, <3>1, <3>4 DEF Owned, Freeing
      <4>. QED
        BY <1>6, <1>7, <1>8, <3>1, <3>4, <4>1
    <3>. QED
      BY <3>2, <3>3, <3>4
  <2>5. ASSUME NEW a \in Addr, live'[a] # 0
        PROVE  a \in BlocksOf(hdr') /\ live'[a] <= hdr'[a].size
    <3>1. CASE a = b
      BY <1>6, <1>8, <2>3, <3>1
    <3>2. CASE a # b
      BY <1>6, <1>8, <2>1, <2>5, <3>2 DEF Owned
    <3>. QED
      BY <3>1, <3>2
  <2>6. ASSUME NEW q \in Proc, pc'[q] = "free"
        PROVE  arg'[q] \in BlocksOf(hdr') /\ live'[arg'[q]] = 0
    <3>1. arg[q] \in BlocksOf(hdr) /\ live[arg[q]] = 0 /\ arg[q] # b
      BY <1>4, <2>1, <2>2, <2>6 DEF Owned, Freeing
    <3>. QED
      BY <1>4, <1>6, <1>8, <3>1 DEF BlocksOf
  <2>. QED
    BY <1>4, <2>1, <2>4, <2>5, <2>6 DEF Owned
<1>. QED
  BY <1>4, <1>9, <1>10 DEF HeapInv

\* The first half of kfree(): nobody but its holder frees a block, or wronged
\* is set.
LEMMA KfreeCheckStep ==
  ASSUME HeapInv, NEW p \in Proc, NEW b \in Addr, KfreeCheck(p, b)
  PROVE  HeapInv'
<1>1. /\ hdr' = hdr /\ live' = [live EXCEPT ![b] = 0] /\ reused' = reused
      /\ wronged' = (wronged \/ live[b] = 0) /\ pc[p] = "idle" /\ ~panicked
      /\ hdr[b].magic => /\ pc' = [pc EXCEPT ![p] = "free"] /\ arg' = [arg EXCEPT ![p] = b]
                         /\ panicked' = panicked
      /\ ~hdr[b].magic => panicked' = TRUE /\ pc' = pc /\ arg' = arg
  BY DEF KfreeCheck
<1>2. live \in [Addr -> Nat] /\ live' \in [Addr -> Nat] /\ live'[b] = 0
      /\ \A a \in Addr \ {b} : live'[a] = live[a]
  BY <1>1 DEF HeapInv, ListInv
<1>3. ListInv'
  <2>1. CASE hdr[b].magic
    BY <1>1, <1>2, <2>1 DEF HeapInv, ListInv
  <2>2. CASE ~hdr[b].magic
    BY <1>1, <1>2, <2>2 DEF HeapInv, ListInv
  <2>. QED
    BY <2>1, <2>2
<1>4. ASSUME ~wronged'
      PROVE  Owned' /\ ~panicked'
  <2>1. Owned /\ live[b] # 0
    BY <1>1, <1>4 DEF HeapInv
  <2>2. b \in BlocksOf(hdr) /\ hdr[b].magic
    BY <2>1 DEF Owned, BlocksOf
  <2>3. /\ pc \in [Proc -> {"idle", "free"}] /\ arg \in [Proc -> Addr \union {NULL}]
        /\ pc'[p] = "free" /\ arg'[p] = b
        /\ \A q \in Proc \ {p} : pc'[q] = pc[q] /\ arg'[q] = arg[q]
    BY <1>1, <2>2 DEF HeapInv, ListInv
  <2>4. \A q \in Proc : ~Freeing(q, b)
    BY <2>1 DEF Owned, Freeing
  <2>5. ASSUME NEW a \in BlocksOf(hdr)
        PROVE  ~hdr[a].free <=> live'[a] # 0 \/ \E q \in Proc : Freeing(q, a)'
    <3>1. CASE a = b
      BY <2>1, <2>2, <2>3, <3>1 DEF Owned, Freeing
    <3>2. CASE a # b
      <4>1. \A q \in Proc : Freeing(q, a)' <=> Freeing(q, a)
        BY <1>1, <2>3, <3>2 DEF Freeing
      <4>2. live'[a] = live[a]
        BY <1>2, <3>2 DEF BlocksOf
      <4>. QED
        BY <2>1, <4>1, <4>2 DEF Owned
    <3>. QED
      BY <3>1, <3>2
  <2>6. \A a \in Addr : live'[a] # 0 => a \in BlocksOf(hdr) /\ live'[a] <= hdr[a].size
    BY <1>2, <2>1 DEF Owned
  <2>7. \A q \in Proc : pc'[q] = "free" => arg'[q] \in BlocksOf(hdr) /\ live'[arg'[q]] = 0
    BY <1>2, <2>1, <2>2, <2>3 DEF Owned, BlocksOf
  <2>8. \A q, r \in Proc : pc'[q] = "free" /\ pc'[r] = "free" /\ arg'[q] = arg'[r] => q = r
    BY <2>1, <2>3, <2>4 DEF Owned, Freeing
  <2>. QED
    BY <1>1, <2>2, <2>5, <2>6, <2>7, <2>8 DEF Owned
<1>. QED
  BY <1>1, <1>3, <1>4 DEF HeapInv

\* The second half, when the block is not free yet.
SetFreed(h, b) == [h EXCEPT ![b].free = TRUE]

LEMMA Freed ==
  ASSUME ListInv, NEW b \in BlocksOf(hdr), ~hdr[b].free,
         NEW g, g = MergePrev(MergeNext(SetFreed(hdr, b), b), b)
  PROVE  /\ Shape(g) /\ Apart(g) /\ BlocksOf(g) \subseteq BlocksOf(hdr)
         /\ g[b].free /\ \A a \in Addr \ {b} : g[a].free = hdr[a].free
         /\ \A a \in BlocksOf(hdr) \ BlocksOf(g) : a = b \/ hdr[a].free
         /\ \A a \in Addr : hdr[a].size <= g[a].size
<1>. DEFINE h0 == SetFreed(hdr, b)
<1>1. hdr \in [Addr -> Header] /\ b \in Addr /\ Shape(hdr)
  BY DEF ListInv, Shape, BlocksOf
<1>2. /\ h0 \in [Addr -> Header]
      /\ h0[b].free /\ h0[b].magic = hdr[b].magic /\ h0[b].size = hdr[b].size
      /\ h0[b].next = hdr[b].next
      /\ \A a \in Addr \ {b} : h0[a] = hdr[a]
  BY <1>1, SetFree DEF SetFreed
<1>. HIDE DEF h0
<1>3. Shape(h0) /\ BlocksOf(h0) = BlocksOf(hdr)
  BY <1>1, <1>2, FlagsOnly
<1>4. ApartBut(h0, b)
  <2>. SUFFICES ASSUME NEW a \in BlocksOf(h0), h0[a].free, h0[a].next # NULL, a # b,
                       h0[a].next # b
                PROVE  ~h0[h0[a].next].free
    BY DEF ApartBut
  <2>1. a \in BlocksOf(hdr) /\ h0[a] = hdr[a]
    BY <1>2, <1>3 DEF BlocksOf
  <2>2. hdr[a].next \in Addr /\ ~hdr[hdr[a].next].free
    BY <1>1, <2>1, NextBlock DEF ListInv, Apart, BlocksOf
  <2>. QED
    BY <1>2, <2>1, <2>2
<1>5. PICK h1 : h1 = MergeNext(h0, b) /\ g = MergePrev(h1, b)
  BY DEF h0
<1>6. /\ Merged(h0, h1) /\ b \in BlocksOf(h1) /\ ApartBut(h1, b)
      /\ h1[b].next # NULL => ~h1[h1[b].next].free
  BY <1>2, <1>3, <1>4, <1>5, MergeNextApart
<1>7. Merged(h1, g) /\ Apart(g)
  <2>1. Shape(h1) /\ h1[b].free
    BY <1>1, <1>2, <1>6 DEF Merged
  <2>. QED
    BY <1>5, <1>6, <2>1, MergePrevApart
<1>8. BlocksOf(g) \subseteq BlocksOf(hdr) /\ Shape(g)
  BY <1>3, <1>6, <1>7 DEF Merged
<1>9. \A a \in Addr : g[a].free = h0[a].free
  BY <1>6, <1>7 DEF Merged
<1>10. ASSUME NEW a \in BlocksOf(hdr) \ BlocksOf(g)
       PROVE  a = b \/ hdr[a].free
  <2>1. a \in Addr /\ h0[a].free
    BY <1>3, <1>6, <1>7 DEF Merged, BlocksOf
  <2>. QED
    BY <1>2, <2>1
<1>11. ASSUME NEW a \in Addr
       PROVE  hdr[a].size <= g[a].size
  <2>1. hdr[a].size \in Nat /\ h0[a].size = hdr[a].size
    BY <1>1, <1>2 DEF Header
  <2>2. h0[a].size <= h1[a].size /\ h1[a].size <= g[a].size
    BY <1>6, <1>7 DEF Merged
  <2>3. h1[a].size \in Nat /\ g[a].size \in Nat
    BY <1>6, <1>7 DEF Merged, Shape, Header
  <2>. QED
    BY <2>1, <2>2, <2>3
<1>12. g[b].free /\ \A a \in Addr \ {b} : g[a].free = hdr[a].free
  BY <1>1, <1>2, <1>9
<1>13. \A a \in BlocksOf(hdr) \ BlocksOf(g) : a = b \/ hdr[a].free
  BY <1>10
<1>14. \A a \in Addr : hdr[a].size <= g[a].size
  BY <1>11
<1>. QED
  BY <1>7, <1>8, <1>12, <1>13, <1>14

LEMMA KfreeCommitStep ==
  ASSUME HeapInv, NEW p \in Proc, KfreeCommit(p)
  PROVE  HeapInv'
<1>. DEFINE b == arg[p]
<1>1. /\ ~panicked /\ pc[p] = "free" /\ UNCHANGED <<live, wronged, reused>>
      /\ pc' = [pc EXCEPT ![p] = "idle"] /\ arg' = [arg EXCEPT ![p] = NULL]
      /\ hdr[b].free => panicked' = TRUE /\ hdr' = hdr
      /\ ~hdr[b].free => hdr' = MergePrev(MergeNext(SetFreed(hdr, b), b), b) /\ panicked' = panicked
  BY DEF KfreeCommit, SetFreed
<1>2. /\ ListInv /\ b \in Addr /\ (hdr[b].magic \/ hdr[b].free)
      /\ pc \in [Proc -> {"idle", "free"}] /\ arg \in [Proc -> Addr \union {NULL}]
  BY <1>1 DEF HeapInv, ListInv
<1>3. /\ pc' \in [Proc -> {"idle", "free"}] /\ arg' \in [Proc -> Addr \union {NULL}]
      /\ pc'[p] = "idle" /\ \A q \in Proc \ {p} : pc'[q] = pc[q] /\ arg'[q] = arg[q]
  BY <1>1, <1>2
<1>4. CASE hdr[b].free
  <2>1. ListInv'
    BY <1>1, <1>2, <1>3, <1>4 DEF ListInv
  <2>2. wronged
    <3>. SUFFICES ASSUME ~wronged PROVE FALSE
      OBVIOUS
    <3>. QED
      BY <1>1, <1>4 DEF HeapInv, Owned, Freeing
  <2>. QED
    BY <1>1, <2>1, <2>2 DEF HeapInv
<1>5. CASE ~hdr[b].free
  <2>1. b \in BlocksOf(hdr) /\ panicked' = panicked
    BY <1>1, <1>2, <1>5 DEF BlocksOf
  <2>2. hdr' = MergePrev(MergeNext(SetFreed(hdr, b), b), b)
    BY <1>1, <1>5
  <2>3. /\ Shape(hdr') /\ Apart(hdr') /\ BlocksOf(hdr') \subseteq BlocksOf(hdr)
        /\ hdr'[b].free /\ \A a \in Addr \ {b} : hdr'[a].free = hdr[a].free
        /\ \A a \in BlocksOf(hdr) \ BlocksOf(hdr') : a = b \/ hdr[a].free
        /\ \A a \in Addr : hdr[a].size <= hdr'[a].size
    <3>1. ListInv /\ b \in BlocksOf(hdr) /\ ~hdr[b].free
      BY <1>2, <1>5, <2>1
    <3>. HIDE DEF b
    <3>. QED
      BY <2>2, <3>1, Freed
  <2>4. ListInv'
    <3>1. ASSUME NEW q \in Proc, pc'[q] = "free"
          PROVE  arg'[q] \in Addr /\ (hdr'[arg'[q]].magic \/ hdr'[arg'[q]].free)
      <4>1. q # p /\ pc[q] = "free" /\ arg'[q] = arg[q]
        BY <1>3, <3>1
      <4>2. arg[q] \in Addr /\ (arg[q] \in BlocksOf(hdr) \/ hdr[arg[q]].free)
        BY <1>2, <4>1 DEF ListInv, BlocksOf
      <4>3. arg[q] \in BlocksOf(hdr') \/ hdr'[arg[q]].free
        BY <2>3, <4>2
      <4>. QED
        BY <4>1, <4>2, <4>3 DEF BlocksOf
    <3>. QED
      BY <1>1, <1>2, <1>3, <2>1, <2>3, <3>1 DEF ListInv
  <2>5. ASSUME ~wronged
        PROVE  Owned'
    <3>1. Owned
      BY <2>5 DEF HeapInv
    <3>2. live[b] = 0 /\ \A q \in Proc \ {p} : ~Freeing(q, b)
      BY <1>1, <3>1 DEF Owned, Freeing
    <3>3. ASSUME NEW a \in BlocksOf(hdr')
          PROVE  ~hdr'[a].free <=> live'[a] # 0 \/ \E q \in Proc : Freeing(q, a)'
      <4>1. a \in BlocksOf(hdr) /\ a \in Addr
        BY <2>3 DEF BlocksOf
      <4>2. CASE a = b
        BY <1>1, <1>3, <2>3, <3>2, <4>1, <4>2 DEF Freeing
      <4>3. CASE a # b
        <5>1. \A q \in Proc : Freeing(q, a)' <=> Freeing(q, a)
          BY <1>3, <4>3 DEF Freeing
        <5>2. hdr'[a].free = hdr[a].free /\ live'[a] = live[a]
          BY <1>1, <2>3, <4>1, <4>3
        <5>. QED
          BY <3>1, <4>1, <5>1, <5>2 DEF Owned
      <4>. QED
        BY <4>2, <4>3
    <3>4. ASSUME NEW a \in Addr, live'[a] # 0
          PROVE  a \in BlocksOf(hdr') /\ live'[a] <= hdr'[a].size
      <4>1. live[a] # 0 /\ live'[a] = live[a] /\ a # b
        BY <1>1, <3>2, <3>4
      <4>2. a \in BlocksOf(hdr) /\ ~hdr[a].free /\ live[a] <= hdr[a].size
        BY <3>1, <4>1 DEF Owned
      <4>3. a \in BlocksOf(hdr')
        BY <2>3, <4>1, <4>2
      <4>4. live[a] \in Nat /\ hdr[a].size \in Nat /\ hdr'[a].size \in Nat /\ hdr[a].size <= hdr'[a].size
        BY <1>2, <2>3 DEF ListInv, Shape, Header
      <4>. QED
        BY <4>1, <4>2, <4>3, <4>4
    <3>5. ASSUME NEW q \in Proc, pc'[q] = "free"
          PROVE  arg'[q] \in BlocksOf(hdr') /\ live'[arg'[q]] = 0
      <4>1. q # p /\ pc[q] = "free" /\ arg'[q] = arg[q]
        BY <1>3, <3>5
      <4>2. arg[q] \in BlocksOf(hdr) /\ live[arg[q]] = 0 /\ arg[q] # b
        BY <3>1, <3>2, <4>1 DEF Owned, Freeing
      <4>3. ~hdr[arg[q]].free
        BY <3>1, <4>1, <4>2 DEF Owned, Freeing
      <4>. QED
        BY <1>1, <2>3, <4>1, <4>2, <4>3
    <3>6. \A q, r \in Proc : pc'[q] = "free" /\ pc'[r] = "free" /\ arg'[q] = arg'[r] => q = r
      BY <1>3, <3>1 DEF Owned
    <3>. QED
      BY <3>3, <3>4, <3>5, <3>6 DEF Owned
  <2>. QED
    BY <1>1, <2>1, <2>4, <2>5 DEF HeapInv
<1>. QED
  BY <1>4, <1>5

LEMMA HeapStep == HeapInv /\ [Next]_vars => HeapInv'
<1>. SUFFICES ASSUME HeapInv, [Next]_vars PROVE HeapInv'
  OBVIOUS
<1>1. CASE UNCHANGED vars
  BY <1>1 DEF vars, HeapInv, ListInv, Owned, Freeing
<1>2. ASSUME NEW p \in Proc, NEW n \in Sizes, KmallocFails(p, n)
      PROVE  HeapInv'
  BY <1>2 DEF KmallocFails, vars, HeapInv, ListInv, Owned, Freeing
<1>. QED
  BY <1>1, <1>2, KmallocStep, KfreeCheckStep, KfreeCommitStep DEF Next

-----------------------------------------------------------------------------
LEMMA HeldApart ==
  ASSUME ListInv, Owned, NEW a \in Addr, live[a] # 0
  PROVE  /\ a + Hdr + live[a] <= HeapSize
         /\ \A b \in Blocks \ {a} : b + Hdr <= a + Hdr \/ a + Hdr + live[a] <= b
         /\ \A b \in Addr \ {a} : live[b] # 0 =>
              b + Hdr + live[b] <= a \/ a + Hdr + live[a] <= b
<1>1. /\ Hdr \in Nat /\ HeapSize \in Nat /\ Addr \subseteq Nat /\ hdr \in [Addr -> Header]
      /\ live \in [Addr -> Nat] /\ Blocks = BlocksOf(hdr)
  BY HeapAssumption DEF ListInv, Shape, Addr, Blocks, BlocksOf
<1>2. \A x \in BlocksOf(hdr) :
        /\ x \in Nat /\ hdr[x].size \in Nat /\ x + Hdr + hdr[x].size <= HeapSize
        /\ \A y \in BlocksOf(hdr) : x < y => x + Hdr + hdr[x].size <= y
  BY <1>1 DEF ListInv, Shape, Tiles, EndOf, BlocksOf, Header
<1>3. \A x \in Addr : live[x] # 0 => x \in BlocksOf(hdr) /\ live[x] <= hdr[x].size /\ live[x] \in Nat
  BY <1>1 DEF Owned
<1>4. a + Hdr + live[a] <= HeapSize
  BY <1>1, <1>2, <1>3
<1>5. ASSUME NEW b \in BlocksOf(hdr), b # a
      PROVE  b + Hdr <= a + Hdr \/ a + Hdr + live[a] <= b
  BY <1>1, <1>2, <1>3, <1>5
<1>6. ASSUME NEW b \in Addr, b # a, live[b] # 0
      PROVE  b + Hdr + live[b] <= a \/ a + Hdr + live[a] <= b
  BY <1>1, <1>2, <1>3, <1>6
<1>. QED
  BY <1>1, <1>4, <1>5, <1>6

\* The list tiles the heap, aligned and with no two free neighbours, through
\* every interleaving of kmalloc() and of both halves of kfree(); what is held
\* is disjoint, and a correct caller meets no panic.
THEOREM HeapIsSound == Spec => []HeapSound
<1>1. HeapInv => HeapSound
  <2>. SUFFICES ASSUME HeapInv PROVE HeapSound
    OBVIOUS
  <2>1. Shape(hdr) /\ Blocks = BlocksOf(hdr) /\ \A b \in Addr : End(b) = EndOf(hdr, b)
    BY DEF HeapInv, ListInv, Blocks, BlocksOf, End, EndOf
  <2>2. KTypeOK
    BY <2>1 DEF HeapInv, ListInv, Shape, KTypeOK, Header
  <2>3. Tiled
    BY <2>1 DEF Shape, Tiles, Tiled, BlocksOf
  <2>4. NoAdjacentFree
    BY <2>1 DEF HeapInv, ListInv, Apart, NoAdjacentFree
  <2>5. LiveDisjoint
    BY HeldApart DEF HeapInv, LiveDisjoint
  <2>6. NeverPanics
    BY DEF HeapInv, NeverPanics
  <2>. QED
    BY <2>2, <2>3, <2>4, <2>5, <2>6 DEF HeapSound
<1>. QED
  BY InitHolds, HeapStep, <1>1, PTL DEF Spec

\* No block is lost, and none that is held or on its way through kfree() can be
\* given out again.
THEOREM NothingIsLost == Spec => []NothingLost
<1>1. HeapInv => NothingLost
  BY DEF HeapInv, Owned, NothingLost, Freeing, Blocks, BlocksOf
<1>. QED
  BY InitHolds, HeapStep, <1>1, PTL DEF Spec

\* What a wrong free leaves behind while its block is not given out: a kfree() on
\* its way that will find its block free, as it is or by the time another kfree()
\* of the same block is through.
WillPanic(p) ==
  /\ pc[p] = "free"
  /\ \/ hdr[arg[p]].free
     \/ \E q \in Proc \ {p} : pc[q] = "free" /\ arg[q] = arg[p]

CaughtInv == wronged /\ ~reused => panicked \/ \E p \in Proc : WillPanic(p)

\* The wrong free itself.
LEMMA CaughtAtCheck ==
  ASSUME HeapInv, CaughtInv, NEW p \in Proc, NEW b \in Addr, KfreeCheck(p, b)
  PROVE  CaughtInv'
<1>1. /\ hdr' = hdr /\ reused' = reused /\ pc[p] = "idle" /\ ~panicked
      /\ wronged' = (wronged \/ live[b] = 0)
      /\ hdr[b].magic => pc' = [pc EXCEPT ![p] = "free"] /\ arg' = [arg EXCEPT ![p] = b]
      /\ ~hdr[b].magic => panicked' = TRUE
  BY DEF KfreeCheck
<1>. SUFFICES ASSUME hdr[b].magic, wronged', ~reused
              PROVE  \E q \in Proc : WillPanic(q)'
  BY <1>1 DEF CaughtInv
<1>2. /\ pc \in [Proc -> {"idle", "free"}] /\ arg \in [Proc -> Addr \union {NULL}]
      /\ pc'[p] = "free" /\ arg'[p] = b
      /\ \A q \in Proc \ {p} : pc'[q] = pc[q] /\ arg'[q] = arg[q]
  BY <1>1 DEF HeapInv, ListInv
<1>3. CASE wronged
  <2>1. PICK q \in Proc : WillPanic(q)
    BY <1>1, <1>3 DEF CaughtInv
  <2>2. q # p /\ \A r \in Proc : pc[r] = "free" => r # p
    BY <1>1, <2>1 DEF WillPanic
  <2>. QED
    BY <1>1, <1>2, <2>1, <2>2 DEF WillPanic
<1>4. CASE ~wronged
  <2>1. b \in BlocksOf(hdr) /\ live[b] = 0 /\ Owned
    BY <1>1, <1>4 DEF HeapInv, BlocksOf
  <2>2. hdr[b].free \/ \E q \in Proc : Freeing(q, b)
    BY <2>1 DEF Owned
  <2>3. \A q \in Proc : Freeing(q, b) => q # p /\ pc'[q] = "free" /\ arg'[q] = b
    BY <1>1, <1>2 DEF Freeing
  <2>4. WillPanic(p)'
    BY <1>1, <1>2, <2>2, <2>3 DEF WillPanic
  <2>. QED
    BY <2>4
<1>. QED
  BY <1>3, <1>4

\* kmalloc(): a free block stays free unless it is the one given out.
LEMMA CaughtAtKmalloc ==
  ASSUME HeapInv, CaughtInv, NEW p \in Proc, NEW n \in Sizes, Kmalloc(p, n)
  PROVE  CaughtInv'
<1>. DEFINE k == AlignUp(n)
            b == FirstFit(k)
<1>1. n \in Nat /\ n # 0 /\ ~TooBig(n) /\ Fits(k) # {}
  BY HeapAssumption DEF Kmalloc
<1>2. k \in Nat /\ k % Align = 0 /\ b \in Fits(k)
  BY <1>1, RoundedUp, FirstFitFits
<1>3. /\ hdr' = Carve(b, k) /\ UNCHANGED <<pc, arg, panicked, wronged>>
      /\ reused' = (reused \/ \E q \in Proc :
                      pc[q] = "free" /\ arg[q] \in b .. b + Hdr + hdr'[b].size - 1)
  BY DEF Kmalloc
<1>. HIDE DEF b, k
<1>4. /\ Shape(hdr') /\ b \in BlocksOf(hdr')
      /\ \A a \in BlocksOf(hdr') \ BlocksOf(hdr) : hdr'[a].free
      /\ \A a \in BlocksOf(hdr) \ {b} : hdr'[a] = hdr[a]
      /\ \A a \in Addr : a # b => hdr'[a].magic \/ hdr'[a] = hdr[a]
  BY <1>2, <1>3, CarveList DEF HeapInv, ListInv
<1>5. \A a \in Addr : a # b /\ hdr[a].free => hdr'[a].free
  BY <1>4 DEF BlocksOf
<1>6. b \in b .. b + Hdr + hdr'[b].size - 1
  <2>1. b \in Nat /\ Hdr \in Nat /\ Hdr > 0 /\ hdr'[b].size \in Nat
    BY <1>4, HeapAssumption DEF Shape, Header, BlocksOf, Addr
  <2>. QED
    BY <2>1
<1>7. ASSUME wronged, ~reused', ~panicked
      PROVE  \E q \in Proc : WillPanic(q)'
  <2>1. ~reused /\ \A q \in Proc : pc[q] = "free" => arg[q] # b
    BY <1>3, <1>6, <1>7
  <2>2. PICK q \in Proc : WillPanic(q)
    BY <1>7, <2>1 DEF CaughtInv
  <2>3. pc[q] = "free" /\ arg[q] # b /\ arg[q] \in Addr
    BY <2>1, <2>2 DEF WillPanic, HeapInv, ListInv
  <2>4. hdr[arg[q]].free => hdr'[arg[q]].free
    BY <1>5, <2>3
  <2>. QED
    BY <1>3, <2>2, <2>4 DEF WillPanic
<1>. QED
  BY <1>3, <1>7 DEF CaughtInv

\* The second half: it frees its own block and the merges free nothing more.
LEMMA CaughtAtCommit ==
  ASSUME HeapInv, CaughtInv, NEW p \in Proc, KfreeCommit(p)
  PROVE  CaughtInv'
<1>. DEFINE b == arg[p]
<1>1. /\ ~panicked /\ pc[p] = "free" /\ UNCHANGED <<wronged, reused>>
      /\ pc' = [pc EXCEPT ![p] = "idle"] /\ arg' = [arg EXCEPT ![p] = NULL]
      /\ hdr[b].free => panicked' = TRUE
      /\ ~hdr[b].free => hdr' = MergePrev(MergeNext(SetFreed(hdr, b), b), b)
  BY DEF KfreeCommit, SetFreed
<1>. SUFFICES ASSUME ~hdr[b].free, wronged, ~reused
              PROVE  \E q \in Proc : WillPanic(q)'
  BY <1>1 DEF CaughtInv
<1>2. /\ b \in BlocksOf(hdr) /\ ListInv
      /\ \A q \in Proc \ {p} : pc'[q] = pc[q] /\ arg'[q] = arg[q]
      /\ \A q \in Proc : pc[q] = "free" => arg[q] \in Addr
  BY <1>1 DEF HeapInv, ListInv, BlocksOf
<1>. HIDE DEF b
<1>3. hdr'[b].free /\ \A a \in Addr \ {b} : hdr'[a].free = hdr[a].free
  BY <1>1, <1>2, Freed
<1>. USE DEF b
<1>4. PICK q \in Proc : WillPanic(q)
  BY <1>1 DEF CaughtInv
<1>5. pc[q] = "free" /\ arg[q] \in Addr
  BY <1>2, <1>4 DEF WillPanic
<1>6. CASE hdr[arg[q]].free
  <2>1. q # p /\ hdr'[arg[q]].free
    BY <1>3, <1>5, <1>6
  <2>2. WillPanic(q)'
    BY <1>2, <1>5, <2>1 DEF WillPanic
  <2>. QED
    BY <2>2
<1>7. ASSUME NEW r \in Proc \ {q}, pc[r] = "free", arg[r] = arg[q]
      PROVE  \E s \in Proc : WillPanic(s)'
  <2>1. CASE q # p /\ r # p
    BY <1>2, <1>5, <1>7, <2>1 DEF WillPanic
  <2>2. CASE q = p
    <3>1. pc'[r] = "free" /\ arg'[r] = b
      BY <1>2, <1>7, <2>2
    <3>. QED
      BY <1>3, <3>1 DEF WillPanic
  <2>3. CASE r = p
    <3>1. pc'[q] = "free" /\ arg'[q] = b
      BY <1>2, <1>5, <1>7, <2>3
    <3>. QED
      BY <1>3, <3>1 DEF WillPanic
  <2>. QED
    BY <2>1, <2>2, <2>3
<1>. QED
  BY <1>4, <1>6, <1>7 DEF WillPanic

\* A free of what nobody held has panicked once no kfree() is on its way any
\* more, unless its block was given out between the two looks.
THEOREM DoubleFreeIsCaught == Spec => []DoubleFreePanics
<1>1. Init => CaughtInv
  BY DEF Init, CaughtInv
<1>2. ASSUME HeapInv, CaughtInv, [Next]_vars
      PROVE  CaughtInv'
  <2>1. CASE UNCHANGED vars
    BY <1>2, <2>1 DEF vars, CaughtInv, WillPanic
  <2>2. ASSUME NEW p \in Proc, NEW n \in Sizes, KmallocFails(p, n)
        PROVE  CaughtInv'
    BY <1>2, <2>2 DEF KmallocFails, vars, CaughtInv, WillPanic
  <2>. QED
    BY <1>2, <2>1, <2>2, CaughtAtKmalloc, CaughtAtCheck, CaughtAtCommit DEF Next
<1>3. CaughtInv => DoubleFreePanics
  BY DEF CaughtInv, WillPanic, DoubleFreePanics
<1>. QED
  BY InitHolds, HeapStep, <1>1, <1>2, <1>3, PTL DEF Spec
=============================================================================
