----------------------------- MODULE FilesProofs -----------------------------
(***************************************************************************)
(* Theorems about the user programs (Files), on every tree, for every      *)
(* command and any number of processes.                                    *)
(***************************************************************************)
EXTENDS Files, Arithmetic

-----------------------------------------------------------------------------
(***************************************************************************)
(* Looking a path up.                                                      *)
(***************************************************************************)
LEMMA TreeIs ==
  ASSUME NEW f, Tree(f)
  PROVE  /\ DOMAIN f \in SUBSET Nat /\ IsFiniteSet(DOMAIN f) /\ None \notin DOMAIN f
         /\ Root \in DOMAIN f /\ Cwd \in DOMAIN f
<1>1. f \in Seq(Range(f))
  BY DEF Tree
<1>2. DOMAIN f = 1 .. Len(f) /\ Len(f) \in Nat
  BY <1>1, LenProperties
<1>3. IsFiniteSet(1 .. Len(f))
  BY <1>2, FS_Interval
<1>. QED
  BY <1>2, <1>3, FilesAssumption DEF Tree

LEMMA InodeIs ==
  ASSUME NEW f, Tree(f), NEW i \in DOMAIN f
  PROVE  /\ f[i] = [type |-> f[i].type, mode |-> f[i].mode, data |-> f[i].data,
                    ents |-> f[i].ents, to |-> f[i].to, atime |-> f[i].atime, mtime |-> f[i].mtime]
         /\ f[i].ents \in [DOMAIN f[i].ents -> DOMAIN f] /\ DOMAIN f[i].ents \subseteq Name \ Special
         /\ f[i].to \in Seq(Name) /\ (f[i].type = "lnk" => f[i].to # <<>>)
         /\ f[i].data \in Seq(Range(f[i].data))
BY DEF Tree

LEMMA ChildIs ==
  ASSUME NEW f, Tree(f), NEW d \in DOMAIN f, NEW name
  PROVE  Child(f, d, name) \in DOMAIN f \union {None}
<1>1. Up(f, d) \in DOMAIN f \union {None}
  BY TreeIs DEF Up
<1>2. name \in DOMAIN f[d].ents => f[d].ents[name] \in DOMAIN f
  BY InodeIs
<1>3. CASE name \in Special
  BY <1>1, <1>3, TreeIs DEF Child, Special
<1>4. CASE name \notin Special
  BY <1>2, <1>4 DEF Child, Special
<1>. QED
  BY <1>3, <1>4

Walks(f) == Walk(f) \union {None}

\* A lookup that has not failed.
LEMMA WalkIs ==
  ASSUME NEW f, Tree(f)
  PROVE  /\ None \notin Walk(f)
         /\ \A walk \in Walk(f) :
              /\ walk = [at |-> walk.at, rest |-> walk.rest, links |-> walk.links]
              /\ walk.at \in DOMAIN f /\ walk.rest \in Paths /\ walk.links \in 0 .. MaxLinks
         /\ \A d \in DOMAIN f, rest \in Paths, k \in 0 .. MaxLinks :
              [at |-> d, rest |-> rest, links |-> k] \in Walk(f)
<1>1. MaxLinks \in Nat /\ DOMAIN f \in SUBSET Nat
  BY TreeIs, FilesAssumption
<1>2. 0 .. MaxLinks \subseteq Nat
  BY <1>1
<1>3. Walk(f) = [at : DOMAIN f, rest : Paths, links : 0 .. MaxLinks]
  BY DEF Walk, Paths
<1>4. Walk(f) \subseteq [at : Nat, rest : Paths, links : Nat]
  BY <1>1, <1>2, <1>3
<1>5. None \notin Walk(f)
  BY <1>4, FilesAssumption
<1>. QED
  BY <1>3, <1>5

LEMMA PathIs ==
  ASSUME NEW path \in Paths
  PROVE  /\ Len(path) \in Nat \ {0} /\ Head(path) \in Name /\ Tail(path) \in Seq(Name)
         /\ Len(Tail(path)) = Len(path) - 1
         /\ (Len(path) # 1 => Tail(path) \in Paths)
         /\ path[Len(path)] \in Name /\ path \in Seq(Name) /\ path # <<>>
<1>1. path \in Seq(Name) /\ path # <<>>
  BY DEF Paths
<1>2. Len(path) \in Nat \ {0} /\ DOMAIN path = 1 .. Len(path)
  BY <1>1, LenProperties, EmptySeq
<1>3. Head(path) \in Name /\ Tail(path) \in Seq(Name) /\ Len(Tail(path)) = Len(path) - 1
  BY <1>1, HeadTailProperties
<1>4. path[Len(path)] \in Name
  BY <1>1, <1>2, ElementOfSeq
<1>5. Len(path) # 1 => Tail(path) # <<>>
  BY <1>2, <1>3, EmptySeq
<1>. QED
  BY <1>1, <1>2, <1>3, <1>4, <1>5 DEF Paths

\* The next step of a lookup.
Onward(f, walk, follow) ==
  LET i == Child(f, walk.at, Head(walk.rest))
      last == Len(walk.rest) = 1
      link == i # None /\ f[i].type = "lnk" /\ (~ last \/ follow)
  IN  IF ~ Searchable(f, walk) THEN None
      ELSE IF link THEN IF walk.links = 0 THEN None
                        ELSE [at |-> walk.at, rest |-> f[i].to \o Tail(walk.rest),
                              links |-> walk.links - 1]
      ELSE IF last THEN walk
      ELSE IF i = None THEN None
      ELSE [at |-> i, rest |-> Tail(walk.rest), links |-> walk.links]

\* A link that is followed, and a name that is there, leave a lookup.
LEMMA Goes ==
  ASSUME NEW f, Tree(f), NEW walk \in Walk(f)
  PROVE  LET i == Child(f, walk.at, Head(walk.rest))
         IN  /\ i # None /\ f[i].type = "lnk" /\ walk.links # 0 =>
                  [at |-> walk.at, rest |-> f[i].to \o Tail(walk.rest), links |-> walk.links - 1] \in Walk(f)
             /\ i # None /\ Len(walk.rest) # 1 =>
                  [at |-> i, rest |-> Tail(walk.rest), links |-> walk.links] \in Walk(f)
<1>. DEFINE i == Child(f, walk.at, Head(walk.rest))
<1>1. /\ walk.at \in DOMAIN f /\ walk.rest \in Paths /\ walk.links \in 0 .. MaxLinks /\ MaxLinks \in Nat
  BY WalkIs, FilesAssumption
<1>2. i \in DOMAIN f \union {None}
  BY <1>1, ChildIs
<1>. HIDE DEF i
<1>3. ASSUME i # None, f[i].type = "lnk", walk.links # 0
      PROVE  [at |-> walk.at, rest |-> f[i].to \o Tail(walk.rest), links |-> walk.links - 1] \in Walk(f)
  <2>1. f[i].to \in Seq(Name) /\ f[i].to # <<>> /\ Tail(walk.rest) \in Seq(Name)
    BY <1>1, <1>2, <1>3, InodeIs, PathIs
  <2>2. f[i].to \o Tail(walk.rest) \in Seq(Name) /\ f[i].to \o Tail(walk.rest) # <<>>
    <3>1. /\ f[i].to \o Tail(walk.rest) \in Seq(Name)
          /\ Len(f[i].to \o Tail(walk.rest)) = Len(f[i].to) + Len(Tail(walk.rest))
      BY <2>1, ConcatProperties
    <3>2. Len(f[i].to) \in Nat \ {0} /\ Len(Tail(walk.rest)) \in Nat
      BY <2>1, LenProperties, EmptySeq
    <3>. QED
      BY <3>1, <3>2, EmptySeq
  <2>3. walk.links - 1 \in 0 .. MaxLinks
    BY <1>1, <1>3
  <2>. QED
    BY <1>1, <2>2, <2>3, WalkIs DEF Paths
<1>4. ASSUME i # None, Len(walk.rest) # 1
      PROVE  [at |-> i, rest |-> Tail(walk.rest), links |-> walk.links] \in Walk(f)
  BY <1>1, <1>2, <1>4, PathIs, WalkIs
<1>. QED
  BY <1>3, <1>4 DEF i

LEMMA AdvanceIs ==
  ASSUME NEW f, Tree(f), NEW follow
  PROVE  /\ Advance(f, follow) \in [Walks(f) -> Walks(f)]
         /\ Advance(f, follow)[None] = None
         /\ \A walk \in Walk(f) : Advance(f, follow)[walk] = Onward(f, walk, follow)
<1>. DEFINE A == Advance(f, follow)
<1>1. None \in Walks(f) /\ A[None] = None /\ DOMAIN A = Walks(f)
  BY DEF Advance, Walks
<1>2. ASSUME NEW walk \in Walk(f) PROVE A[walk] = Onward(f, walk, follow) /\ Onward(f, walk, follow) \in Walks(f)
  <2>. DEFINE i == Child(f, walk.at, Head(walk.rest))
              last == Len(walk.rest) = 1
              link == i # None /\ f[i].type = "lnk" /\ (~ last \/ follow)
              w1 == [at |-> walk.at, rest |-> f[i].to \o Tail(walk.rest), links |-> walk.links - 1]
              w2 == [at |-> i, rest |-> Tail(walk.rest), links |-> walk.links]
  <2>1. /\ walk = [at |-> walk.at, rest |-> walk.rest, links |-> walk.links] /\ walk # None
        /\ walk.at \in DOMAIN f /\ walk.rest \in Paths /\ walk.links \in 0 .. MaxLinks
        /\ walk \in Walks(f) /\ MaxLinks \in Nat
    BY WalkIs, FilesAssumption DEF Walks
  <2>2. i \in DOMAIN f \union {None}
    BY <2>1, ChildIs
  <2>3. A[walk] = Onward(f, walk, follow)
    BY <2>1 DEF Advance, Walks, Onward
  <2>4. (link /\ walk.links # 0 => w1 \in Walks(f)) /\ (~ last /\ i # None => w2 \in Walks(f))
    <3>. HIDE DEF i
    <3>. QED
      BY Goes DEF Walks, i
  <2>. HIDE DEF i, w1, w2
  <2>6. Onward(f, walk, follow) \in Walks(f)
    BY <2>1, <2>4, <1>1 DEF i, w1, w2, Onward
  <2>. QED
    BY <2>3, <2>6
<1>3. A \in [Walks(f) -> Walks(f)]
  <2>1. \A walk \in Walks(f) : A[walk] \in Walks(f)
    BY <1>1, <1>2 DEF Walks
  <2>2. A = [walk \in Walks(f) |-> A[walk]]
    BY <1>1 DEF Advance, Walks
  <2>. HIDE DEF A
  <2>. QED
    BY <2>1, <2>2
<1>. QED
  BY <1>1, <1>2, <1>3

Trail(f, path, follow) == Iterated(Advance(f, follow), Begin(path))
Enough(f, path) == Len(path) + MaxLinks * Longest(f)

LEMMA LongestIs ==
  ASSUME NEW f, Tree(f)
  PROVE  /\ Longest(f) \in Nat /\ \A i \in DOMAIN f : Len(f[i].to) <= Longest(f)
         /\ \E i \in DOMAIN f : Longest(f) = Len(f[i].to)
<1>. DEFINE S == {Len(f[i].to) : i \in DOMAIN f}
<1>1. S \in SUBSET Nat /\ S # {}
  BY TreeIs, InodeIs, LenProperties
<1>2. IsFiniteSet(S)
  <2>. DEFINE g == [i \in DOMAIN f |-> Len(f[i].to)]
  <2>1. g \in Surjection(DOMAIN f, S)
    BY DEF Surjection
  <2>. HIDE DEF g, S
  <2>. QED
    BY <2>1, TreeIs, FS_Surjection
<1>3. \E x \in S : \A y \in S : y <= x
  <2>. HIDE DEF S
  <2>. QED
    BY <1>1, <1>2, GreatestExists
<1>4. Longest(f) \in S /\ \A y \in S : y <= Longest(f)
  BY <1>1, <1>3 DEF Longest, Max
<1>. QED
  BY <1>1, <1>4

LEMMA BeginIs ==
  ASSUME NEW f, Tree(f), NEW path \in Paths
  PROVE  /\ Begin(path) \in Walks(f)
         /\ path = <<"">> => Begin(path) = None
         /\ path # <<"">> =>
              Begin(path) = [at |-> Cwd, rest |-> path, links |-> MaxLinks] /\ Begin(path) \in Walk(f)
<1>1. [at |-> Cwd, rest |-> path, links |-> MaxLinks] \in Walk(f)
  BY TreeIs, WalkIs, FilesAssumption
<1>. QED
  BY <1>1 DEF Begin, Walks

LEMMA TrailIs ==
  ASSUME NEW f, Tree(f), NEW path \in Paths, NEW follow
  PROVE  /\ Trail(f, path, follow) \in [Nat -> Walks(f)]
         /\ Trail(f, path, follow)[0] = Begin(path)
         /\ \A n \in Nat : Trail(f, path, follow)[n + 1] = Advance(f, follow)[Trail(f, path, follow)[n]]
         /\ Enough(f, path) \in Nat
         /\ Lookup(f, path, follow) = Trail(f, path, follow)[Enough(f, path)]
<1>2. Advance(f, follow) \in [Walks(f) -> Walks(f)] /\ Begin(path) \in Walks(f)
  BY BeginIs, AdvanceIs
<1>3. Enough(f, path) \in Nat
  BY LongestIs, PathIs, FilesAssumption DEF Enough
<1>4. Lookup(f, path, follow) = Trail(f, path, follow)[Enough(f, path)]
  BY DEF Lookup, Trail, Iterated, Enough
<1>. QED
  BY <1>2, <1>3, <1>4, Iteration DEF Trail

\* The same, by the step that each lookup takes.
Trails(T, f, path, follow) ==
  /\ T \in [Nat -> Walks(f)] /\ T[0] = Begin(path)
  /\ \A n \in Nat :
       /\ T[n] \in Walk(f) \/ T[n] = None
       /\ T[n] = None => T[n + 1] = None
       /\ T[n] \in Walk(f) => T[n + 1] = Onward(f, T[n], follow)
  /\ Enough(f, path) \in Nat /\ Lookup(f, path, follow) = T[Enough(f, path)]

LEMMA TrailExists ==
  ASSUME NEW f, Tree(f), NEW path \in Paths, NEW follow
  PROVE  \E T : Trails(T, f, path, follow)
<1>. DEFINE T == Trail(f, path, follow)
<1>1. T \in [Nat -> Walks(f)] /\ T[0] = Begin(path)
  BY TrailIs
<1>2. \A n \in Nat : T[n + 1] = Advance(f, follow)[T[n]]
  BY TrailIs
<1>3. Enough(f, path) \in Nat /\ Lookup(f, path, follow) = T[Enough(f, path)]
  BY TrailIs
<1>. HIDE DEF T
<1>4. ASSUME NEW n \in Nat
      PROVE  /\ T[n] \in Walk(f) \/ T[n] = None
             /\ T[n] = None => T[n + 1] = None
             /\ T[n] \in Walk(f) => T[n + 1] = Onward(f, T[n], follow)
  <2>1. T[n] \in Walk(f) \/ T[n] = None
    BY <1>1 DEF Walks
  <2>2. T[n + 1] = Advance(f, follow)[T[n]]
    BY <1>2
  <2>. QED
    BY <2>1, <2>2, AdvanceIs
<1>. QED
  BY <1>1, <1>3, <1>4 DEF Trails

\* The lookup of the empty string fails.
LEMMA Began ==
  ASSUME NEW f, Tree(f), NEW path \in Paths, NEW follow, Lookup(f, path, follow) # None
  PROVE  path # <<"">>
<1>5. SUFFICES ASSUME path = <<"">> PROVE FALSE
  OBVIOUS
<1>0. PICK T : Trails(T, f, path, follow)
  BY TrailExists
<1>. DEFINE E == Enough(f, path)
            S == {n \in 0 .. E : T[n] = None}
<1>1. T[0] = None /\ E \in Nat /\ Lookup(f, path, follow) = T[E]
  BY <1>0, <1>5, BeginIs DEF Trails
<1>2. \A n \in Nat : T[n] = None => T[n + 1] = None
  BY <1>0 DEF Trails
<1>. HIDE DEF E
<1>3. 0 \in S /\ \A n \in 0 .. E - 1 : n \in S => n + 1 \in S
  <2>1. 0 \in S
    BY <1>1
  <2>2. ASSUME NEW n \in 0 .. E - 1, n \in S PROVE n + 1 \in S
    <3>1. n \in Nat /\ n + 1 \in 0 .. E
      BY <1>1
    <3>. QED
      BY <1>2, <2>2, <3>1
  <2>. QED
    BY <2>1, <2>2
<1>4. 0 .. E \subseteq S
  <2>. HIDE DEF S
  <2>. QED
    BY <1>1, <1>3, InductionTo
<1>. QED
  BY <1>1, <1>4

LEMMA LookupIs ==
  ASSUME NEW f, Tree(f), NEW path \in Paths, NEW follow
  PROVE  Lookup(f, path, follow) \in Walks(f)
BY TrailIs

\* What Place() and Found() make of where a lookup ends.
LEMMA PlaceIs ==
  ASSUME NEW f, Tree(f), NEW path \in Paths, NEW follow
  PROVE  LET walk == Lookup(f, path, follow)
         IN  /\ Place(f, path, follow) = IF walk = None THEN None
                                        ELSE [dir |-> walk.at, name |-> Head(walk.rest)]
             /\ Found(f, path, follow) = IF walk = None THEN None
                                        ELSE Child(f, walk.at, Head(walk.rest))
             /\ Found(f, path, follow) \in DOMAIN f \union {None}
<1>1. Lookup(f, path, follow) \in Walks(f)
  BY LookupIs
<1>2. /\ Place(f, path, follow) = IF Lookup(f, path, follow) = None THEN None
                 ELSE [dir |-> Lookup(f, path, follow).at, name |-> Head(Lookup(f, path, follow).rest)]
      /\ Found(f, path, follow) = IF Lookup(f, path, follow) = None THEN None
                 ELSE Child(f, Lookup(f, path, follow).at, Head(Lookup(f, path, follow).rest))
  BY <1>1 DEF Place, Found, Walks
<1>3. Lookup(f, path, follow) # None => Lookup(f, path, follow).at \in DOMAIN f
  BY <1>1, WalkIs DEF Walks
<1>. QED
  BY <1>2, <1>3, ChildIs

LEMMA StatIs ==
  ASSUME NEW f, Tree(f), NEW path \in Paths
  PROVE  Stat(f, path) \in DOMAIN f \union {None} /\ Lstat(f, path) \in DOMAIN f \union {None}
BY PlaceIs DEF Stat, Lstat

\* Where a lookup stays, and how far it may still have to go.
Settled(f, walk, follow) ==
  LET i == Child(f, walk.at, Head(walk.rest))
  IN  Len(walk.rest) = 1 /\ ~ (i # None /\ f[i].type = "lnk" /\ follow)
Ahead(f, walk) == walk.links * Longest(f) + Len(walk.rest)

LEMMA OnwardIs ==
  ASSUME NEW f, Tree(f), NEW follow, NEW walk \in Walk(f)
  PROVE  LET next == Onward(f, walk, follow)
         IN  /\ next # None => Searchable(f, walk)
             /\ Settled(f, walk, follow) => next \in {walk, None}
             /\ ~ Settled(f, walk, follow) /\ next # None =>
                  next \in Walk(f) /\ Ahead(f, next) < Ahead(f, walk)
             /\ Ahead(f, walk) \in Nat \ {0}
<1>. DEFINE next == Onward(f, walk, follow)
            i == Child(f, walk.at, Head(walk.rest))
            last == Len(walk.rest) = 1
            link == i # None /\ f[i].type = "lnk" /\ (~ last \/ follow)
            L == Longest(f)
            w1 == [at |-> walk.at, rest |-> f[i].to \o Tail(walk.rest), links |-> walk.links - 1]
            w2 == [at |-> i, rest |-> Tail(walk.rest), links |-> walk.links]
<1>1. /\ walk.at \in DOMAIN f /\ walk.rest \in Paths /\ walk.links \in 0 .. MaxLinks
      /\ walk # None /\ MaxLinks \in Nat
  BY WalkIs, FilesAssumption
<1>2. i \in DOMAIN f \union {None} /\ next \in Walks(f)
  <2>1. walk \in Walks(f)
    BY DEF Walks
  <2>2. Advance(f, follow)[walk] = next /\ Advance(f, follow) \in [Walks(f) -> Walks(f)]
    BY AdvanceIs
  <2>. HIDE DEF next
  <2>. QED
    BY <1>1, <2>1, <2>2, ChildIs
<1>3. L \in Nat /\ \A j \in DOMAIN f : Len(f[j].to) <= L
  BY LongestIs
<1>. HIDE DEF i, L
<1>4. Len(walk.rest) \in Nat \ {0} /\ walk.links \in Nat
      /\ Len(Tail(walk.rest)) = Len(walk.rest) - 1 /\ Tail(walk.rest) \in Seq(Name)
  BY <1>1, PathIs
<1>5. walk.links * L \in Nat
  BY <1>3, <1>4
<1>6. Ahead(f, walk) = walk.links * L + Len(walk.rest) /\ Ahead(f, walk) \in Nat \ {0}
  BY <1>4, <1>5 DEF Ahead, L
<1>7. CASE ~ Searchable(f, walk)
  BY <1>6, <1>7 DEF Onward
<1>8. CASE Searchable(f, walk) /\ link /\ walk.links = 0
  <2>1. next = None
    BY <1>8 DEF Onward, i
  <2>. QED
    BY <1>6, <2>1
<1>9. CASE Searchable(f, walk) /\ link /\ walk.links # 0
  <2>1. next = w1
    BY <1>9 DEF Onward, i
  <2>2. ~ Settled(f, walk, follow)
    BY <1>9 DEF Settled, i
  <2>3. Len(f[i].to \o Tail(walk.rest)) = Len(f[i].to) + (Len(walk.rest) - 1) /\ Len(f[i].to) \in Nat
    <3>1. f[i].to \in Seq(Name)
      BY <1>2, <1>9, InodeIs
    <3>. QED
      BY <1>4, <3>1, ConcatProperties, LenProperties
  <2>4. Len(f[i].to) <= L
    BY <1>2, <1>3, <1>9
  <2>5. (walk.links - 1) * L = walk.links * L - L
    BY <1>3, <1>4
  <2>6. w1.links * L + Len(w1.rest) < walk.links * L + Len(walk.rest)
    <3>1. w1.links * L + Len(w1.rest) = (walk.links * L - L) + (Len(f[i].to) + (Len(walk.rest) - 1))
      BY <2>3, <2>5
    <3>. DEFINE m == walk.links * L
                a == Len(f[i].to)
                b == Len(walk.rest)
    <3>2. m \in Nat /\ a \in Nat /\ b \in Nat /\ L \in Nat /\ a <= L
      BY <1>3, <1>4, <1>5, <2>3, <2>4
    <3>. HIDE DEF m, a, b
    <3>3. (m - L) + (a + (b - 1)) < m + b
      BY <3>2
    <3>. QED
      BY <3>1, <3>3 DEF m, a, b
  <2>. HIDE DEF next
  <2>7. next # None => next \in Walk(f) /\ Ahead(f, next) < Ahead(f, walk)
    BY <1>2, <1>6, <2>1, <2>6 DEF Walks, Ahead, L
  <2>. QED
    BY <1>6, <1>9, <2>2, <2>7 DEF next
<1>10. CASE Searchable(f, walk) /\ ~ link /\ last
  <2>1. next = walk
    BY <1>10 DEF Onward, i
  <2>2. Settled(f, walk, follow)
    BY <1>10 DEF Settled, i
  <2>. QED
    BY <1>6, <1>10, <2>1, <2>2
<1>11. CASE Searchable(f, walk) /\ ~ link /\ ~ last
  <2>1. next = IF i = None THEN None ELSE w2
    BY <1>11 DEF Onward, i
  <2>2. ~ Settled(f, walk, follow)
    BY <1>11 DEF Settled, i
  <2>. HIDE DEF next
  <2>3. next # None => next \in Walk(f) /\ Ahead(f, next) < Ahead(f, walk)
    BY <1>2, <1>4, <1>5, <1>6, <2>1 DEF Walks, Ahead, L
  <2>. QED
    BY <1>6, <1>11, <2>2, <2>3 DEF next
<1>. QED
  BY <1>7, <1>8, <1>9, <1>10, <1>11

\* A lookup that does not fail comes to its end: it stays where it is, in a directory that
\* it may search.
LEMMA Ends ==
  ASSUME NEW f, Tree(f), NEW path \in Paths, NEW follow, Lookup(f, path, follow) # None
  PROVE  LET walk == Lookup(f, path, follow)
         IN  /\ walk \in Walk(f) /\ walk.at \in DOMAIN f /\ walk.rest \in Paths
             /\ Settled(f, walk, follow) /\ Searchable(f, walk)
             /\ Onward(f, walk, follow) = walk
<1>0. PICK T : Trails(T, f, path, follow)
  BY TrailExists
<1>. DEFINE E == Enough(f, path)
            Good(n) == T[n] = None \/ Settled(f, T[n], follow) \/ Ahead(f, T[n]) + n <= E
            S == {n \in 0 .. E : Good(n)}
<1>1. /\ T[0] = Begin(path) /\ Begin(path) \in Walk(f)
      /\ Begin(path) = [at |-> Cwd, rest |-> path, links |-> MaxLinks]
      /\ E \in Nat /\ Lookup(f, path, follow) = T[E]
  BY <1>0, BeginIs, Began DEF Trails
<1>2. \A walk \in Walk(f) : Ahead(f, walk) \in Nat \ {0}
  BY OnwardIs
<1>3. ASSUME NEW n \in Nat
      PROVE  /\ T[n] \in Walks(f) /\ T[n + 1] \in Walks(f)
             /\ T[n] = None => T[n + 1] = None
             /\ T[n] \in Walk(f) => T[n + 1] = Onward(f, T[n], follow)
  BY <1>0 DEF Trails
<1>4. Ahead(f, Begin(path)) = E
  <2>1. Begin(path).links = MaxLinks /\ Begin(path).rest = path
    BY <1>1
  <2>. QED
    BY <2>1, LongestIs, PathIs, FilesAssumption DEF Ahead, Enough
<1>5. 0 \in S /\ E # 0
  <2>1. Good(0)
    BY <1>1, <1>4
  <2>. QED
    BY <1>1, <1>2, <1>4, <2>1
<1>6. ASSUME NEW n \in 0 .. E - 1, n \in S PROVE n + 1 \in S
  <2>1. n \in Nat /\ n + 1 \in 0 .. E
    BY <1>1
  <2>2. CASE T[n] = None
    BY <1>3, <2>1, <2>2
  <2>3. CASE T[n] \in Walk(f) /\ Settled(f, T[n], follow)
    <3>1. T[n + 1] \in {T[n], None}
      BY <1>3, <2>1, <2>3, OnwardIs
    <3>. QED
      BY <2>1, <2>3, <3>1
  <2>4. CASE T[n] \in Walk(f) /\ ~ Settled(f, T[n], follow)
    <3>1. T[n + 1] # None => T[n + 1] \in Walk(f) /\ Ahead(f, T[n + 1]) < Ahead(f, T[n])
      BY <1>3, <2>1, <2>4, OnwardIs
    <3>2. Ahead(f, T[n]) + n <= E
      BY <1>6, <2>4, WalkIs
    <3>3. T[n + 1] # None => Ahead(f, T[n + 1]) + (n + 1) <= E
      BY <1>1, <1>2, <2>1, <2>4, <3>1, <3>2
    <3>. QED
      BY <2>1, <3>3
  <2>. QED
    BY <1>3, <2>1, <2>2, <2>3, <2>4 DEF Walks
<1>7. 0 .. E \subseteq S
  <2>. HIDE DEF S, E
  <2>. QED
    BY <1>1, <1>5, <1>6, InductionTo
<1>. DEFINE n == E - 1
<1>8. n \in Nat /\ n + 1 = E /\ n \in S
  BY <1>1, <1>5, <1>7
<1>9. T[n] \in Walk(f) /\ T[E] \in Walk(f) /\ T[E] = Onward(f, T[n], follow)
  BY <1>1, <1>3, <1>8 DEF Walks
<1>10. Settled(f, T[n], follow)
  <2>1. SUFFICES ASSUME ~ Settled(f, T[n], follow) PROVE FALSE
    OBVIOUS
  <2>2. Ahead(f, T[n]) + n <= E
    BY <1>8, <1>9, <2>1, WalkIs
  <2>3. Ahead(f, T[E]) < Ahead(f, T[n])
    BY <1>1, <1>9, <2>1, OnwardIs
  <2>. HIDE DEF n
  <2>. QED
    BY <1>1, <1>2, <1>8, <1>9, <2>2, <2>3
<1>11. T[E] = T[n] /\ Searchable(f, T[n])
  BY <1>1, <1>9, <1>10, OnwardIs
<1>. QED
  BY <1>1, <1>9, <1>10, <1>11, WalkIs

\* A lookup that does not look through a link at the end of its path finds the same as one
\* that does, if there is none.
LEMMA StatFollows ==
  ASSUME NEW f, Tree(f), NEW path \in Paths,
         Lstat(f, path) # None, f[Lstat(f, path)].type # "lnk"
  PROVE  Stat(f, path) = Lstat(f, path)
<1>0. PICK N, T : Trails(N, f, path, FALSE) /\ Trails(T, f, path, TRUE)
  BY TrailExists
<1>. DEFINE E == Enough(f, path)
            Links(walk) == LET i == Child(f, walk.at, Head(walk.rest))
                           IN  Len(walk.rest) = 1 /\ i # None /\ f[i].type = "lnk"
            S == {n \in 0 .. E : T[n] = N[n] \/ N[n] = None \/ Links(N[n])}
<1>1. /\ N[0] = Begin(path)
      /\ \A n \in Nat :
                         /\ N[n] \in Walk(f) \/ N[n] = None
                         /\ N[n] = None => N[n + 1] = None
                         /\ N[n] \in Walk(f) => N[n + 1] = Onward(f, N[n], FALSE)
  BY <1>0 DEF Trails
<1>2. /\ T[0] = Begin(path)
      /\ \A n \in Nat : T[n] \in Walk(f) => T[n + 1] = Onward(f, T[n], TRUE)
  BY <1>0 DEF Trails
<1>3. E \in Nat /\ Lookup(f, path, FALSE) = N[E] /\ Lookup(f, path, TRUE) = T[E]
  BY <1>0 DEF Trails
<1>. HIDE DEF E
<1>4. 0 \in S
  BY <1>1, <1>2, <1>3
<1>5. ASSUME NEW n \in 0 .. E - 1, n \in S PROVE n + 1 \in S
  <2>1. n \in Nat /\ n + 1 \in 0 .. E
    BY <1>3
  <2>2. N[n] = None => N[n + 1] = None
    BY <1>1, <2>1
  <2>3. ASSUME N[n] \in Walk(f), Links(N[n]) PROVE N[n + 1] = None \/ N[n + 1] = N[n]
    <3>1. N[n + 1] = Onward(f, N[n], FALSE)
      BY <1>1, <2>1, <2>3
    <3>2. Settled(f, N[n], FALSE)
      BY <2>3 DEF Settled
    <3>. HIDE DEF Links
    <3>. QED
      BY <2>3, <3>1, <3>2, OnwardIs
  <2>4. ASSUME N[n] \in Walk(f), ~ Links(N[n]), T[n] = N[n] PROVE T[n + 1] = N[n + 1]
    <3>1. N[n + 1] = Onward(f, N[n], FALSE) /\ T[n + 1] = Onward(f, N[n], TRUE)
      BY <1>1, <1>2, <2>1, <2>4
    <3>. QED
      BY <2>4, <3>1 DEF Onward
  <2>5. N[n] \in Walk(f) \/ N[n] = None
    BY <1>1, <2>1
  <2>. HIDE DEF Links
  <2>. QED
    BY <1>5, <2>1, <2>2, <2>3, <2>4, <2>5
<1>6. E \in S
  <2>. HIDE DEF S
  <2>1. 0 .. E \subseteq S
    BY <1>3, <1>4, <1>5, InductionTo
  <2>. QED
    BY <1>3, <2>1
<1>7. N[E] # None /\ Lstat(f, path) = Child(f, N[E].at, Head(N[E].rest))
  BY <1>3, PlaceIs DEF Lstat
<1>8. T[E] = N[E]
  BY <1>6, <1>7
<1>. QED
  BY <1>3, <1>7, <1>8, PlaceIs DEF Stat

LEMMA ConcatAppend ==
  ASSUME NEW S, NEW s \in Seq(S), NEW t \in Seq(S), NEW x \in S
  PROVE  s \o Append(t, x) = Append(s \o t, x)
<1>1. <<x>> \in Seq(S) /\ s \o t \in Seq(S)
  BY ConcatProperties
<1>2. (s \o t) \o <<x>> = s \o (t \o <<x>>)
  BY <1>1, ConcatAssociative
<1>3. Append(t, x) = t \o <<x>> /\ Append(s \o t, x) = (s \o t) \o <<x>>
  BY <1>1, AppendIsConcat
<1>. QED
  BY <1>2, <1>3

\* Two lookups side by side, of a path and of that path with one name more.
Beside(f, w, u, name) == u = [at |-> w.at, rest |-> Append(w.rest, name), links |-> w.links]
\* The first one is at its end, the other one at the last name.
Arrived(f, w, u, name) ==
  LET i == Child(f, w.at, Head(w.rest))
  IN  /\ Settled(f, w, TRUE) /\ Onward(f, w, TRUE) = w /\ i # None
      /\ u = [at |-> i, rest |-> <<name>>, links |-> w.links]

LEMMA StepBeside ==
  ASSUME NEW f, Tree(f), NEW name \in Name, NEW w \in Walk(f), NEW u, Beside(f, w, u, name)
  PROVE  LET next == Onward(f, u, FALSE)
             then == Onward(f, w, TRUE)
         IN  /\ u \in Walk(f)
             /\ \/ next = None
                \/ then # None /\ ~ Settled(f, w, TRUE) /\ Beside(f, then, next, name)
                \/ Arrived(f, w, next, name)
<1>. DEFINE i == Child(f, w.at, Head(w.rest))
            last == Len(w.rest) = 1
            link == i # None /\ f[i].type = "lnk"
            next == Onward(f, u, FALSE)
            then == Onward(f, w, TRUE)
<1>1. w.at \in DOMAIN f /\ w.rest \in Paths /\ w.links \in 0 .. MaxLinks
  BY WalkIs
<1>2. w.rest \in Seq(Name) /\ w.rest # <<>> /\ Tail(w.rest) \in Seq(Name) /\ Len(w.rest) \in Nat \ {0}
      /\ Len(Tail(w.rest)) = Len(w.rest) - 1
  BY <1>1, PathIs
<1>3. /\ u.at = w.at /\ u.rest = Append(w.rest, name) /\ u.links = w.links
      /\ u = [at |-> w.at, rest |-> Append(w.rest, name), links |-> w.links]
  BY DEF Beside
<1>4. Append(w.rest, name) \in Paths /\ Len(Append(w.rest, name)) = Len(w.rest) + 1
  BY <1>2, AppendProperties DEF Paths
<1>5. u \in Walk(f)
  BY <1>1, <1>3, <1>4, WalkIs
<1>6. /\ Head(u.rest) = Head(w.rest) /\ Tail(u.rest) = Append(Tail(w.rest), name)
      /\ Len(u.rest) # 1
  BY <1>2, <1>3, <1>4, HeadTailAppend
<1>7. last => Tail(u.rest) = <<name>>
  <2>1. last => Len(Tail(w.rest)) = 0
    BY <1>2
  <2>2. last => Tail(w.rest) = <<>>
    BY <1>2, <2>1, EmptySeq
  <2>3. Append(<<>>, name) = <<name>>
    OBVIOUS
  <2>. QED
    BY <1>6, <2>2, <2>3
<1>8. i = Child(f, u.at, Head(u.rest)) /\ i \in DOMAIN f \union {None}
  BY <1>1, <1>3, <1>6, ChildIs
<1>17. Searchable(f, u) <=> Searchable(f, w)
  BY <1>3, <1>6 DEF Searchable
<1>9. next = IF ~ Searchable(f, w) THEN None
             ELSE IF link THEN IF w.links = 0 THEN None
                               ELSE [at |-> w.at, rest |-> f[i].to \o Tail(u.rest), links |-> w.links - 1]
             ELSE IF i = None THEN None
             ELSE [at |-> i, rest |-> Tail(u.rest), links |-> w.links]
  <2>. HIDE DEF i
  <2>. QED
    BY <1>3, <1>6, <1>8, <1>17 DEF Onward
<1>10. then = IF ~ Searchable(f, w) THEN None
              ELSE IF link THEN IF w.links = 0 THEN None
                                ELSE [at |-> w.at, rest |-> f[i].to \o Tail(w.rest), links |-> w.links - 1]
              ELSE IF last THEN w
              ELSE IF i = None THEN None
              ELSE [at |-> i, rest |-> Tail(w.rest), links |-> w.links]
  BY DEF Onward
<1>11. Settled(f, w, TRUE) <=> last /\ ~ link
  BY DEF Settled
<1>12. /\ link /\ w.links # 0 =>
            [at |-> w.at, rest |-> f[i].to \o Tail(w.rest), links |-> w.links - 1] \in Walk(f)
       /\ ~ last /\ i # None => [at |-> i, rest |-> Tail(w.rest), links |-> w.links] \in Walk(f)
       /\ None \notin Walk(f)
  BY Goes, WalkIs
<1>. HIDE DEF i, next, then
<1>13. CASE ~ Searchable(f, w) \/ (link /\ w.links = 0) \/ (~ link /\ i = None)
  BY <1>5, <1>9, <1>13 DEF next
<1>14. CASE Searchable(f, w) /\ link /\ w.links # 0
  <2>1. then = [at |-> w.at, rest |-> f[i].to \o Tail(w.rest), links |-> w.links - 1] /\ then # None
    BY <1>10, <1>12, <1>14
  <2>2. f[i].to \o Tail(u.rest) = Append(f[i].to \o Tail(w.rest), name)
    <3>1. f[i].to \in Seq(Name)
      BY <1>8, <1>14, InodeIs
    <3>. DEFINE to == f[i].to
                tail == Tail(w.rest)
    <3>2. to \o Append(tail, name) = Append(to \o tail, name)
      <4>1. to \in Seq(Name) /\ tail \in Seq(Name)
        BY <1>2, <3>1
      <4>. HIDE DEF to, tail
      <4>. QED
        BY <4>1, ConcatAppend
    <3>. QED
      BY <1>6, <3>2
  <2>3. next = [at |-> w.at, rest |-> Append(f[i].to \o Tail(w.rest), name), links |-> w.links - 1]
    BY <1>9, <1>14, <2>2
  <2>4. Beside(f, then, next, name)
    BY <2>1, <2>3 DEF Beside
  <2>. QED
    BY <1>5, <1>11, <1>14, <2>1, <2>4 DEF next, then
<1>15. CASE Searchable(f, w) /\ ~ link /\ i # None /\ ~ last
  <2>1. then = [at |-> i, rest |-> Tail(w.rest), links |-> w.links] /\ then # None
    BY <1>10, <1>12, <1>15
  <2>2. next = [at |-> i, rest |-> Append(Tail(w.rest), name), links |-> w.links]
    BY <1>6, <1>9, <1>15
  <2>3. Beside(f, then, next, name)
    BY <2>1, <2>2 DEF Beside
  <2>. QED
    BY <1>5, <1>11, <1>15, <2>1, <2>3 DEF next, then
<1>16. CASE Searchable(f, w) /\ ~ link /\ i # None /\ last
  <2>1. then = w /\ next = [at |-> i, rest |-> <<name>>, links |-> w.links]
    BY <1>7, <1>9, <1>10, <1>16
  <2>2. Arrived(f, w, next, name)
    BY <1>11, <1>16, <2>1 DEF Arrived, i, then
  <2>. QED
    BY <1>5, <2>2 DEF next
<1>. QED
  BY <1>13, <1>14, <1>15, <1>16

\* What a path with one name more leads to.
LEMMA LstatAppend ==
  ASSUME NEW f, Tree(f), NEW path \in Paths, NEW name \in Name, Stat(f, path) # None
  PROVE  /\ Append(path, name) \in Paths
         /\ Lstat(f, Append(path, name)) \in {Child(f, Stat(f, path), name), None}
<1>. DEFINE long == Append(path, name)
<1>1. long \in Paths /\ Len(long) = Len(path) + 1 /\ Len(path) \in Nat
  <2>1. path \in Seq(Name)
    BY PathIs
  <2>. QED
    BY <2>1, AppendProperties, LenProperties DEF Paths
<1>20. path # <<"">> /\ long # <<"">>
  <2>1. path # <<"">>
    BY Began, PlaceIs DEF Stat
  <2>2. Len(<<"">>) = 1 /\ Len(long) # 1
    BY <1>1, PathIs
  <2>. HIDE DEF long
  <2>. QED
    BY <2>1, <2>2
<1>. HIDE DEF long
<1>0. PICK T, N : Trails(T, f, path, TRUE) /\ Trails(N, f, long, FALSE)
  BY <1>1, TrailExists
<1>. DEFINE E == Enough(f, path)
            S == {n \in 0 .. E : \/ N[n] = None
                                 \/ T[n] \in Walk(f) /\ (Beside(f, T[n], N[n], name) \/ Arrived(f, T[n], N[n], name))}
<1>2. /\ T[0] = Begin(path) /\ Begin(path) \in Walk(f)
      /\ \A n \in Nat :
                         /\ T[n] \in Walk(f) \/ T[n] = None
                         /\ T[n] \in Walk(f) => T[n + 1] = Onward(f, T[n], TRUE)
  BY <1>0, <1>20, BeginIs DEF Trails
<1>3. /\ N[0] = Begin(long)
      /\ \A n \in Nat :
                         /\ N[n] \in Walk(f) \/ N[n] = None
                         /\ N[n] = None => N[n + 1] = None
                         /\ N[n] \in Walk(f) => N[n + 1] = Onward(f, N[n], FALSE)
  BY <1>0 DEF Trails
<1>4. E \in Nat /\ Lookup(f, path, TRUE) = T[E] /\ Lookup(f, long, FALSE) = N[E + 1]
  <2>1. E \in Nat /\ Lookup(f, path, TRUE) = T[E]
    BY <1>0 DEF Trails
  <2>2. Lookup(f, long, FALSE) = N[Enough(f, long)]
    BY <1>0 DEF Trails
  <2>3. Enough(f, long) = E + 1
    <3>. DEFINE m == MaxLinks * Longest(f)
    <3>1. m \in Nat
      BY LongestIs, FilesAssumption
    <3>2. Enough(f, long) = Len(long) + m /\ E = Len(path) + m
      BY DEF Enough
    <3>. HIDE DEF m, E
    <3>. QED
      BY <1>1, <3>1, <3>2
  <2>. HIDE DEF E
  <2>. QED
    BY <2>1, <2>2, <2>3
<1>. HIDE DEF E
<1>5. 0 \in S
  <2>1. Beside(f, T[0], N[0], name)
    <3>1. /\ T[0] = [at |-> Cwd, rest |-> path, links |-> MaxLinks]
          /\ N[0] = [at |-> Cwd, rest |-> long, links |-> MaxLinks]
      BY <1>1, <1>2, <1>3, <1>20, BeginIs
    <3>. QED
      BY <3>1 DEF Beside, long
  <2>. QED
    BY <1>2, <1>4, <2>1
<1>6. ASSUME NEW n \in Nat, T[n] \in Walk(f), Beside(f, T[n], N[n], name)
      PROVE  \/ N[n + 1] = None
             \/ T[n + 1] \in Walk(f) /\ ~ Settled(f, T[n], TRUE) /\ Beside(f, T[n + 1], N[n + 1], name)
             \/ T[n + 1] = T[n] /\ Arrived(f, T[n], N[n + 1], name)
  <2>1. N[n] \in Walk(f)
    BY <1>6, StepBeside
  <2>2. /\ T[n + 1] = Onward(f, T[n], TRUE) /\ N[n + 1] = Onward(f, N[n], FALSE)
        /\ T[n + 1] \in Walk(f) \/ T[n + 1] = None
    <3>1. n + 1 \in Nat
      OBVIOUS
    <3>2. T[n + 1] \in Walk(f) \/ T[n + 1] = None
      BY <1>2, <3>1
    <3>3. T[n + 1] = Onward(f, T[n], TRUE)
      BY <1>2, <1>6
    <3>4. N[n + 1] = Onward(f, N[n], FALSE)
      BY <1>3, <2>1
    <3>. QED
      BY <3>2, <3>3, <3>4
  <2>3. \/ N[n + 1] = None
        \/ T[n + 1] # None /\ ~ Settled(f, T[n], TRUE) /\ Beside(f, T[n + 1], N[n + 1], name)
        \/ Arrived(f, T[n], N[n + 1], name)
    BY <1>6, <2>2, StepBeside
  <2>. QED
    BY <2>2, <2>3 DEF Arrived
<1>7. ASSUME NEW n \in Nat, T[n] \in Walk(f), Arrived(f, T[n], N[n], name)
      PROVE  N[n + 1] = None \/ (T[n + 1] = T[n] /\ N[n + 1] = N[n])
  <2>1. CASE N[n] = None
    BY <1>3, <2>1
  <2>2. CASE N[n] \in Walk(f)
    <3>1. T[n + 1] = Onward(f, T[n], TRUE) /\ N[n + 1] = Onward(f, N[n], FALSE)
      BY <1>2, <1>3, <1>7, <2>2
    <3>2. Settled(f, N[n], FALSE)
      <4>1. N[n].rest = <<name>>
        BY <1>7 DEF Arrived
      <4>2. Len(<<name>>) = 1
        OBVIOUS
      <4>. QED
        BY <4>1, <4>2 DEF Settled
    <3>. QED
      BY <1>7, <2>2, <3>1, <3>2, OnwardIs DEF Arrived
  <2>. QED
    BY <1>3, <2>1, <2>2
<1>8. ASSUME NEW n \in 0 .. E - 1, n \in S PROVE n + 1 \in S
  <2>1. n \in Nat /\ n + 1 \in 0 .. E
    BY <1>4
  <2>2. N[n] = None => N[n + 1] = None
    BY <1>3, <2>1
  <2>. QED
    BY <1>6, <1>7, <1>8, <2>1, <2>2
<1>9. E \in S
  <2>. HIDE DEF S
  <2>1. 0 .. E \subseteq S
    BY <1>4, <1>5, <1>8, InductionTo
  <2>. QED
    BY <1>4, <2>1
<1>10. /\ Lookup(f, path, TRUE) # None /\ T[E] \in Walk(f) /\ Settled(f, T[E], TRUE)
       /\ Stat(f, path) = Child(f, T[E].at, Head(T[E].rest))
  <2>1. Lookup(f, path, TRUE) # None /\ Stat(f, path) = Child(f, T[E].at, Head(T[E].rest))
    BY <1>4, PlaceIs DEF Stat
  <2>. QED
    BY <1>4, <2>1, Ends
<1>11. N[E + 1] = None \/ Arrived(f, T[E], N[E + 1], name)
  <2>1. N[E] = None => N[E + 1] = None
    BY <1>3, <1>4
  <2>. QED
    BY <1>4, <1>6, <1>7, <1>9, <1>10, <2>1
<1>12. CASE N[E + 1] = None
  BY <1>1, <1>4, <1>12, PlaceIs DEF Lstat, long
<1>13. CASE N[E + 1] # None /\ Arrived(f, T[E], N[E + 1], name)
  <2>1. N[E + 1] = [at |-> Stat(f, path), rest |-> <<name>>, links |-> T[E].links]
    BY <1>10, <1>13 DEF Arrived
  <2>2. N[E + 1].at = Stat(f, path) /\ Head(N[E + 1].rest) = name
    BY <2>1
  <2>3. Lstat(f, long) = Child(f, Stat(f, path), name)
    BY <1>1, <1>4, <1>13, <2>2, PlaceIs DEF Lstat
  <2>. QED
    BY <1>1, <2>3 DEF long
<1>. QED
  BY <1>11, <1>12, <1>13

-----------------------------------------------------------------------------
(***************************************************************************)
(* Removing entries from a tree.                                           *)
(***************************************************************************)
\* f is what is left of g.
Pruned(f, g) ==
  /\ f = [i \in DOMAIN g |-> f[i]]
  /\ \A i \in DOMAIN g :
       /\ f[i] = [type |-> g[i].type, mode |-> g[i].mode, data |-> g[i].data, ents |-> f[i].ents,
                  to |-> g[i].to, atime |-> g[i].atime, mtime |-> g[i].mtime]
       /\ f[i].ents = [n \in DOMAIN f[i].ents |-> g[i].ents[n]]
       /\ DOMAIN f[i].ents \subseteq DOMAIN g[i].ents

LEMMA PrunedIs ==
  ASSUME NEW f, NEW g, Pruned(f, g)
  PROVE  /\ DOMAIN f = DOMAIN g
         /\ \A i \in DOMAIN g :
              /\ f[i].type = g[i].type /\ f[i].mode = g[i].mode /\ f[i].data = g[i].data
              /\ f[i].to = g[i].to
              /\ DOMAIN f[i].ents \subseteq DOMAIN g[i].ents
              /\ \A n \in DOMAIN f[i].ents : f[i].ents[n] = g[i].ents[n]
<1>1. DOMAIN f = DOMAIN g
  BY DEF Pruned
<1>2. ASSUME NEW i \in DOMAIN g
      PROVE  /\ f[i].type = g[i].type /\ f[i].mode = g[i].mode /\ f[i].data = g[i].data
             /\ f[i].to = g[i].to
  <2>1. f[i] = [type |-> g[i].type, mode |-> g[i].mode, data |-> g[i].data, ents |-> f[i].ents,
                to |-> g[i].to, atime |-> g[i].atime, mtime |-> g[i].mtime]
    BY DEF Pruned
  <2>. QED
    BY <2>1
<1>3. ASSUME NEW i \in DOMAIN g
      PROVE  /\ DOMAIN f[i].ents \subseteq DOMAIN g[i].ents
             /\ \A n \in DOMAIN f[i].ents : f[i].ents[n] = g[i].ents[n]
  <2>. DEFINE e == f[i].ents
  <2>1. e = [n \in DOMAIN e |-> g[i].ents[n]] /\ DOMAIN e \subseteq DOMAIN g[i].ents
    BY DEF Pruned
  <2>. HIDE DEF e
  <2>2. \A n \in DOMAIN e : e[n] = g[i].ents[n]
    BY <2>1
  <2>. QED
    BY <2>1, <2>2 DEF e
<1>. QED
  BY <1>1, <1>2, <1>3

LEMMA PrunedSelf ==
  ASSUME NEW g, Tree(g)
  PROVE  Pruned(g, g)
<1>1. g = [i \in DOMAIN g |-> g[i]]
  <2>1. g \in Seq(Range(g))
    BY DEF Tree
  <2>2. g \in [1 .. Len(g) -> Range(g)]
    BY <2>1, LenProperties
  <2>. QED
    BY <2>2
<1>2. ASSUME NEW i \in DOMAIN g
      PROVE  /\ g[i] = [type |-> g[i].type, mode |-> g[i].mode, data |-> g[i].data, ents |-> g[i].ents,
                        to |-> g[i].to, atime |-> g[i].atime, mtime |-> g[i].mtime]
             /\ g[i].ents = [n \in DOMAIN g[i].ents |-> g[i].ents[n]]
  <2>1. g[i].ents \in [DOMAIN g[i].ents -> DOMAIN g]
    BY InodeIs
  <2>2. g[i].ents = [n \in DOMAIN g[i].ents |-> g[i].ents[n]]
    BY <2>1
  <2>. QED
    BY <2>2, InodeIs
<1>. QED
  BY <1>1, <1>2 DEF Pruned

LEMMA PrunedTree ==
  ASSUME NEW g, Tree(g), NEW f, Pruned(f, g)
  PROVE  Tree(f)
<1>1. DOMAIN f = DOMAIN g /\ f = [i \in DOMAIN f |-> f[i]]
  BY PrunedIs DEF Pruned
<1>2. f \in Seq(Range(f))
  <2>1. g \in Seq(Range(g))
    BY DEF Tree
  <2>2. Len(g) \in Nat /\ DOMAIN g = 1 .. Len(g)
    BY <2>1, LenProperties
  <2>3. \A i \in 1 .. Len(g) : f[i] \in Range(f)
    BY <1>1, <2>2 DEF Range
  <2>. QED
    BY <1>1, <2>2, <2>3
<1>3. Root \in DOMAIN f /\ Cwd \in DOMAIN f /\ f[Root].type = "dir"
  BY <1>1, TreeIs, PrunedIs DEF Tree
<1>4. ASSUME NEW i \in DOMAIN f
      PROVE  /\ f[i] = [type |-> f[i].type, mode |-> f[i].mode, data |-> f[i].data,
                        ents |-> f[i].ents, to |-> f[i].to, atime |-> f[i].atime, mtime |-> f[i].mtime]
             /\ f[i].ents \in [DOMAIN f[i].ents -> DOMAIN f] /\ DOMAIN f[i].ents \subseteq Name \ Special
             /\ f[i].to \in Seq(Name) /\ (f[i].type = "lnk" => f[i].to # <<>>)
             /\ f[i].data \in Seq(Range(f[i].data))
  <2>1. f[i] = [type |-> g[i].type, mode |-> g[i].mode, data |-> g[i].data, ents |-> f[i].ents,
                to |-> g[i].to, atime |-> g[i].atime, mtime |-> g[i].mtime]
    BY <1>1 DEF Pruned
  <2>2. f[i] = [type |-> f[i].type, mode |-> f[i].mode, data |-> f[i].data,
                ents |-> f[i].ents, to |-> f[i].to, atime |-> f[i].atime, mtime |-> f[i].mtime]
    BY <2>1
  <2>3. f[i].ents \in [DOMAIN f[i].ents -> DOMAIN f] /\ DOMAIN f[i].ents \subseteq Name \ Special
    <3>. DEFINE e == f[i].ents
    <3>1. e = [n \in DOMAIN e |-> g[i].ents[n]] /\ DOMAIN e \subseteq DOMAIN g[i].ents
      BY <1>1 DEF Pruned
    <3>2. g[i].ents \in [DOMAIN g[i].ents -> DOMAIN g] /\ DOMAIN g[i].ents \subseteq Name \ Special
      BY <1>1, InodeIs
    <3>. HIDE DEF e
    <3>3. e \in [DOMAIN e -> DOMAIN g] /\ DOMAIN e \subseteq Name \ Special
      BY <3>1, <3>2
    <3>. QED
      BY <1>1, <3>3 DEF e
  <2>4. /\ f[i].to \in Seq(Name) /\ (f[i].type = "lnk" => f[i].to # <<>>)
        /\ f[i].data \in Seq(Range(f[i].data))
    BY <1>1, InodeIs, PrunedIs
  <2>. QED
    BY <2>2, <2>3, <2>4
<1>5. \A d \in DOMAIN f : Range(f[d].ents) \subseteq Range(g[d].ents)
  BY <1>1, PrunedIs DEF Range
<1>6. ASSUME NEW d \in DOMAIN f, NEW e \in DOMAIN f,
             NEW i, i \in Range(f[d].ents) \intersect Range(f[e].ents), f[i].type = "dir"
      PROVE  d = e
  <2>1. i \in Range(g[d].ents) \intersect Range(g[e].ents)
    BY <1>5, <1>6
  <2>2. i \in DOMAIN g
    <3>1. g[d].ents \in [DOMAIN g[d].ents -> DOMAIN g]
      BY <1>1, InodeIs
    <3>. QED
      BY <2>1, <3>1 DEF Range
  <2>3. g[i].type = "dir"
    BY <1>6, <2>2, PrunedIs
  <2>. QED
    BY <1>1, <2>1, <2>3 DEF Tree
<1>7. \A d \in DOMAIN f : Root \notin Range(f[d].ents)
  BY <1>1, <1>5 DEF Tree
<1>. QED
  BY <1>2, <1>3, <1>4, <1>6, <1>7 DEF Tree

\* What is left when one more entry is removed.
LEMMA PrunedWithout ==
  ASSUME NEW g, Tree(g), NEW f, Pruned(f, g), NEW d \in DOMAIN g, NEW name
  PROVE  LET h == Without(f, [dir |-> d, name |-> name])
         IN  /\ Pruned(h, g)
             /\ \A e \in DOMAIN g : \A n \in DOMAIN f[e].ents :
                  (e = d => n # name) => n \in DOMAIN h[e].ents
<1>. DEFINE ents == [n \in DOMAIN f[d].ents \ {name} |-> f[d].ents[n]]
            inode == [f[d] EXCEPT !.ents = ents]
            h == [f EXCEPT ![d] = inode]
<1>1. Without(f, [dir |-> d, name |-> name]) = h
  BY DEF Without, Restrict
<1>2. /\ DOMAIN f = DOMAIN g /\ f = [i \in DOMAIN g |-> f[i]] /\ DOMAIN f[d].ents \subseteq DOMAIN g[d].ents
      /\ \A n \in DOMAIN f[d].ents : f[d].ents[n] = g[d].ents[n]
  <2>1. f = [i \in DOMAIN g |-> f[i]]
    BY DEF Pruned
  <2>. QED
    BY <2>1, PrunedIs
<1>3. /\ inode = [type |-> g[d].type, mode |-> g[d].mode, data |-> g[d].data, ents |-> ents,
                  to |-> g[d].to, atime |-> g[d].atime, mtime |-> g[d].mtime]
      /\ inode.ents = ents
  <2>1. f[d] = [type |-> g[d].type, mode |-> g[d].mode, data |-> g[d].data, ents |-> f[d].ents,
                to |-> g[d].to, atime |-> g[d].atime, mtime |-> g[d].mtime]
    BY DEF Pruned
  <2>. HIDE DEF ents
  <2>. QED
    BY <2>1
<1>4. /\ DOMAIN ents = DOMAIN f[d].ents \ {name}
      /\ ents = [n \in DOMAIN ents |-> g[d].ents[n]]
      /\ DOMAIN ents \subseteq DOMAIN g[d].ents
  BY <1>2
<1>. HIDE DEF ents, inode
<1>5. h[d] = inode /\ DOMAIN h = DOMAIN g /\ \A e \in DOMAIN g \ {d} : h[e] = f[e]
  BY <1>2
<1>. HIDE DEF h
<1>6. h = [i \in DOMAIN g |-> h[i]]
  BY <1>2 DEF h
<1>7. ASSUME NEW i \in DOMAIN g
      PROVE  /\ h[i] = [type |-> g[i].type, mode |-> g[i].mode, data |-> g[i].data, ents |-> h[i].ents,
                        to |-> g[i].to, atime |-> g[i].atime, mtime |-> g[i].mtime]
             /\ h[i].ents = [n \in DOMAIN h[i].ents |-> g[i].ents[n]]
             /\ DOMAIN h[i].ents \subseteq DOMAIN g[i].ents
  <2>1. CASE i = d
    BY <1>3, <1>4, <1>5, <2>1
  <2>2. CASE i # d
    <3>1. h[i] = f[i]
      BY <1>5, <2>2
    <3>2. /\ f[i] = [type |-> g[i].type, mode |-> g[i].mode, data |-> g[i].data, ents |-> f[i].ents,
                     to |-> g[i].to, atime |-> g[i].atime, mtime |-> g[i].mtime]
          /\ f[i].ents = [n \in DOMAIN f[i].ents |-> g[i].ents[n]]
          /\ DOMAIN f[i].ents \subseteq DOMAIN g[i].ents
      BY DEF Pruned
    <3>. QED
      BY <3>1, <3>2, Zenon
  <2>. QED
    BY <2>1, <2>2
<1>8. Pruned(h, g)
  BY <1>6, <1>7 DEF Pruned
<1>9. ASSUME NEW e \in DOMAIN g, NEW n \in DOMAIN f[e].ents, e = d => n # name
      PROVE  n \in DOMAIN h[e].ents
  BY <1>3, <1>4, <1>5, <1>9
<1>. QED
  BY <1>1, <1>8, <1>9

\* A name that is still there leads where it did.
LEMMA ChildPruned ==
  ASSUME NEW g, Tree(g), NEW f, Pruned(f, g), NEW d \in DOMAIN g, g[d].type = "dir", NEW name
  PROVE  Child(f, d, name) \in {Child(g, d, name), None}
<1>1. /\ DOMAIN f = DOMAIN g
      /\ DOMAIN f[d].ents \subseteq DOMAIN g[d].ents
      /\ \A n \in DOMAIN f[d].ents : f[d].ents[n] = g[d].ents[n]
  BY PrunedIs
<1>2. Up(f, d) \in {Up(g, d), None}
  <2>1. \A e \in DOMAIN g : Range(f[e].ents) \subseteq Range(g[e].ents)
    BY PrunedIs DEF Range
  <2>2. CASE \E e \in DOMAIN f : d \in Range(f[e].ents)
    <3>1. PICK e \in DOMAIN g : d \in Range(f[e].ents) /\ d \in Range(g[e].ents)
      BY <1>1, <2>1, <2>2
    <3>2. \A x \in DOMAIN g : d \in Range(g[x].ents) => x = e
      BY <3>1 DEF Tree
    <3>3. \A x \in DOMAIN f : d \in Range(f[x].ents) => x = e
      BY <1>1, <2>1, <3>2
    <3>4. Up(f, d) = e
      BY <1>1, <3>1, <3>3 DEF Up
    <3>5. Up(g, d) = e
      BY <3>1, <3>2 DEF Up
    <3>. QED
      BY <3>4, <3>5
  <2>3. CASE ~ (\E e \in DOMAIN f : d \in Range(f[e].ents)) /\ d = Root
    <3>1. ~ \E e \in DOMAIN g : d \in Range(g[e].ents)
      BY <2>3 DEF Tree
    <3>. QED
      BY <2>3, <3>1 DEF Up
  <2>4. CASE ~ (\E e \in DOMAIN f : d \in Range(f[e].ents)) /\ d # Root
    BY <2>4 DEF Up
  <2>. QED
    BY <2>2, <2>3, <2>4
<1>3. CASE name \in Special
  BY <1>2, <1>3 DEF Child, Special
<1>4. CASE name \notin Special
  BY <1>1, <1>4 DEF Child, Special
<1>. QED
  BY <1>3, <1>4

\* What a path still names is what it named.
LEMMA LstatPruned ==
  ASSUME NEW g, Tree(g), NEW f, Pruned(f, g), NEW path \in Paths, Lstat(f, path) # None
  PROVE  /\ Lstat(f, path) = Lstat(g, path) /\ Lstat(f, path) \in DOMAIN g
         /\ \E d \in DOMAIN g, name \in Name :
              /\ Place(f, path, FALSE) = [dir |-> d, name |-> name]
              /\ Lstat(f, path) = Child(f, d, name)
<1>1. Tree(f)
  BY PrunedTree
<1>2. /\ DOMAIN f = DOMAIN g
      /\ \A i \in DOMAIN g : f[i].type = g[i].type /\ f[i].mode = g[i].mode /\ f[i].to = g[i].to
  BY PrunedIs
<1>3. PICK T, N : Trails(T, g, path, FALSE) /\ Trails(N, f, path, FALSE)
  BY <1>1, TrailExists
<1>. DEFINE E == Enough(g, path)
            S == {n \in 0 .. E : N[n] = T[n] \/ N[n] = None}
<1>4. Walk(f) = Walk(g) /\ E = Enough(f, path)
  <2>1. {Len(f[i].to) : i \in DOMAIN f} = {Len(g[i].to) : i \in DOMAIN g}
    BY <1>2
  <2>2. Longest(f) = Longest(g)
    BY <2>1 DEF Longest
  <2>. QED
    BY <1>2, <2>2 DEF Walk, Enough
<1>5. E \in Nat /\ Lookup(g, path, FALSE) = T[E] /\ Lookup(f, path, FALSE) = N[E]
  BY <1>3, <1>4 DEF Trails
<1>. HIDE DEF E
<1>6. ASSUME NEW walk \in Walk(g)
      PROVE  Onward(f, walk, FALSE) \in {Onward(g, walk, FALSE), None}
  <2>. DEFINE i == Child(g, walk.at, Head(walk.rest))
              j == Child(f, walk.at, Head(walk.rest))
  <2>1. walk.at \in DOMAIN g
    BY WalkIs
  <2>2. Searchable(f, walk) <=> Searchable(g, walk)
    BY <1>2, <2>1 DEF Searchable
  <2>3. CASE ~ Searchable(f, walk)
    BY <2>3 DEF Onward
  <2>4. CASE Searchable(f, walk)
    <3>1. j \in {i, None} /\ i \in DOMAIN g \union {None}
      BY <2>1, <2>2, <2>4, ChildPruned, ChildIs DEF Searchable
    <3>2. CASE j = None
      <4>1. Onward(f, walk, FALSE) = IF Len(walk.rest) = 1 THEN walk ELSE None
        BY <2>4, <3>2 DEF Onward
      <4>2. Len(walk.rest) = 1 => Onward(g, walk, FALSE) = walk
        BY <2>2, <2>4 DEF Onward
      <4>. QED
        BY <4>1, <4>2
    <3>3. CASE j = i /\ i # None
      <4>1. f[i].type = g[i].type /\ f[i].to = g[i].to
        BY <1>2, <3>1, <3>3
      <4>. QED
        BY <2>2, <3>3, <4>1 DEF Onward
    <3>. QED
      BY <3>1, <3>2, <3>3
  <2>. QED
    BY <2>3, <2>4
<1>7. 0 \in S
  <2>1. N[0] = T[0]
    BY <1>3 DEF Trails
  <2>. QED
    BY <1>5, <2>1
<1>8. ASSUME NEW n \in 0 .. E - 1, n \in S PROVE n + 1 \in S
  <2>1. n \in Nat /\ n + 1 \in 0 .. E
    BY <1>5
  <2>2. CASE N[n] = None
    <3>1. N[n + 1] = None
      BY <1>3, <2>1, <2>2 DEF Trails
    <3>. QED
      BY <2>1, <3>1
  <2>3. CASE N[n] # None
    <3>1. N[n] \in Walk(f) /\ N[n + 1] = Onward(f, N[n], FALSE)
      BY <1>3, <2>1, <2>3 DEF Trails
    <3>2. T[n] = N[n] /\ T[n + 1] = Onward(g, T[n], FALSE)
      BY <1>3, <1>4, <1>8, <2>1, <2>3, <3>1 DEF Trails
    <3>. QED
      BY <1>4, <1>6, <2>1, <3>1, <3>2
  <2>. QED
    BY <2>2, <2>3
<1>9. E \in S
  <2>. HIDE DEF S
  <2>1. 0 .. E \subseteq S
    BY <1>5, <1>7, <1>8, InductionTo
  <2>. QED
    BY <1>5, <2>1
<1>. DEFINE walk == Lookup(f, path, FALSE)
<1>10. walk # None /\ Lstat(f, path) = Child(f, walk.at, Head(walk.rest))
       /\ Place(f, path, FALSE) = [dir |-> walk.at, name |-> Head(walk.rest)]
  BY <1>1, PlaceIs DEF Lstat
<1>11. Lookup(g, path, FALSE) = walk
  BY <1>5, <1>9, <1>10
<1>. HIDE DEF walk
<1>12. walk.at \in DOMAIN g /\ walk.rest \in Paths /\ Searchable(f, walk)
  BY <1>1, <1>2, <1>10, Ends DEF walk
<1>13. Head(walk.rest) \in Name
  BY <1>12, PathIs
<1>14. g[walk.at].type = "dir"
  BY <1>2, <1>12 DEF Searchable
<1>15. Lstat(g, path) = Child(g, walk.at, Head(walk.rest))
  BY <1>10, <1>11, PlaceIs DEF Lstat
<1>16. Lstat(f, path) = Lstat(g, path)
  BY <1>10, <1>12, <1>14, <1>15, ChildPruned
<1>17. Lstat(f, path) \in DOMAIN g
  BY <1>1, <1>2, StatIs
<1>. QED
  BY <1>10, <1>12, <1>13, <1>16, <1>17

\* The inodes below one are closed under going down.
LEMMA BelowIs ==
  ASSUME NEW f, Tree(f), NEW i \in DOMAIN f
  PROVE  /\ i \in Below(f, i)
         /\ \A j \in Below(f, i) : j \in DOMAIN f /\ Range(f[j].ents) \subseteq Below(f, i)
<1>. DEFINE D == DOMAIN f
            S == SUBSET D
            N == Cardinality(D)
            Down(v) == {i} \union UNION {Range(f[j].ents) : j \in v}
            F == [n \in Nat |-> [v \in S |-> Down(v)]]
            Is(w) == w = [n \in Nat |-> IF n = 0 THEN {i}
                                        ELSE {i} \union UNION {Range(f[j].ents) : j \in w[n - 1]}]
            W == CHOOSE w : Is(w)
<1>1. Below(f, i) = W[N]
  BY DEF Below
<1>2. \A v \in S : Down(v) \in S
  <2>1. ASSUME NEW j \in D PROVE Range(f[j].ents) \subseteq D
    <3>1. f[j].ents \in [DOMAIN f[j].ents -> D]
      BY InodeIs
    <3>. QED
      BY <3>1 DEF Range
  <2>. QED
    BY <2>1
<1>3. StepsIn(F, S) /\ {i} \in S
  BY <1>2 DEF StepsIn
<1>4. PICK h : Recursive(h, S, F, {i})
  <2>. HIDE DEF F, S
  <2>. QED
    BY <1>3, Recursion
<1>5. h \in [Nat -> S] /\ h[0] = {i} /\ \A n \in Nat \ {0} : h[n] = Down(h[n - 1])
  <2>. DEFINE x == {i}
  <2>1. h \in [Nat -> S] /\ h[0] = x /\ \A n \in Nat \ {0} : h[n] = F[n][h[n - 1]]
    <3>1. Recursive(h, S, F, x)
      BY <1>4
    <3>. HIDE DEF F, S, x
    <3>. QED
      BY <3>1 DEF Recursive
  <2>. HIDE DEF S, Down
  <2>2. ASSUME NEW n \in Nat \ {0} PROVE h[n] = Down(h[n - 1])
    <3>1. n - 1 \in Nat
      OBVIOUS
    <3>2. h[n - 1] \in S /\ h[n] = F[n][h[n - 1]]
      BY <2>1, <3>1
    <3>3. F[n] = [v \in S |-> Down(v)]
      OBVIOUS
    <3>. HIDE DEF F
    <3>. QED
      BY <3>2, <3>3
  <2>. QED
    BY <2>1, <2>2
<1>6. Is(h)
  BY <1>5
<1>7. Is(W)
  <2>. HIDE DEF Is
  <2>. QED
    BY <1>6
<1>. HIDE DEF Is, W
<1>8. W[0] = {i} /\ \A n \in Nat \ {0} : W[n] = Down(W[n - 1])
  BY <1>7 DEF Is
<1>9. \A n \in Nat : W[n] \in S
  <2>. DEFINE A == {n \in Nat : W[n] \in S}
  <2>1. 0 \in A
    BY <1>3, <1>8
  <2>2. ASSUME NEW n \in A PROVE n + 1 \in A
    <3>. HIDE DEF S, Down
    <3>1. W[n + 1] = Down(W[n])
      BY <1>8
    <3>. QED
      BY <1>2, <3>1
  <2>. HIDE DEF A
  <2>3. A = Nat
    BY <2>1, <2>2, Induction DEF A
  <2>. QED
    BY <2>3 DEF A
<1>. HIDE DEF Down
<1>10. ASSUME NEW n \in Nat PROVE W[n + 1] = Down(W[n])
  <2>1. n + 1 \in Nat \ {0} /\ (n + 1) - 1 = n
    OBVIOUS
  <2>. QED
    BY <1>8, <2>1
<1>11. \A u, v \in S : u \subseteq v => Down(u) \subseteq Down(v)
  BY DEF Down
<1>12. \A n \in Nat : W[n] \subseteq W[n + 1]
  <2>. DEFINE A == {n \in Nat : W[n] \subseteq W[n + 1]}
  <2>1. 0 \in A
    BY <1>8, <1>10 DEF Down
  <2>2. ASSUME NEW n \in A PROVE n + 1 \in A
    <3>1. n \in Nat /\ n + 1 \in Nat /\ W[n] \subseteq W[n + 1] /\ W[n] \in S /\ W[n + 1] \in S
      BY <1>9
    <3>2. W[n + 1] = Down(W[n]) /\ W[(n + 1) + 1] = Down(W[n + 1])
      BY <1>10, <3>1
    <3>. HIDE DEF S
    <3>. QED
      BY <1>11, <3>1, <3>2
  <2>. HIDE DEF A
  <2>3. A = Nat
    BY <2>1, <2>2, Induction DEF A
  <2>. QED
    BY <2>3 DEF A
<1>13. IsFiniteSet(D) /\ N \in Nat
  BY TreeIs, FS_CardinalityType
<1>14. \A v \in S : IsFiniteSet(v) /\ Cardinality(v) \in Nat /\ Cardinality(v) <= N
  BY <1>13, FS_Subset, FS_CardinalityType
<1>15. \A n \in Nat : W[n + 1] = W[n] \/ Cardinality(W[n]) >= n + 1
  <2>. DEFINE A == {n \in Nat : W[n + 1] = W[n] \/ Cardinality(W[n]) >= n + 1}
  <2>1. 0 \in A
    <3>1. Cardinality(W[0]) = 1
      BY <1>8, FS_Singleton
    <3>. QED
      BY <3>1
  <2>2. ASSUME NEW n \in A PROVE n + 1 \in A
    <3>1. n \in Nat /\ n + 1 \in Nat /\ W[n] \subseteq W[n + 1] /\ W[n] \in S /\ W[n + 1] \in S
      BY <1>9, <1>12
    <3>2. CASE W[n + 1] = W[n]
      <4>1. W[(n + 1) + 1] = W[n + 1]
        BY <1>10, <3>1, <3>2
      <4>. QED
        BY <3>1, <4>1
    <3>3. CASE W[n + 1] # W[n] /\ Cardinality(W[n]) >= n + 1
      <4>1. Cardinality(W[n]) < Cardinality(W[n + 1])
        BY <1>14, <3>1, <3>3, FS_Subset
      <4>2. Cardinality(W[n]) \in Nat /\ Cardinality(W[n + 1]) \in Nat
        BY <1>14, <3>1
      <4>3. Cardinality(W[n + 1]) >= (n + 1) + 1
        BY <3>1, <3>3, <4>1, <4>2
      <4>. QED
        BY <3>1, <4>3
    <3>. QED
      BY <3>2, <3>3
  <2>. HIDE DEF A
  <2>3. A = Nat
    BY <2>1, <2>2, Induction DEF A
  <2>. QED
    BY <2>3 DEF A
<1>16. W[N + 1] = W[N] /\ W[N] \in S
  <2>1. W[N] \in S /\ Cardinality(W[N]) \in Nat /\ Cardinality(W[N]) <= N
    BY <1>9, <1>13, <1>14
  <2>2. W[N + 1] = W[N] \/ Cardinality(W[N]) >= N + 1
    BY <1>13, <1>15
  <2>. HIDE DEF N, S
  <2>. QED
    BY <1>13, <2>1, <2>2
<1>17. W[N] = Down(W[N])
  BY <1>10, <1>13, <1>16
<1>. QED
  BY <1>1, <1>16, <1>17 DEF Down

-----------------------------------------------------------------------------
(***************************************************************************)
(* Adding files to a tree, and setting times.                              *)
(***************************************************************************)
\* f is g with more files in its directories and other times.
Grown(f, g) ==
  /\ DOMAIN g \subseteq DOMAIN f
  /\ \A i \in DOMAIN g :
       /\ f[i].type = g[i].type /\ f[i].mode = g[i].mode /\ f[i].data = g[i].data /\ f[i].to = g[i].to
       /\ DOMAIN g[i].ents \subseteq DOMAIN f[i].ents
       /\ DOMAIN f[i].ents = DOMAIN g[i].ents \/ g[i].type = "dir"
       /\ \A n \in DOMAIN g[i].ents : f[i].ents[n] = g[i].ents[n]
       /\ \A n \in DOMAIN f[i].ents \ DOMAIN g[i].ents : f[i].ents[n] \notin DOMAIN g
  /\ \A i \in DOMAIN f \ DOMAIN g : f[i].type = "reg" /\ f[i].to = <<>> /\ DOMAIN f[i].ents = {}

LEMMA GrownSelf ==
  ASSUME NEW g
  PROVE  Grown(g, g)
BY DEF Grown

LEMMA GrownMore ==
  ASSUME NEW h, NEW f, NEW g, Grown(h, f), Grown(f, g)
  PROVE  Grown(h, g)
<1>1. DOMAIN g \subseteq DOMAIN f /\ DOMAIN f \subseteq DOMAIN h
  BY DEF Grown
<1>2. ASSUME NEW i \in DOMAIN g
      PROVE  /\ h[i].type = g[i].type /\ h[i].mode = g[i].mode /\ h[i].data = g[i].data
             /\ h[i].to = g[i].to
             /\ DOMAIN g[i].ents \subseteq DOMAIN h[i].ents
             /\ DOMAIN h[i].ents = DOMAIN g[i].ents \/ g[i].type = "dir"
  BY <1>1 DEF Grown
<1>3. ASSUME NEW i \in DOMAIN g
      PROVE  /\ \A n \in DOMAIN g[i].ents : h[i].ents[n] = g[i].ents[n]
             /\ \A n \in DOMAIN h[i].ents \ DOMAIN g[i].ents : h[i].ents[n] \notin DOMAIN g
  BY <1>1 DEF Grown
<1>4. ASSUME NEW i \in DOMAIN h \ DOMAIN g
      PROVE  h[i].type = "reg" /\ h[i].to = <<>> /\ DOMAIN h[i].ents = {}
  <2>1. CASE i \in DOMAIN f
    <3>1. f[i].type = "reg" /\ f[i].to = <<>> /\ DOMAIN f[i].ents = {}
      BY <2>1 DEF Grown
    <3>2. /\ h[i].type = f[i].type /\ h[i].to = f[i].to
          /\ DOMAIN h[i].ents = DOMAIN f[i].ents \/ f[i].type = "dir"
      BY <2>1 DEF Grown
    <3>. QED
      BY <3>1, <3>2
  <2>2. CASE i \notin DOMAIN f
    BY <2>2 DEF Grown
  <2>. QED
    BY <2>1, <2>2
<1>. QED
  BY <1>1, <1>2, <1>3, <1>4 DEF Grown

\* A name that led somewhere leads there, and one that led nowhere at most to a new file.
LEMMA ChildGrown ==
  ASSUME NEW g, Tree(g), NEW f, Tree(f), Grown(f, g), NEW d \in DOMAIN g, g[d].type = "dir", NEW name
  PROVE  \/ Child(f, d, name) = Child(g, d, name)
         \/ Child(g, d, name) = None /\ Child(f, d, name) \in DOMAIN f \ DOMAIN g
<1>1. /\ DOMAIN g \subseteq DOMAIN f /\ DOMAIN g[d].ents \subseteq DOMAIN f[d].ents
      /\ \A n \in DOMAIN g[d].ents : f[d].ents[n] = g[d].ents[n]
      /\ \A n \in DOMAIN f[d].ents \ DOMAIN g[d].ents : f[d].ents[n] \notin DOMAIN g
  BY DEF Grown
<1>2. Up(f, d) = Up(g, d)
  <2>1. ASSUME NEW e \in DOMAIN g PROVE d \in Range(f[e].ents) <=> d \in Range(g[e].ents)
    <3>1. /\ DOMAIN g[e].ents \subseteq DOMAIN f[e].ents
          /\ \A n \in DOMAIN g[e].ents : f[e].ents[n] = g[e].ents[n]
          /\ \A n \in DOMAIN f[e].ents \ DOMAIN g[e].ents : f[e].ents[n] \notin DOMAIN g
      BY DEF Grown
    <3>. QED
      BY <3>1 DEF Range
  <2>2. ASSUME NEW e \in DOMAIN f \ DOMAIN g PROVE d \notin Range(f[e].ents)
    <3>1. DOMAIN f[e].ents = {}
      BY DEF Grown
    <3>. QED
      BY <3>1 DEF Range
  <2>3. CASE \E e \in DOMAIN g : d \in Range(g[e].ents)
    <3>1. PICK e \in DOMAIN g : d \in Range(g[e].ents)
      BY <2>3
    <3>2. \A x \in DOMAIN g : d \in Range(g[x].ents) => x = e
      BY <3>1 DEF Tree
    <3>3. \A x \in DOMAIN f : d \in Range(f[x].ents) => x = e
      BY <2>1, <2>2, <3>2
    <3>4. Up(f, d) = e
      BY <1>1, <2>1, <3>1, <3>3 DEF Up
    <3>5. Up(g, d) = e
      BY <3>1, <3>2 DEF Up
    <3>. QED
      BY <3>4, <3>5
  <2>4. CASE ~ \E e \in DOMAIN g : d \in Range(g[e].ents)
    <3>1. ~ \E e \in DOMAIN f : d \in Range(f[e].ents)
      BY <2>1, <2>2, <2>4
    <3>. QED
      BY <2>4, <3>1 DEF Up
  <2>. QED
    BY <2>3, <2>4
<1>3. CASE name \in Special
  BY <1>2, <1>3 DEF Child, Special
<1>4. CASE name \notin Special
  <2>1. \A n \in DOMAIN f[d].ents : f[d].ents[n] \in DOMAIN f
    BY <1>1, InodeIs
  <2>2. Child(f, d, name) = IF name \in DOMAIN f[d].ents THEN f[d].ents[name] ELSE None
    BY <1>4 DEF Child, Special
  <2>3. Child(g, d, name) = IF name \in DOMAIN g[d].ents THEN g[d].ents[name] ELSE None
    BY <1>4 DEF Child, Special
  <2>. QED
    BY <1>1, <2>1, <2>2, <2>3
<1>. QED
  BY <1>3, <1>4

LEMMA LongestGrown ==
  ASSUME NEW g, Tree(g), NEW f, Tree(f), Grown(f, g)
  PROVE  Longest(f) = Longest(g)
<1>1. PICK i \in DOMAIN f : Longest(f) = Len(f[i].to)
  BY LongestIs
<1>2. PICK j \in DOMAIN g : Longest(g) = Len(g[j].to)
  BY LongestIs
<1>3. Longest(f) \in Nat /\ Longest(g) \in Nat
  BY LongestIs
<1>4. Longest(f) <= Longest(g)
  <2>1. CASE i \in DOMAIN g
    <3>1. f[i].to = g[i].to
      BY <2>1 DEF Grown
    <3>. QED
      BY <1>1, <2>1, <3>1, LongestIs
  <2>2. CASE i \notin DOMAIN g
    <3>1. f[i].to = <<>>
      BY <2>2 DEF Grown
    <3>. QED
      BY <1>1, <1>3, <3>1, EmptySeq
  <2>. QED
    BY <2>1, <2>2
<1>5. Longest(g) <= Longest(f)
  <2>1. j \in DOMAIN f /\ f[j].to = g[j].to
    BY DEF Grown
  <2>. QED
    BY <1>2, <2>1, LongestIs
<1>. QED
  BY <1>3, <1>4, <1>5

\* A lookup that did not fail goes the same way.
LEMMA LookupGrown ==
  ASSUME NEW g, Tree(g), NEW f, Tree(f), Grown(f, g), NEW path \in Paths, NEW follow,
         Lookup(g, path, follow) # None
  PROVE  Lookup(f, path, follow) = Lookup(g, path, follow)
<1>1. PICK T, N : Trails(T, g, path, follow) /\ Trails(N, f, path, follow)
  BY TrailExists
<1>2. /\ DOMAIN g \subseteq DOMAIN f
      /\ \A i \in DOMAIN g : f[i].type = g[i].type /\ f[i].mode = g[i].mode /\ f[i].to = g[i].to
      /\ \A i \in DOMAIN f \ DOMAIN g : f[i].type = "reg"
  BY DEF Grown
<1>. DEFINE E == Enough(g, path)
            S == {n \in 0 .. E : T[n] = N[n] \/ T[n] = None}
<1>3. E = Enough(f, path)
  BY LongestGrown DEF Enough
<1>4. Walk(g) \subseteq Walk(f)
  BY <1>2 DEF Walk
<1>5. E \in Nat /\ Lookup(g, path, follow) = T[E] /\ Lookup(f, path, follow) = N[E]
  BY <1>1, <1>3 DEF Trails
<1>. HIDE DEF E
<1>6. ASSUME NEW walk \in Walk(g)
      PROVE  Onward(g, walk, follow) \in {Onward(f, walk, follow), None}
  <2>. DEFINE i == Child(g, walk.at, Head(walk.rest))
              j == Child(f, walk.at, Head(walk.rest))
  <2>1. walk.at \in DOMAIN g
    BY WalkIs
  <2>2. Searchable(f, walk) <=> Searchable(g, walk)
    BY <1>2, <2>1 DEF Searchable
  <2>3. CASE ~ Searchable(g, walk)
    BY <2>3 DEF Onward
  <2>4. CASE Searchable(g, walk)
    <3>1. /\ i \in DOMAIN g \union {None} /\ j \in DOMAIN f \union {None} /\ None \notin DOMAIN f
          /\ j = i \/ (i = None /\ j \in DOMAIN f \ DOMAIN g)
      BY <1>2, <2>1, <2>4, ChildGrown, ChildIs, TreeIs DEF Searchable
    <3>2. CASE i = None
      <4>1. Onward(g, walk, follow) = IF Len(walk.rest) = 1 THEN walk ELSE None
        BY <2>4, <3>2 DEF Onward
      <4>2. j # None => f[j].type = "reg"
        BY <1>2, <3>1, <3>2
      <4>3. Len(walk.rest) = 1 => Onward(f, walk, follow) = walk
        BY <2>2, <2>4, <4>2 DEF Onward
      <4>. QED
        BY <4>1, <4>3
    <3>3. CASE j = i /\ i # None
      <4>1. f[i].type = g[i].type /\ f[i].to = g[i].to
        BY <1>2, <3>1, <3>3
      <4>. QED
        BY <2>2, <3>3, <4>1 DEF Onward
    <3>. QED
      BY <3>1, <3>2, <3>3
  <2>. QED
    BY <2>3, <2>4
<1>7. 0 \in S
  <2>1. N[0] = T[0]
    BY <1>1 DEF Trails
  <2>. QED
    BY <1>5, <2>1
<1>8. ASSUME NEW n \in 0 .. E - 1, n \in S PROVE n + 1 \in S
  <2>1. n \in Nat /\ n + 1 \in 0 .. E
    BY <1>5
  <2>2. CASE T[n] = None
    <3>1. T[n + 1] = None
      BY <1>1, <2>1, <2>2 DEF Trails
    <3>. QED
      BY <2>1, <3>1
  <2>3. CASE T[n] # None
    <3>1. T[n] \in Walk(g) /\ T[n + 1] = Onward(g, T[n], follow)
      BY <1>1, <2>1, <2>3 DEF Trails
    <3>2. N[n] = T[n] /\ N[n + 1] = Onward(f, T[n], follow)
      BY <1>1, <1>4, <1>8, <2>1, <2>3, <3>1 DEF Trails
    <3>. QED
      BY <1>6, <2>1, <3>1, <3>2
  <2>. QED
    BY <2>2, <2>3
<1>9. E \in S
  <2>. HIDE DEF S
  <2>1. 0 .. E \subseteq S
    BY <1>5, <1>7, <1>8, InductionTo
  <2>. QED
    BY <1>5, <2>1
<1>. QED
  BY <1>5, <1>9

\* What a path named it names.
LEMMA StatGrown ==
  ASSUME NEW g, Tree(g), NEW f, Tree(f), Grown(f, g), NEW path \in Paths, Stat(g, path) # None
  PROVE  Stat(f, path) = Stat(g, path)
<1>. DEFINE walk == Lookup(g, path, TRUE)
<1>1. walk # None /\ Stat(g, path) = Child(g, walk.at, Head(walk.rest))
  BY PlaceIs DEF Stat
<1>2. Lookup(f, path, TRUE) = walk
  <2>1. \A follow : Lookup(g, path, follow) # None =>
          Lookup(f, path, follow) = Lookup(g, path, follow)
    BY LookupGrown
  <2>. QED
    BY <1>1, <2>1
<1>3. Stat(f, path) = Child(f, walk.at, Head(walk.rest))
  BY <1>1, <1>2, PlaceIs DEF Stat
<1>4. walk.at \in DOMAIN g /\ g[walk.at].type = "dir"
  BY <1>1, Ends DEF Searchable
<1>. HIDE DEF walk
<1>. QED
  BY <1>1, <1>3, <1>4, ChildGrown

\* h is f with other times.
Retimed(h, f) ==
  /\ h = [i \in DOMAIN f |-> h[i]]
  /\ \A i \in DOMAIN f :
       h[i] = [type |-> f[i].type, mode |-> f[i].mode, data |-> f[i].data, ents |-> f[i].ents,
               to |-> f[i].to, atime |-> h[i].atime, mtime |-> h[i].mtime]

LEMMA RetimedGrows ==
  ASSUME NEW f, Tree(f), NEW h, Retimed(h, f)
  PROVE  Tree(h) /\ Grown(h, f) /\ Grown(f, h)
<1>1. DOMAIN h = DOMAIN f /\ h = [i \in DOMAIN h |-> h[i]]
  BY DEF Retimed
<1>2. ASSUME NEW i \in DOMAIN f
      PROVE  /\ h[i] = [type |-> h[i].type, mode |-> h[i].mode, data |-> h[i].data, ents |-> h[i].ents,
                        to |-> h[i].to, atime |-> h[i].atime, mtime |-> h[i].mtime]
             /\ h[i].type = f[i].type /\ h[i].mode = f[i].mode /\ h[i].data = f[i].data
             /\ h[i].ents = f[i].ents /\ h[i].to = f[i].to
  <2>1. h[i] = [type |-> f[i].type, mode |-> f[i].mode, data |-> f[i].data, ents |-> f[i].ents,
                to |-> f[i].to, atime |-> h[i].atime, mtime |-> h[i].mtime]
    BY DEF Retimed
  <2>. QED
    BY <2>1
<1>3. h \in Seq(Range(h))
  <2>1. f \in Seq(Range(f))
    BY DEF Tree
  <2>2. Len(f) \in Nat /\ DOMAIN f = 1 .. Len(f)
    BY <2>1, LenProperties
  <2>3. \A i \in 1 .. Len(f) : h[i] \in Range(h)
    BY <1>1, <2>2 DEF Range
  <2>. QED
    BY <1>1, <2>2, <2>3
<1>4. ASSUME NEW i \in DOMAIN h
      PROVE  /\ h[i].ents \in [DOMAIN h[i].ents -> DOMAIN h] /\ DOMAIN h[i].ents \subseteq Name \ Special
             /\ h[i].to \in Seq(Name) /\ (h[i].type = "lnk" => h[i].to # <<>>)
             /\ h[i].data \in Seq(Range(h[i].data))
  BY <1>1, <1>2, InodeIs
<1>5. ASSUME NEW d \in DOMAIN h, NEW e \in DOMAIN h,
             NEW i, i \in Range(h[d].ents) \intersect Range(h[e].ents), h[i].type = "dir"
      PROVE  d = e
  <2>1. i \in Range(f[d].ents) \intersect Range(f[e].ents)
    BY <1>1, <1>2, <1>5
  <2>2. i \in DOMAIN f
    <3>1. f[d].ents \in [DOMAIN f[d].ents -> DOMAIN f]
      BY <1>1, InodeIs
    <3>. QED
      BY <2>1, <3>1 DEF Range
  <2>3. f[i].type = "dir"
    BY <1>2, <1>5, <2>2
  <2>. QED
    BY <1>1, <2>1, <2>3 DEF Tree
<1>6. \A d \in DOMAIN h : Root \notin Range(h[d].ents)
  BY <1>1, <1>2 DEF Tree
<1>7. Root \in DOMAIN h /\ Cwd \in DOMAIN h /\ h[Root].type = "dir"
  BY <1>1, <1>2, TreeIs DEF Tree
<1>8. Tree(h)
  BY <1>1, <1>2, <1>3, <1>4, <1>5, <1>6, <1>7 DEF Tree
<1>9. Grown(h, f) /\ Grown(f, h)
  BY <1>1, <1>2 DEF Grown
<1>. QED
  BY <1>8, <1>9

\* A regular file that is empty, under a name that was free.
LEMMA AddedGrows ==
  ASSUME NEW f, Tree(f), NEW d \in DOMAIN f, f[d].type = "dir",
         NEW name \in Name \ Special, name \notin DOMAIN f[d].ents,
         NEW mode, NEW atime, NEW mtime
  PROVE  LET inode == [type |-> "reg", mode |-> mode, data |-> <<>>, ents |-> NoEnts, to |-> <<>>,
                       atime |-> atime, mtime |-> mtime]
             h == Added(f, [dir |-> d, name |-> name], inode)
         IN  /\ Tree(h) /\ Grown(h, f)
             /\ Child(h, d, name) \in DOMAIN h \ DOMAIN f
             /\ \A i \in DOMAIN f : h[i].atime = f[i].atime /\ h[i].mtime = f[i].mtime
<1>. DEFINE inode == [type |-> "reg", mode |-> mode, data |-> <<>>, ents |-> NoEnts, to |-> <<>>,
                      atime |-> atime, mtime |-> mtime]
            new == Fresh(f)
            ents == [n \in DOMAIN f[d].ents \union {name} |-> IF n = name THEN new ELSE f[d].ents[n]]
            dir == [f[d] EXCEPT !.ents = ents]
            h == [i \in DOMAIN f \union {new} |->
                    IF i = new THEN inode ELSE IF i = d THEN dir ELSE f[i]]
<1>1. Added(f, [dir |-> d, name |-> name], inode) = h
  BY DEF Added
<1>2. f \in Seq(Range(f)) /\ Len(f) \in Nat /\ DOMAIN f = 1 .. Len(f)
  <2>1. f \in Seq(Range(f))
    BY DEF Tree
  <2>. QED
    BY <2>1, LenProperties
<1>3. new = Len(f) + 1
  <2>1. \A n \in Nat : Cardinality(1 .. n) = n
    <3>1. ASSUME NEW n \in Nat PROVE Cardinality(1 .. n) = IF 1 <= n THEN n - 1 + 1 ELSE 0
      BY FS_Interval
    <3>. QED
      BY <3>1
  <2>. QED
    BY <1>2, <2>1 DEF Fresh
<1>. HIDE DEF new
<1>4. new \notin DOMAIN f /\ DOMAIN f \union {new} = 1 .. Len(f) + 1
  BY <1>2, <1>3
<1>5. f[d].ents \in [DOMAIN f[d].ents -> DOMAIN f] /\ DOMAIN f[d].ents \subseteq Name \ Special
  BY InodeIs
<1>6. /\ DOMAIN ents = DOMAIN f[d].ents \union {name} /\ ents[name] = new
      /\ \A n \in DOMAIN f[d].ents : ents[n] = f[d].ents[n]
      /\ ents \in [DOMAIN ents -> DOMAIN f \union {new}]
  <2>1. /\ DOMAIN ents = DOMAIN f[d].ents \union {name} /\ ents[name] = new
        /\ \A n \in DOMAIN f[d].ents : ents[n] = f[d].ents[n]
    OBVIOUS
  <2>2. ents = [n \in DOMAIN ents |-> ents[n]]
    OBVIOUS
  <2>. HIDE DEF ents
  <2>3. \A n \in DOMAIN ents : ents[n] \in DOMAIN f \union {new}
    BY <1>5, <2>1
  <2>. QED
    BY <2>1, <2>2, <2>3
<1>. HIDE DEF ents
<1>7. /\ dir = [type |-> f[d].type, mode |-> f[d].mode, data |-> f[d].data, ents |-> ents,
                to |-> f[d].to, atime |-> f[d].atime, mtime |-> f[d].mtime]
      /\ dir.type = f[d].type /\ dir.mode = f[d].mode /\ dir.data = f[d].data /\ dir.ents = ents
      /\ dir.to = f[d].to /\ dir.atime = f[d].atime /\ dir.mtime = f[d].mtime
  <2>1. f[d] = [type |-> f[d].type, mode |-> f[d].mode, data |-> f[d].data, ents |-> f[d].ents,
                to |-> f[d].to, atime |-> f[d].atime, mtime |-> f[d].mtime]
    BY InodeIs
  <2>2. dir = [type |-> f[d].type, mode |-> f[d].mode, data |-> f[d].data, ents |-> ents,
               to |-> f[d].to, atime |-> f[d].atime, mtime |-> f[d].mtime]
    BY <2>1
  <2>. HIDE DEF dir
  <2>. QED
    BY <2>2
<1>8. /\ inode.type = "reg" /\ inode.mode = mode /\ inode.data = <<>> /\ inode.to = <<>>
      /\ DOMAIN inode.ents = {} /\ inode.ents = [n \in {} |-> None]
  BY DEF NoEnts
<1>9. inode = [type |-> inode.type, mode |-> inode.mode, data |-> inode.data, ents |-> inode.ents,
               to |-> inode.to, atime |-> inode.atime, mtime |-> inode.mtime]
  OBVIOUS
<1>. HIDE DEF dir, inode
<1>10. /\ DOMAIN h = DOMAIN f \union {new} /\ h[new] = inode /\ h[d] = dir
       /\ \A i \in DOMAIN f \ {d} : h[i] = f[i]
       /\ h = [i \in DOMAIN h |-> h[i]]
  BY <1>4
<1>. HIDE DEF h
<1>11. Grown(h, f)
  <2>1. ASSUME NEW i \in DOMAIN f
        PROVE  /\ h[i].type = f[i].type /\ h[i].mode = f[i].mode /\ h[i].data = f[i].data
               /\ h[i].to = f[i].to
               /\ DOMAIN f[i].ents \subseteq DOMAIN h[i].ents
               /\ DOMAIN h[i].ents = DOMAIN f[i].ents \/ f[i].type = "dir"
               /\ \A n \in DOMAIN f[i].ents : h[i].ents[n] = f[i].ents[n]
               /\ \A n \in DOMAIN h[i].ents \ DOMAIN f[i].ents : h[i].ents[n] \notin DOMAIN f
    <3>1. CASE i = d
      BY <1>4, <1>6, <1>7, <1>10, <3>1
    <3>2. CASE i # d
      BY <1>10, <3>2
    <3>. QED
      BY <3>1, <3>2
  <2>2. ASSUME NEW i \in DOMAIN h \ DOMAIN f
        PROVE  h[i].type = "reg" /\ h[i].to = <<>> /\ DOMAIN h[i].ents = {}
    BY <1>8, <1>10
  <2>. QED
    BY <1>10, <2>1, <2>2 DEF Grown
<1>12. \A i \in DOMAIN f : h[i].atime = f[i].atime /\ h[i].mtime = f[i].mtime
  BY <1>7, <1>10
<1>13. Child(h, d, name) \in DOMAIN h \ DOMAIN f
  BY <1>4, <1>6, <1>7, <1>10 DEF Child, Special
<1>14. h \in Seq(Range(h))
  <2>1. \A i \in 1 .. Len(f) + 1 : h[i] \in Range(h)
    BY <1>4, <1>10 DEF Range
  <2>2. DOMAIN h = 1 .. Len(f) + 1 /\ Len(f) + 1 \in Nat
    BY <1>2, <1>4, <1>10
  <2>. QED
    BY <1>10, <2>1, <2>2
<1>15. ASSUME NEW i \in DOMAIN h
       PROVE  /\ h[i] = [type |-> h[i].type, mode |-> h[i].mode, data |-> h[i].data, ents |-> h[i].ents,
                         to |-> h[i].to, atime |-> h[i].atime, mtime |-> h[i].mtime]
              /\ h[i].ents \in [DOMAIN h[i].ents -> DOMAIN h] /\ DOMAIN h[i].ents \subseteq Name \ Special
              /\ h[i].to \in Seq(Name) /\ (h[i].type = "lnk" => h[i].to # <<>>)
              /\ h[i].data \in Seq(Range(h[i].data))
  <2>1. CASE i = new
    <3>1. <<>> \in Seq(Name) /\ <<>> \in Seq(Range(<<>>))
      BY EmptySeq
    <3>2. inode.ents \in [DOMAIN inode.ents -> DOMAIN h]
      BY <1>8
    <3>. QED
      BY <1>8, <1>9, <1>10, <2>1, <3>1, <3>2
  <2>2. CASE i = d
    <3>1. /\ f[d].to \in Seq(Name) /\ (f[d].type = "lnk" => f[d].to # <<>>)
          /\ f[d].data \in Seq(Range(f[d].data))
      BY InodeIs
    <3>2. dir = [type |-> dir.type, mode |-> dir.mode, data |-> dir.data, ents |-> dir.ents,
                 to |-> dir.to, atime |-> dir.atime, mtime |-> dir.mtime]
      BY <1>7
    <3>3. dir.ents \in [DOMAIN dir.ents -> DOMAIN h] /\ DOMAIN dir.ents \subseteq Name \ Special
      BY <1>5, <1>6, <1>7, <1>10
    <3>. QED
      BY <1>7, <1>10, <2>2, <3>1, <3>2, <3>3
  <2>3. CASE i # new /\ i # d
    <3>1. i \in DOMAIN f /\ h[i] = f[i]
      BY <1>10, <2>3
    <3>2. /\ f[i] = [type |-> f[i].type, mode |-> f[i].mode, data |-> f[i].data, ents |-> f[i].ents,
                     to |-> f[i].to, atime |-> f[i].atime, mtime |-> f[i].mtime]
          /\ f[i].ents \in [DOMAIN f[i].ents -> DOMAIN f] /\ DOMAIN f[i].ents \subseteq Name \ Special
          /\ f[i].to \in Seq(Name) /\ (f[i].type = "lnk" => f[i].to # <<>>)
          /\ f[i].data \in Seq(Range(f[i].data))
      BY <3>1, InodeIs
    <3>3. f[i].ents \in [DOMAIN f[i].ents -> DOMAIN h]
      BY <1>10, <3>2
    <3>. QED
      BY <3>1, <3>2, <3>3
  <2>. QED
    BY <2>1, <2>2, <2>3
<1>16. ASSUME NEW e \in DOMAIN h, NEW i, i \in Range(h[e].ents)
       PROVE  i = new \/ (e \in DOMAIN f /\ i \in Range(f[e].ents) /\ i \in DOMAIN f)
  <2>1. CASE e = new
    BY <1>8, <1>10, <1>16, <2>1 DEF Range
  <2>2. CASE e = d
    BY <1>5, <1>6, <1>7, <1>10, <1>16, <2>2 DEF Range
  <2>3. CASE e # new /\ e # d
    <3>1. e \in DOMAIN f /\ h[e] = f[e]
      BY <1>10, <2>3
    <3>2. f[e].ents \in [DOMAIN f[e].ents -> DOMAIN f]
      BY <3>1, InodeIs
    <3>. QED
      BY <1>16, <3>1, <3>2 DEF Range
  <2>. QED
    BY <2>1, <2>2, <2>3
<1>17. ASSUME NEW a \in DOMAIN h, NEW e \in DOMAIN h,
              NEW i, i \in Range(h[a].ents) \intersect Range(h[e].ents), h[i].type = "dir"
       PROVE  a = e
  <2>1. i # new
    BY <1>8, <1>10, <1>17
  <2>2. /\ a \in DOMAIN f /\ e \in DOMAIN f /\ i \in DOMAIN f
        /\ i \in Range(f[a].ents) \intersect Range(f[e].ents)
    BY <1>16, <1>17, <2>1
  <2>3. f[i].type = "dir"
    BY <1>11, <1>17, <2>2 DEF Grown
  <2>. QED
    BY <2>2, <2>3 DEF Tree
<1>18. ASSUME NEW e \in DOMAIN h PROVE Root \notin Range(h[e].ents)
  <2>1. Root # new
    BY <1>4, TreeIs
  <2>. QED
    BY <1>16, <2>1 DEF Tree
<1>19. Root \in DOMAIN h /\ Cwd \in DOMAIN h /\ h[Root].type = "dir"
  <2>1. Root \in DOMAIN f /\ Cwd \in DOMAIN f /\ f[Root].type = "dir"
    BY TreeIs DEF Tree
  <2>. QED
    BY <1>10, <1>11, <2>1 DEF Grown
<1>20. Tree(h)
  BY <1>14, <1>15, <1>17, <1>18, <1>19 DEF Tree
<1>. QED
  BY <1>1, <1>11, <1>12, <1>13, <1>20 DEF inode

\* What touch makes where it could make it is there.
LEMMA MadeThere ==
  ASSUME NEW f, Tree(f), NEW path \in Paths, CanMake(f, path, TRUE),
         NEW mode, NEW atime, NEW mtime
  PROVE  LET inode == [type |-> "reg", mode |-> mode, data |-> <<>>, ents |-> NoEnts, to |-> <<>>,
                       atime |-> atime, mtime |-> mtime]
             h == Make(f, path, TRUE, inode)
         IN  /\ Tree(h) /\ Grown(h, f) /\ Stat(h, path) \in DOMAIN h \ DOMAIN f
             /\ \A i \in DOMAIN f : h[i].atime = f[i].atime /\ h[i].mtime = f[i].mtime
<1>. DEFINE inode == [type |-> "reg", mode |-> mode, data |-> <<>>, ents |-> NoEnts, to |-> <<>>,
                      atime |-> atime, mtime |-> mtime]
            h == Make(f, path, TRUE, inode)
            walk == Lookup(f, path, TRUE)
            d == walk.at
            name == Head(walk.rest)
<1>1. /\ walk # None /\ Place(f, path, TRUE) = [dir |-> d, name |-> name]
      /\ Found(f, path, TRUE) = Child(f, d, name)
  BY PlaceIs DEF CanMake
<1>2. d \in DOMAIN f /\ f[d].type = "dir" /\ walk.rest \in Paths
  BY <1>1, Ends DEF Searchable
<1>3. name \in Name \ Special
  <2>1. name \in Name
    BY <1>2, PathIs
  <2>. HIDE DEF d, name
  <2>2. Place(f, path, TRUE).name = name
    <3>. DEFINE place == Place(f, path, TRUE)
    <3>1. place = [dir |-> d, name |-> name]
      BY <1>1
    <3>. HIDE DEF place
    <3>2. place.name = name
      BY <3>1
    <3>. QED
      BY <3>2 DEF place
  <2>. QED
    BY <2>1, <2>2 DEF CanMake
<1>4. name \notin DOMAIN f[d].ents
  <2>1. Child(f, d, name) = None
    BY <1>1 DEF CanMake
  <2>. HIDE DEF d, name
  <2>2. name \in DOMAIN f[d].ents => f[d].ents[name] \in DOMAIN f /\ None \notin DOMAIN f
    <3>1. f[d].ents \in [DOMAIN f[d].ents -> DOMAIN f] /\ None \notin DOMAIN f
      BY <1>2, InodeIs, TreeIs
    <3>. QED
      BY <3>1
  <2>. QED
    BY <1>3, <2>1, <2>2 DEF Child, Special
<1>. HIDE DEF d, name, walk
<1>5. h = Added(f, [dir |-> d, name |-> name], inode)
  BY <1>1 DEF Make
<1>6. /\ Tree(h) /\ Grown(h, f) /\ Child(h, d, name) \in DOMAIN h \ DOMAIN f
      /\ \A i \in DOMAIN f : h[i].atime = f[i].atime /\ h[i].mtime = f[i].mtime
  <2>. DEFINE k == Added(f, [dir |-> d, name |-> name], inode)
  <2>1. /\ Tree(k) /\ Grown(k, f) /\ Child(k, d, name) \in DOMAIN k \ DOMAIN f
        /\ \A i \in DOMAIN f : k[i].atime = f[i].atime /\ k[i].mtime = f[i].mtime
    BY <1>2, <1>3, <1>4, AddedGrows
  <2>. QED
    BY <1>5, <2>1
<1>. HIDE DEF h
<1>7. Lookup(h, path, TRUE) = walk
  <2>1. \A follow : Lookup(f, path, follow) # None =>
          Lookup(h, path, follow) = Lookup(f, path, follow)
    BY <1>6, LookupGrown
  <2>. QED
    BY <1>1, <2>1 DEF walk
<1>8. Stat(h, path) = Child(h, d, name)
  BY <1>1, <1>6, <1>7, PlaceIs DEF Stat, d, name
<1>9. Stat(h, path) \in DOMAIN h \ DOMAIN f
  BY <1>6, <1>8
<1>. QED
  BY <1>6, <1>9 DEF h, inode

-----------------------------------------------------------------------------
(***************************************************************************)
(* Commands and processes.                                                 *)
(***************************************************************************)
Process(me) ==
  me = [cmd |-> me.cmd, pc |-> me.pc, ops |-> me.ops, status |-> me.status,
        cut |-> me.cut, stack |-> me.stack, v |-> me.v]
\* A step of a process: of the same command.
Proceeds(me, new) == Process(new) /\ new.cmd = me.cmd

Processes == \A p \in Proc : Process(proc[p])
Running(s) == DOMAIN proc = Proc /\ \A p \in Proc : Process(proc[p]) /\ proc[p].cmd = s[p]

LEMMA Keeps ==
  ASSUME NEW me, Process(me)
  PROVE  /\ Proceeds(me, me)
         /\ \A new : Proceeds(me, new) =>
              /\ Proceeds(me, Failed(new))
              /\ \A x : /\ Proceeds(me, Goto(new, x)) /\ Proceeds(me, Locals(new, x))
                        /\ Proceeds(me, [new EXCEPT !.ops = x])
                        /\ Proceeds(me, [new EXCEPT !.cut = x])
                        /\ Proceeds(me, [new EXCEPT !.stack = x])
                        /\ Proceeds(me, [new EXCEPT !.v = x])
<1>1. Proceeds(me, me)
  BY DEF Proceeds
<1>2. ASSUME NEW new, Proceeds(me, new), NEW x
      PROVE  /\ Proceeds(me, Failed(new)) /\ Proceeds(me, Goto(new, x)) /\ Proceeds(me, Locals(new, x))
             /\ Proceeds(me, [new EXCEPT !.ops = x]) /\ Proceeds(me, [new EXCEPT !.cut = x])
             /\ Proceeds(me, [new EXCEPT !.stack = x]) /\ Proceeds(me, [new EXCEPT !.v = x])
  <2>. PICK cmd, pc, ops, status, cut, stack, v :
         new = [cmd |-> cmd, pc |-> pc, ops |-> ops, status |-> status, cut |-> cut,
                stack |-> stack, v |-> v]
    BY <1>2 DEF Process, Proceeds
  <2>1. new.cmd = me.cmd
    BY <1>2 DEF Proceeds
  <2>2. /\ Proceeds(me, [new EXCEPT !.pc = x]) /\ Proceeds(me, [new EXCEPT !.ops = x])
        /\ Proceeds(me, [new EXCEPT !.cut = x])
    BY <2>1 DEF Proceeds, Process
  <2>3. Proceeds(me, [new EXCEPT !.status = 1])
    BY <2>1 DEF Proceeds, Process
  <2>4. Proceeds(me, [new EXCEPT !.stack = x]) /\ Proceeds(me, [new EXCEPT !.v = x])
    BY <2>1 DEF Proceeds, Process
  <2>. QED
    BY <2>2, <2>3, <2>4 DEF Goto, Failed, Locals
<1>. QED
  BY <1>1, <1>2

\* What a step does to the processes: p goes on with its command.
Acts(p, prog) ==
  /\ proc[p].cmd.prog = prog
  /\ \E new : Proceeds(proc[p], new) /\ Becomes(p, new)

LEMMA RmActs ==
  ASSUME NEW p \in Proc, Process(proc[p]), RmStep(p)
  PROVE  Acts(p, "rm")
<1>. USE Keeps DEF At, Acts, Goto, RmReturn, Unremoved, RmTreeDone
<1>1. CASE RmMain(p)
  BY <1>1 DEF RmMain, Operand, Taken
<1>2. CASE RmEnter(p) \/ RmLstat(p) \/ RmAccess(p)
  BY <1>2 DEF RmEnter, RmLstat, RmAccess
<1>3. CASE Confirm(p)
  BY <1>3 DEF Confirm
<1>4. CASE RmOpendir(p)
  BY <1>4 DEF RmOpendir
<1>5. CASE RmRead(p)
  BY <1>5 DEF RmRead
<1>6. CASE RmUnlink(p)
  BY <1>6 DEF RmUnlink
<1>7. CASE RmRmdir(p)
  BY <1>7 DEF RmRmdir
<1>. QED
  BY <1>1, <1>2, <1>3, <1>4, <1>5, <1>6, <1>7 DEF RmStep

LEMMA CpActs ==
  ASSUME NEW p \in Proc, Process(proc[p]), CpStep(p)
  PROVE  Acts(p, "cp")
<1>. USE Keeps DEF At, Acts, CpReturn, CpFailed, Preserves
<1>0. \A new, call : Proceeds(proc[p], new) => Proceeds(proc[p], Calls(new, call))
  BY DEF Calls
<1>1. CASE CpTarget(p)
  BY <1>1 DEF CpTarget
<1>2. CASE CpMain(p)
  BY <1>2 DEF CpMain, Operand, Taken
<1>3. CASE CopySource(p)
  BY <1>0, <1>3 DEF CopySource
<1>4. CASE CopySourceDest(p)
  BY <1>0, <1>4 DEF CopySourceDest
<1>5. CASE CopyRegular(p)
  BY <1>0, <1>5 DEF CopyRegular
<1>6. CASE OpenDest(p)
  BY <1>0, <1>6 DEF OpenDest, OpenCreat
<1>7. CASE ReopenDest(p)
  BY <1>0, <1>7 DEF ReopenDest, OpenCreat
<1>8. CASE CopyBlock(p)
  BY <1>0, <1>8 DEF CopyBlock
<1>9. CASE PreserveTimes(p) \/ PreserveMode(p)
  BY <1>9 DEF PreserveTimes, PreserveMode
<1>10. CASE UnlinkDest(p)
  BY <1>0, <1>10 DEF UnlinkDest
<1>11. CASE MakeNode(p)
  BY <1>11 DEF MakeNode
<1>12. CASE CopyDir(p)
  BY <1>0, <1>12 DEF CopyDir
<1>13. CASE CpOpendir(p)
  BY <1>13 DEF CpOpendir
<1>14. CASE CpReaddir(p)
  BY <1>0, <1>14 DEF CpReaddir
<1>15. CASE CpChmod(p)
  BY <1>15 DEF CpChmod
<1>. QED
  BY <1>1, <1>2, <1>3, <1>4, <1>5, <1>6, <1>7, <1>8, <1>9, <1>10, <1>11, <1>12, <1>13, <1>14,
     <1>15 DEF CpStep

LEMMA MkdirActs ==
  ASSUME NEW p \in Proc, Process(proc[p]), MkdirStep(p)
  PROVE  Acts(p, "mkdir")
<1>. USE Keeps DEF At, Acts, MadeOne, NotMade
<1>1. CASE MkdirArgs(p)
  BY <1>1 DEF MkdirArgs
<1>2. CASE MkdirMain(p)
  BY <1>2 DEF MkdirMain, Operand, Taken
<1>3. CASE MkdirNext(p)
  BY <1>3 DEF MkdirNext
<1>4. CASE MkOne(p)
  BY <1>4 DEF MkOne
<1>5. CASE MkOneExists(p)
  BY <1>5 DEF MkOneExists
<1>6. CASE MkOneStat(p)
  BY <1>6 DEF MkOneStat
<1>7. CASE MkOneChmod(p)
  BY <1>7 DEF MkOneChmod
<1>. QED
  BY <1>1, <1>2, <1>3, <1>4, <1>5, <1>6, <1>7 DEF MkdirStep

LEMMA TouchActs ==
  ASSUME NEW p \in Proc, Process(proc[p]), TouchStep(p)
  PROVE  Acts(p, "touch")
<1>. USE Keeps DEF At, Acts
<1>1. CASE TouchSource(p)
  BY <1>1 DEF TouchSource
<1>2. CASE TouchMain(p)
  BY <1>2 DEF TouchMain, Operand, Taken
<1>3. CASE TouchStat(p)
  BY <1>3 DEF TouchStat
<1>4. CASE TouchCreate(p)
  BY <1>4 DEF TouchCreate
<1>5. CASE TouchFutimens(p) \/ TouchSet(p)
  BY <1>5 DEF TouchFutimens, TouchSet, TouchTimes
<1>. QED
  BY <1>1, <1>2, <1>3, <1>4, <1>5 DEF TouchStep

LEMMA CatActs ==
  ASSUME NEW p \in Proc, Process(proc[p]), CatStep(p)
  PROVE  Acts(p, "cat")
<1>. USE Keeps DEF At, Acts
<1>1. CASE CatStart(p)
  BY <1>1 DEF CatStart
<1>2. CASE CatMain(p)
  BY <1>2 DEF CatMain, Operand, Taken
<1>3. CASE CatOpen(p)
  BY <1>3 DEF CatOpen
<1>4. CASE CatCopy(p)
  BY <1>4 DEF CatCopy, CatRead, CatStatus
<1>. QED
  BY <1>1, <1>2, <1>3, <1>4 DEF CatStep

LEMMA NameActs ==
  ASSUME NEW p \in Proc, Process(proc[p]), NameStep(p)
  PROVE  Acts(p, "basename") \/ Acts(p, "dirname")
BY Keeps DEF At, Acts, NameStep

\* The processes run the commands of one session, and the history variable stays.
Shape ==
  /\ \E s \in Sessions : Running(s)
  /\ before \in Trees
  /\ DOMAIN out = Proc

LEMMA InitShape == Init => Shape
<1>1. SUFFICES ASSUME Init PROVE Shape
  OBVIOUS
<1>2. PICK s \in Sessions : proc = [p \in Proc |-> Start(s[p])]
  BY <1>1 DEF Init
<1>3. \A p \in Proc : Process(proc[p]) /\ proc[p].cmd = s[p]
  BY <1>2 DEF Start, Process
<1>4. Running(s)
  BY <1>2, <1>3 DEF Running
<1>. QED
  BY <1>1, <1>4 DEF Init, Shape

\* A step is of one process, and that process is not idle.
OfProcess(p) ==
  /\ proc[p].cmd.prog # "idle"
  /\ proc[p].cmd.prog = "cat" => CatStep(p)
  /\ proc[p].cmd.prog = "rm" => RmStep(p)
  /\ proc[p].cmd.prog = "touch" => TouchStep(p)
  /\ proc'[p].cmd = proc[p].cmd
  /\ \A q \in Proc \ {p} : proc'[q] = proc[q]
  /\ DOMAIN proc' = Proc /\ before' = before

LEMMA StepShape ==
  ASSUME Shape, NEW p \in Proc, Step(p)
  PROVE  OfProcess(p) /\ Shape'
<1>1. PICK s \in Sessions : Running(s)
  BY DEF Shape
<1>2. DOMAIN proc = Proc /\ \A q \in Proc : Process(proc[q]) /\ proc[q].cmd = s[q]
  BY <1>1 DEF Running
<1>3. \E prog \in {"rm", "cp", "mkdir", "touch", "cat", "basename", "dirname"} :
        /\ Acts(p, prog)
        /\ prog = "cat" => CatStep(p)
        /\ prog = "rm" => RmStep(p)
        /\ prog = "touch" => TouchStep(p)
  BY <1>2, RmActs, CpActs, MkdirActs, TouchActs, CatActs, NameActs DEF Step
<1>4. /\ proc[p].cmd.prog # "idle"
      /\ proc[p].cmd.prog = "cat" => CatStep(p)
      /\ proc[p].cmd.prog = "rm" => RmStep(p)
      /\ proc[p].cmd.prog = "touch" => TouchStep(p)
      /\ \E new : Proceeds(proc[p], new) /\ Becomes(p, new)
  BY <1>3 DEF Acts
<1>5. PICK new : Proceeds(proc[p], new) /\ proc' = [proc EXCEPT ![p] = new]
  BY <1>4 DEF Becomes
<1>6. /\ DOMAIN proc' = Proc /\ proc'[p] = new /\ Process(new) /\ new.cmd = proc[p].cmd
      /\ \A q \in Proc \ {p} : proc'[q] = proc[q]
  BY <1>2, <1>5 DEF Proceeds
<1>7. Running(s)'
  BY <1>2, <1>6 DEF Running
<1>8. before' = before /\ DOMAIN out' = DOMAIN out
  <2>. USE DEF NoOutput, Silently, Operand
  <2>1. RmStep(p) => before' = before /\ DOMAIN out' = DOMAIN out
    BY DEF RmStep, RmMain, RmEnter, RmLstat, RmAccess, Confirm, RmOpendir, RmRead, RmUnlink, RmRmdir
  <2>2. CpStep(p) => before' = before /\ DOMAIN out' = DOMAIN out
    BY DEF CpStep, CpTarget, CpMain, CopySource, CopySourceDest, CopyRegular, OpenDest,
           ReopenDest, CopyBlock, PreserveTimes, PreserveMode, UnlinkDest, MakeNode, CopyDir, CpOpendir,
           CpReaddir, CpChmod
  <2>3. MkdirStep(p) => before' = before /\ DOMAIN out' = DOMAIN out
    BY DEF MkdirStep, MkdirArgs, MkdirMain, MkdirNext, MkOne, MkOneExists, MkOneStat, MkOneChmod
  <2>4. TouchStep(p) => before' = before /\ DOMAIN out' = DOMAIN out
    BY DEF TouchStep, TouchSource, TouchMain, TouchStat, TouchCreate, TouchFutimens, TouchTimes,
           TouchSet
  <2>5. CatStep(p) => before' = before /\ DOMAIN out' = DOMAIN out
    BY DEF CatStep, CatStart, CatMain, CatOpen, CatCopy
  <2>6. NameStep(p) => before' = before /\ DOMAIN out' = DOMAIN out
    BY DEF NameStep
  <2>. QED
    BY <2>1, <2>2, <2>3, <2>4, <2>5, <2>6 DEF Step
<1>. QED
  BY <1>4, <1>6, <1>7, <1>8 DEF Shape, OfProcess

-----------------------------------------------------------------------------
(***************************************************************************)
(* cat, when nothing else runs.                                            *)
(***************************************************************************)
\* What the input holds for the k-th of ops, if that is "-".
Unread(ops, k) == IF \E j \in 1 .. k - 1 : ops[j] = <<"-">> THEN <<>> ELSE Stdin
Written(ops, n) == FlattenSeq([k \in 1 .. n |-> Contents(ops, k)])
Readable(ops, n) == \A k \in 1 .. n : ops[k] # <<"-">> => Stat(before, ops[k]) # None

\* The first n inputs were taken.  As long as no error was met, all of them are in the
\* output but for the one that is about to be opened and what is left of the one that is
\* being copied, and the standard input holds what the next "-" is to read.
CatAt(p, n) ==
  LET me == proc[p]
      ops == Inputs(me)
  IN  /\ n + Len(me.ops) = Len(ops)
      /\ \A k \in 1 .. Len(me.ops) : me.ops[k] = ops[n + k]
      /\ me.pc \in {"main", "open", "copy", "exited"}
      /\ me.pc = "exited" => me.ops = <<>>
      /\ me.v \in [input : Seq(Blocks), path : Seq(Name), data : Seq(Blocks)]
      /\ me.pc \in {"open", "copy"} => n # 0 /\ me.v.path = ops[n]
      /\ me.status = 0 =>
           /\ me.pc # "open" => Readable(ops, n)
           /\ me.pc \in {"main", "exited"} =>
                out[p] = Written(ops, n) /\ me.v.input = Unread(ops, n + 1)
           /\ me.pc = "open" =>
                Readable(ops, n - 1) /\ out[p] = Written(ops, n - 1) /\ me.v.input = Unread(ops, n)
           /\ me.pc = "copy" =>
                /\ out[p] \o me.v.data = Written(ops, n)
                /\ me.v.input = IF ops[n] = <<"-">> THEN me.v.data ELSE Unread(ops, n + 1)

\* Nothing was done yet.
CatNew(p) ==
  LET me == proc[p]
  IN  /\ me.v = None /\ me.pc = "main" /\ me.ops = me.cmd.operands
      /\ me.status = 0 /\ out[p] = <<>>

CatRuns(p) ==
  /\ fs = before
  /\ Inputs(proc[p]) \in Seq(Paths) /\ proc[p].ops \in Seq(Paths)
  /\ out[p] \in Seq(Blocks)
  /\ CatNew(p) \/ \E n \in 0 .. Len(Inputs(proc[p])) : CatAt(p, n)

CatInv ==
  /\ Shape
  /\ \A p \in Proc : proc[p].cmd.prog = "cat" /\ Alone(p) => CatRuns(p)

LEMMA SameReading ==
  ASSUME before' = before
  PROVE  \A ops, n : Readable(ops, n)' = Readable(ops, n) /\ Written(ops, n)' = Written(ops, n)
<1>1. ASSUME NEW ops, NEW n
      PROVE  Readable(ops, n)' = Readable(ops, n) /\ Written(ops, n)' = Written(ops, n)
  BY DEF Readable, Written, Contents
<1>. QED
  BY <1>1

LEMMA SameUnread == \A ops, k : Unread(ops, k)' = Unread(ops, k)
BY DEF Unread

LEMMA UnreadIs == \A ops, k : Unread(ops, k) \in Seq(Blocks)
<1>1. Stdin \in Seq(Range(Stdin)) /\ Range(Stdin) \subseteq Blocks
  BY FilesAssumption DEF Blocks
<1>2. Stdin \in Seq(Blocks)
  BY <1>1, SeqMonotonic
<1>3. <<>> \in Seq(Blocks)
  BY EmptySeq
<1>. QED
  BY <1>2, <1>3 DEF Unread

\* What is left of the standard input behind the n-th input.
LEMMA UnreadNext ==
  ASSUME NEW ops, NEW n \in Nat \ {0}
  PROVE  Unread(ops, n + 1) = IF ops[n] = <<"-">> THEN <<>> ELSE Unread(ops, n)
<1>1. (n + 1) - 1 = n /\ 1 .. n = (1 .. n - 1) \union {n}
  OBVIOUS
<1>2. (\E j \in 1 .. n : ops[j] = <<"-">>) <=> (\E j \in 1 .. n - 1 : ops[j] = <<"-">>) \/ ops[n] = <<"-">>
  BY <1>1
<1>3. Unread(ops, n + 1) = IF \E j \in 1 .. n : ops[j] = <<"-">> THEN <<>> ELSE Stdin
  BY <1>1 DEF Unread
<1>. QED
  BY <1>2, <1>3 DEF Unread

LEMMA ContentsAre ==
  ASSUME before \in Trees, NEW ops, NEW k, ops[k] \in Paths,
         ops[k] # <<"-">> => Stat(before, ops[k]) # None
  PROVE  Contents(ops, k) \in Seq(Blocks)
<1>1. Tree(before)
  BY FilesAssumption
<1>2. Unread(ops, k) \in Seq(Blocks)
  BY UnreadIs
<1>3. ASSUME NEW i \in DOMAIN before PROVE before[i].data \in Seq(Blocks)
  <2>1. before[i].data \in Seq(Range(before[i].data)) /\ Range(before[i].data) \subseteq Blocks
    BY <1>1, InodeIs DEF Blocks
  <2>. QED
    BY <2>1, SeqMonotonic
<1>4. ops[k] # <<"-">> => Stat(before, ops[k]) \in DOMAIN before
  BY <1>1, StatIs
<1>. QED
  BY <1>2, <1>3, <1>4 DEF Contents, Unread

\* One file more.
LEMMA WrittenAppend ==
  ASSUME before \in Trees, NEW ops \in Seq(Paths), NEW n \in 1 .. Len(ops), Readable(ops, n)
  PROVE  Written(ops, n) = Written(ops, n - 1) \o Contents(ops, n)
<1>. DEFINE S == Seq(Blocks)
            ss == [k \in 1 .. n - 1 |-> Contents(ops, k)]
            tt == [k \in 1 .. n |-> Contents(ops, k)]
<1>1. Len(ops) \in Nat /\ \A k \in 1 .. Len(ops) : ops[k] \in Paths
  BY ElementOfSeq, LenProperties
<1>2. ASSUME NEW k \in 1 .. n PROVE Contents(ops, k) \in S
  <2>1. ops[k] \in Paths /\ (ops[k] # <<"-">> => Stat(before, ops[k]) # None)
    BY <1>1 DEF Readable
  <2>. QED
    BY <2>1, ContentsAre
<1>. HIDE DEF S
<1>3. n \in 1 .. n /\ n - 1 \in Nat /\ n \in Nat /\ 1 .. n - 1 \subseteq 1 .. n
  BY <1>1
<1>4. ss \in Seq(S) /\ tt \in Seq(S) /\ Len(ss) = n - 1 /\ Len(tt) = n
  BY <1>2, <1>3
<1>5. Append(ss, Contents(ops, n)) = tt
  <2>1. Contents(ops, n) \in S
    BY <1>2, <1>3
  <2>. DEFINE uu == Append(ss, Contents(ops, n))
  <2>2. /\ uu \in Seq(S) /\ Len(uu) = n /\ uu[n] = Contents(ops, n)
        /\ \A k \in 1 .. n - 1 : uu[k] = ss[k]
    <3>. HIDE DEF ss
    <3>. QED
      BY <2>1, <1>4, <1>3, AppendProperties
  <2>3. \A k \in 1 .. n : uu[k] = tt[k]
    <3>. HIDE DEF uu
    <3>. QED
      BY <2>2, <1>3
  <2>. HIDE DEF uu, tt
  <2>4. uu = tt
    BY <1>4, <2>2, <2>3, SeqEqual
  <2>. QED
    BY <2>4 DEF uu
<1>6. FlattenSeq(Append(ss, Contents(ops, n))) = FlattenSeq(ss) \o Contents(ops, n)
  <2>. HIDE DEF ss
  <2>1. Contents(ops, n) \in Seq(Blocks) /\ ss \in Seq(Seq(Blocks))
    BY <1>2, <1>3, <1>4 DEF S
  <2>. QED
    BY <2>1, FlattenAppend
<1>. QED
  BY <1>5, <1>6 DEF Written

LEMMA WrittenNothing ==
  ASSUME NEW ops
  PROVE  Written(ops, 0) = <<>> /\ Unread(ops, 0 + 1) = Stdin /\ Readable(ops, 0)
<1>1. [k \in 1 .. 0 |-> Contents(ops, k)] = <<>>
  OBVIOUS
<1>. QED
  BY <1>1 DEF Written, FlattenSeq, Unread, Readable

LEMMA InputsAre ==
  ASSUME NEW me, me.cmd.operands \in Seq(Paths)
  PROVE  Inputs(me) \in Seq(Paths)
<1>1. <<"-">> \in Seq(Name) /\ <<"-">> # <<>>
  BY FilesAssumption
<1>2. <<<<"-">>>> \in Seq(Paths)
  BY <1>1 DEF Paths
<1>. QED
  BY <1>2 DEF Inputs

LEMMA InitCat == Init => CatInv
<1>1. SUFFICES ASSUME Init, Shape, NEW p \in Proc PROVE CatRuns(p) \/ proc[p].cmd.prog # "cat"
  BY InitShape DEF CatInv
<1>2. PICK s \in Sessions : proc = [q \in Proc |-> Start(s[q])]
  BY <1>1 DEF Init
<1>. SUFFICES ASSUME proc[p].cmd.prog = "cat" PROVE CatRuns(p)
  OBVIOUS
<1>3. /\ proc[p].cmd = s[p] /\ proc[p].ops = s[p].operands /\ proc[p].status = 0
      /\ proc[p].pc = "main" /\ out[p] = <<>> /\ fs = before /\ proc[p].v = None
  BY <1>1, <1>2 DEF Init, Start
<1>4. s[p].operands \in Seq(Paths)
  BY FilesAssumption
<1>5. <<>> \in Seq(Blocks)
  BY EmptySeq
<1>6. Inputs(proc[p]) \in Seq(Paths)
  BY <1>3, <1>4, InputsAre
<1>. QED
  BY <1>3, <1>4, <1>5, <1>6 DEF CatRuns, CatNew

\* What a step of cat leaves.
LEMMA CatStarts ==
  ASSUME Shape, NEW p \in Proc, proc[p].cmd.prog = "cat", CatRuns(p), CatStart(p)
  PROVE  CatRuns(p)'
<1>. DEFINE me == proc[p]
            v == [input |-> Stdin, path |-> <<>>, data |-> <<>>]
            locals == [input : Seq(Blocks), path : Seq(Name), data : Seq(Blocks)]
<1>0. PICK cmd, pc, mine, status, cut, stack, old :
        me = [cmd |-> cmd, pc |-> pc, ops |-> mine, status |-> status, cut |-> cut,
              stack |-> stack, v |-> old]
  BY DEF Shape, Running, Process
<1>10. PICK ops : ops = Inputs(me)
  OBVIOUS
<1>1. CatNew(p)
  <2>1. me.v = None
    BY DEF CatStart
  <2>2. \A n : ~ CatAt(p, n)
    BY <2>1, FilesAssumption DEF CatAt
  <2>. QED
    BY <2>2 DEF CatRuns
<1>2. /\ fs = before /\ DOMAIN proc = Proc /\ ops \in Seq(Paths) /\ out[p] \in Seq(Blocks)
      /\ out' = out /\ fs' = before /\ before' = before
  BY <1>10 DEF CatRuns, CatStart, Silently, Shape, Running
<1>3. proc'[p] = [me EXCEPT !.ops = ops, !.v = v]
  BY <1>1, <1>2, <1>10 DEF CatStart, Becomes, Inputs, CatNew
<1>4. /\ proc'[p].cmd = me.cmd /\ proc'[p].ops = ops /\ proc'[p].pc = "main"
      /\ proc'[p].status = 0 /\ proc'[p].v = v
  <2>. HIDE DEF v
  <2>. QED
    BY <1>0, <1>1, <1>3 DEF CatNew
<1>5. v \in locals /\ v.input = Stdin
  <2>1. Stdin \in Seq(Blocks) /\ <<>> \in Seq(Name) /\ <<>> \in Seq(Blocks)
    BY UnreadIs, WrittenNothing, EmptySeq
  <2>. QED
    BY <2>1
<1>6. Inputs(proc[p])' = ops
  BY <1>4, <1>10 DEF Inputs
<1>7. Len(ops) \in Nat /\ 0 \in 0 .. Len(ops)
  BY <1>2, LenProperties
<1>8. /\ Readable(ops, 0)' /\ Written(ops, 0)' = <<>> /\ Unread(ops, 0 + 1)' = Stdin
  BY <1>2, WrittenNothing, SameReading, SameUnread
<1>. HIDE DEF v
<1>9. CatAt(p, 0)'
  <2>1. 0 + Len(ops) = Len(ops) /\ \A k \in 1 .. Len(ops) : ops[k] = ops[0 + k]
    BY <1>7
  <2>2. proc'[p].v \in locals /\ proc'[p].v.input = Stdin
    BY <1>4, <1>5
  <2>3. out'[p] = <<>>
    BY <1>1, <1>2 DEF CatNew
  <2>. QED
    BY <1>4, <1>6, <1>8, <2>1, <2>2, <2>3 DEF CatAt
<1>. QED
  BY <1>2, <1>4, <1>6, <1>7, <1>9 DEF CatRuns

LEMMA CatTakes ==
  ASSUME Shape, NEW p \in Proc, proc[p].cmd.prog = "cat", CatRuns(p), CatMain(p)
  PROVE  CatRuns(p)'
<1>. DEFINE me == proc[p]
            locals == [input : Seq(Blocks), path : Seq(Name), data : Seq(Blocks)]
            len == Len(me.ops)
            rest == Tail(me.ops)
<1>0. PICK cmd, pc, mine, status, cut, stack, v :
        me = [cmd |-> cmd, pc |-> pc, ops |-> mine, status |-> status, cut |-> cut,
              stack |-> stack, v |-> v]
  BY DEF Shape, Running, Process
<1>1. PICK ops : ops = Inputs(me)
  OBVIOUS
<1>2. PICK n \in 0 .. Len(ops) : CatAt(p, n)
  BY <1>1 DEF CatMain, CatRuns, CatNew
<1>3. /\ me.pc = "main" /\ Operand(p, "cat", Goto([Taken(p) EXCEPT !.v.path = Current(p)], "open"))
  BY DEF CatMain, Operand, At
<1>4. /\ fs = before /\ DOMAIN proc = Proc /\ ops \in Seq(Paths) /\ out[p] \in Seq(Blocks)
      /\ me.ops \in Seq(Paths) /\ out' = out /\ fs' = before /\ before' = before
  BY <1>1, <1>3 DEF CatRuns, Operand, Silently, Shape, Running
<1>5. /\ n + len = Len(ops) /\ \A k \in 1 .. len : me.ops[k] = ops[n + k]
      /\ me.v \in locals
      /\ me.status = 0 => Readable(ops, n) /\ out[p] = Written(ops, n) /\ me.v.input = Unread(ops, n + 1)
  BY <1>1, <1>2, <1>3 DEF CatAt
<1>6. Len(ops) \in Nat /\ len \in Nat /\ n \in Nat
  BY <1>4, LenProperties
<1>7. CASE me.ops = <<>>
  <2>1. proc'[p] = Goto(me, "exited")
    BY <1>3, <1>4, <1>7 DEF Operand, Becomes
  <2>2. /\ proc'[p].cmd = me.cmd /\ proc'[p].ops = me.ops /\ proc'[p].pc = "exited"
        /\ proc'[p].status = me.status /\ proc'[p].v = me.v
    BY <1>0, <2>1 DEF Goto
  <2>3. Inputs(proc[p])' = ops
    BY <1>1, <2>2 DEF Inputs
  <2>4. me.status = 0 => Readable(ops, n)' /\ out'[p] = Written(ops, n)' /\ me.v.input = Unread(ops, n + 1)'
    BY <1>4, <1>5, SameReading, SameUnread
  <2>5. CatAt(p, n)'
    BY <1>5, <1>7, <2>2, <2>3, <2>4 DEF CatAt
  <2>. QED
    BY <1>4, <2>2, <2>3, <2>5 DEF CatRuns
<1>8. CASE me.ops # <<>>
  <2>1. PICK local \in locals : local = me.v
    BY <1>5
  <2>2. local = [input |-> local.input, path |-> local.path, data |-> local.data]
    BY <2>1
  <2>3. proc'[p] = Goto([[me EXCEPT !.ops = rest] EXCEPT !.v.path = Head(me.ops)], "open")
    BY <1>3, <1>4, <1>8 DEF Operand, Becomes, Taken, Current
  <2>4. /\ proc'[p].cmd = me.cmd /\ proc'[p].ops = rest /\ proc'[p].pc = "open"
        /\ proc'[p].status = me.status /\ proc'[p].v = [me.v EXCEPT !.path = Head(me.ops)]
    <3>. HIDE DEF rest
    <3>. QED
      BY <1>0, <2>3 DEF Goto
  <2>5. /\ rest \in Seq(Paths) /\ Len(rest) = len - 1 /\ len # 0 /\ Head(me.ops) = me.ops[1]
        /\ Head(me.ops) \in Paths
        /\ \A k \in 1 .. Len(rest) : rest[k] = me.ops[k + 1]
    BY <1>4, <1>8, HeadTailProperties, EmptySeq
  <2>. DEFINE last == Len(rest)
  <2>6. /\ n + 1 \in 0 .. Len(ops) /\ (n + 1) + last = Len(ops) /\ (n + 1) - 1 = n /\ n + 1 # 0
        /\ 1 \in 1 .. len /\ last \in Nat
        /\ \A k \in 1 .. last : k + 1 \in 1 .. len /\ (n + 1) + k = n + (k + 1)
    <3>. DEFINE all == Len(ops)
    <3>1. last = len - 1 /\ len # 0 /\ n + len = all /\ all \in Nat /\ len \in Nat /\ n \in Nat
      BY <1>5, <1>6, <2>5
    <3>. HIDE DEF len, last, all
    <3>2. n + 1 \in 0 .. all /\ (n + 1) + last = all /\ (n + 1) - 1 = n /\ n + 1 # 0
      BY <3>1
    <3>3. 1 \in 1 .. len /\ last \in Nat
      BY <3>1
    <3>4. \A k \in 1 .. last : k + 1 \in 1 .. len /\ (n + 1) + k = n + (k + 1)
      BY <3>1
    <3>. QED
      BY <3>2, <3>3, <3>4 DEF all
  <2>7. Head(me.ops) = ops[n + 1] /\ \A k \in 1 .. last : rest[k] = ops[(n + 1) + k]
    <3>1. Head(me.ops) = ops[n + 1]
      BY <1>5, <2>5, <2>6
    <3>2. ASSUME NEW k \in 1 .. last PROVE rest[k] = ops[(n + 1) + k]
      <4>1. k + 1 \in 1 .. len /\ (n + 1) + k = n + (k + 1) /\ rest[k] = me.ops[k + 1]
        BY <2>5, <2>6
      <4>2. me.ops[k + 1] = ops[n + (k + 1)]
        BY <1>5, <4>1
      <4>. QED
        BY <4>1, <4>2
    <3>. QED
      BY <3>1, <3>2
  <2>8. proc'[p].v \in locals /\ proc'[p].v.path = ops[n + 1] /\ proc'[p].v.input = me.v.input
    <3>1. Head(me.ops) \in Seq(Name)
      BY <2>5 DEF Paths
    <3>2. proc'[p].v = [local EXCEPT !.path = ops[n + 1]]
      BY <2>1, <2>4, <2>7
    <3>3. ops[n + 1] \in Seq(Name)
      BY <2>7, <3>1
    <3>. QED
      BY <2>1, <2>2, <3>2, <3>3
  <2>9. Inputs(proc[p])' = ops
    BY <1>1, <2>4 DEF Inputs
  <2>10. me.status = 0 =>
           Readable(ops, (n + 1) - 1)' /\ out'[p] = Written(ops, (n + 1) - 1)' /\ me.v.input = Unread(ops, n + 1)'
    BY <1>4, <1>5, <2>6, SameReading, SameUnread
  <2>. HIDE DEF rest
  <2>11. CatAt(p, n + 1)'
    BY <2>4, <2>6, <2>7, <2>8, <2>9, <2>10 DEF CatAt
  <2>. QED
    BY <1>4, <2>4, <2>5, <2>6, <2>9, <2>11 DEF CatRuns
<1>. QED
  BY <1>7, <1>8

LEMMA CatOpens ==
  ASSUME Shape, NEW p \in Proc, proc[p].cmd.prog = "cat", CatRuns(p), CatOpen(p)
  PROVE  CatRuns(p)'
<1>. DEFINE me == proc[p]
            locals == [input : Seq(Blocks), path : Seq(Name), data : Seq(Blocks)]
<1>0. PICK cmd, pc, mine, status, cut, stack, v :
        me = [cmd |-> cmd, pc |-> pc, ops |-> mine, status |-> status, cut |-> cut,
              stack |-> stack, v |-> v]
  BY DEF Shape, Running, Process
<1>1. PICK ops : ops = Inputs(me)
  OBVIOUS
<1>2. me.pc = "open"
  BY DEF CatOpen, At
<1>3. PICK n \in 0 .. Len(ops) : CatAt(p, n)
  BY <1>1, <1>2 DEF CatRuns, CatNew
<1>4. /\ fs = before /\ DOMAIN proc = Proc /\ ops \in Seq(Paths) /\ out[p] \in Seq(Blocks)
      /\ me.ops \in Seq(Paths) /\ out' = out /\ fs' = before /\ before' = before /\ before \in Trees
  BY <1>1 DEF CatRuns, CatOpen, Silently, Shape, Running
<1>5. /\ n + Len(me.ops) = Len(ops) /\ \A k \in 1 .. Len(me.ops) : me.ops[k] = ops[n + k]
      /\ me.v \in locals /\ n # 0 /\ me.v.path = ops[n]
      /\ me.status = 0 =>
           Readable(ops, n - 1) /\ out[p] = Written(ops, n - 1) /\ me.v.input = Unread(ops, n)
  BY <1>1, <1>2, <1>3 DEF CatAt
<1>6. PICK op : op = ops[n]
  OBVIOUS
<1>7. Len(ops) \in Nat /\ n \in Nat \ {0} /\ n \in 1 .. Len(ops) /\ op \in Paths
  BY <1>4, <1>5, <1>6, LenProperties, ElementOfSeq
<1>8. PICK i : i = OpenRead(before, op)
  OBVIOUS
<1>9. proc'[p] = IF op = <<"-">> THEN Goto([me EXCEPT !.v.data = me.v.input], "copy")
                 ELSE IF i = None \/ IsDir(before, i) THEN Goto(Failed(me), "main")
                 ELSE Goto([me EXCEPT !.v.data = before[i].data], "copy")
  BY <1>4, <1>5, <1>6, <1>8 DEF CatOpen, Becomes
<1>10. PICK local \in locals : local = me.v
  BY <1>5
<1>11. local = [input |-> local.input, path |-> local.path, data |-> local.data]
  BY <1>10
<1>12. CASE op # <<"-">> /\ (i = None \/ IsDir(before, i))
  <2>1. /\ proc'[p].cmd = me.cmd /\ proc'[p].ops = me.ops /\ proc'[p].pc = "main"
        /\ proc'[p].status = 1 /\ proc'[p].v = me.v
    BY <1>0, <1>9, <1>12 DEF Goto, Failed
  <2>2. Inputs(proc[p])' = ops
    BY <1>1, <2>1 DEF Inputs
  <2>3. CatAt(p, n)'
    BY <1>5, <2>1, <2>2 DEF CatAt
  <2>. QED
    BY <1>4, <2>1, <2>2, <2>3 DEF CatRuns
<1>13. CASE op = <<"-">> \/ ~ (i = None \/ IsDir(before, i))
  <2>1. op # <<"-">> => i = Stat(before, op) /\ Stat(before, op) # None
    BY <1>8, <1>13 DEF OpenRead
  <2>2. PICK data : data = IF op = <<"-">> THEN me.v.input ELSE before[i].data
    OBVIOUS
  <2>3. /\ proc'[p].cmd = me.cmd /\ proc'[p].ops = me.ops /\ proc'[p].pc = "copy"
        /\ proc'[p].status = me.status /\ proc'[p].v = [me.v EXCEPT !.data = data]
    <3>1. proc'[p] = Goto([me EXCEPT !.v.data = data], "copy")
      BY <1>9, <1>13, <2>2
    <3>. QED
      BY <1>0, <3>1 DEF Goto
  <2>4. data \in Seq(Blocks)
    <3>1. op # <<"-">> => Contents(ops, n) = before[i].data /\ Contents(ops, n) \in Seq(Blocks)
      BY <1>4, <1>6, <1>7, <2>1, ContentsAre DEF Contents
    <3>2. local.input \in Seq(Blocks)
      BY <1>10
    <3>. QED
      BY <1>10, <2>2, <3>1, <3>2
  <2>5. /\ proc'[p].v \in locals /\ proc'[p].v.path = op /\ proc'[p].v.data = data
        /\ proc'[p].v.input = me.v.input
    <3>1. proc'[p].v = [local EXCEPT !.data = data] /\ local.path = op
      BY <1>5, <1>6, <1>10, <2>3
    <3>. QED
      BY <1>10, <1>11, <2>4, <3>1
  <2>6. Inputs(proc[p])' = ops
    BY <1>1, <2>3 DEF Inputs
  <2>7. me.status = 0 =>
          /\ Readable(ops, n) /\ out[p] \o data = Written(ops, n)
          /\ me.v.input = IF op = <<"-">> THEN data ELSE Unread(ops, n + 1)
    <3>1. SUFFICES ASSUME me.status = 0
                   PROVE  /\ Readable(ops, n) /\ out[p] \o data = Written(ops, n)
                          /\ me.v.input = IF op = <<"-">> THEN data ELSE Unread(ops, n + 1)
      OBVIOUS
    <3>2. Readable(ops, n)
      <4>1. Readable(ops, n - 1) /\ \A k \in 1 .. n : k \in 1 .. n - 1 \/ k = n
        BY <1>5, <1>7, <3>1
      <4>. QED
        BY <1>6, <2>1, <4>1 DEF Readable
    <3>3. me.v.input = Unread(ops, n) /\ out[p] = Written(ops, n - 1)
      BY <1>5, <3>1
    <3>4. data = Contents(ops, n)
      BY <1>6, <2>1, <2>2, <3>3 DEF Contents, Unread
    <3>5. Written(ops, n) = Written(ops, n - 1) \o Contents(ops, n)
      BY <1>4, <1>7, <3>2, WrittenAppend
    <3>6. Unread(ops, n + 1) = IF op = <<"-">> THEN <<>> ELSE Unread(ops, n)
      BY <1>6, <1>7, UnreadNext
    <3>. QED
      BY <2>2, <3>2, <3>3, <3>4, <3>5, <3>6
  <2>8. me.status = 0 =>
          /\ Readable(ops, n)' /\ out'[p] \o data = Written(ops, n)'
          /\ me.v.input = IF op = <<"-">> THEN data ELSE Unread(ops, n + 1)'
    BY <1>4, <2>7, SameReading, SameUnread
  <2>9. CatAt(p, n)'
    BY <1>5, <1>6, <2>3, <2>5, <2>6, <2>8 DEF CatAt
  <2>. QED
    BY <1>4, <2>3, <2>6, <2>9 DEF CatRuns
<1>. QED
  BY <1>12, <1>13

LEMMA AppendHead ==
  ASSUME NEW S, NEW s \in Seq(S), NEW t \in Seq(S), t # <<>>
  PROVE  Append(s, Head(t)) \o Tail(t) = s \o t /\ Append(s, Head(t)) \in Seq(S)
<1>1. /\ Head(t) \in S /\ Head(t) = t[1] /\ Tail(t) \in Seq(S) /\ Len(Tail(t)) = Len(t) - 1
      /\ \A i \in 1 .. Len(Tail(t)) : Tail(t)[i] = t[i + 1]
      /\ Len(t) \in Nat \ {0} /\ Len(s) \in Nat
  BY HeadTailProperties, EmptySeq, LenProperties
<1>. DEFINE a == Append(s, Head(t))
<1>2. /\ a \in Seq(S) /\ Len(a) = Len(s) + 1 /\ a[Len(s) + 1] = t[1]
      /\ \A i \in 1 .. Len(s) : a[i] = s[i]
  BY <1>1, AppendProperties
<1>. HIDE DEF a
<1>. DEFINE u == Tail(t)
<1>. HIDE DEF u
<1>3. /\ a \o u \in Seq(S) /\ Len(a \o u) = Len(s) + Len(t)
      /\ \A i \in 1 .. Len(s) + Len(t) : (a \o u)[i] = IF i <= Len(a) THEN a[i] ELSE u[i - Len(a)]
  <2>1. a \in Seq(S) /\ u \in Seq(S)
    BY <1>1, <1>2 DEF u
  <2>2. /\ a \o u \in Seq(S) /\ Len(a \o u) = Len(a) + Len(u)
        /\ \A i \in 1 .. Len(a) + Len(u) : (a \o u)[i] = IF i <= Len(a) THEN a[i] ELSE u[i - Len(a)]
    BY <2>1, ConcatProperties
  <2>3. Len(a) + Len(u) = Len(s) + Len(t)
    BY <1>1, <1>2 DEF u
  <2>. QED
    BY <2>2, <2>3
<1>4. /\ s \o t \in Seq(S) /\ Len(s \o t) = Len(s) + Len(t)
      /\ \A i \in 1 .. Len(s) + Len(t) : (s \o t)[i] = IF i <= Len(s) THEN s[i] ELSE t[i - Len(s)]
  BY ConcatProperties
<1>5. ASSUME NEW i \in 1 .. Len(s) + Len(t) PROVE (a \o u)[i] = (s \o t)[i]
  <2>0. i \in Int /\ Len(s) \in Int
    BY <1>1
  <2>1. CASE i <= Len(s)
    BY <1>1, <1>2, <1>3, <1>4, <2>1
  <2>2. CASE i = Len(s) + 1
    BY <1>1, <1>2, <1>3, <1>4, <2>2
  <2>3. CASE i > Len(s) + 1
    <3>1. i - Len(a) \in 1 .. Len(u) /\ (i - Len(a)) + 1 = i - Len(s) /\ ~ (i <= Len(a))
      BY <1>1, <1>2, <2>3 DEF u
    <3>2. u[i - Len(a)] = t[(i - Len(a)) + 1]
      BY <1>1, <3>1 DEF u
    <3>. QED
      BY <1>3, <1>4, <2>0, <2>3, <3>1, <3>2
  <2>4. i <= Len(s) \/ i = Len(s) + 1 \/ i > Len(s) + 1
    BY <2>0
  <2>. QED
    BY <2>1, <2>2, <2>3, <2>4
<1>6. a \o u = s \o t
  BY <1>3, <1>4, <1>5, SeqEqual
<1>. QED
  BY <1>2, <1>6 DEF a, u

LEMMA CatCopies ==
  ASSUME Shape, NEW p \in Proc, proc[p].cmd.prog = "cat", CatRuns(p), CatCopy(p)
  PROVE  CatRuns(p)'
<1>. DEFINE me == proc[p]
            locals == [input : Seq(Blocks), path : Seq(Name), data : Seq(Blocks)]
<1>0. PICK cmd, pc, mine, status, cut, stack, v :
        me = [cmd |-> cmd, pc |-> pc, ops |-> mine, status |-> status, cut |-> cut,
              stack |-> stack, v |-> v]
  BY DEF Shape, Running, Process
<1>1. PICK ops : ops = Inputs(me)
  OBVIOUS
<1>2. me.pc = "copy"
  BY DEF CatCopy, At
<1>3. PICK n \in 0 .. Len(ops) : CatAt(p, n)
  BY <1>1, <1>2 DEF CatRuns, CatNew
<1>4. /\ fs = before /\ DOMAIN proc = Proc /\ DOMAIN out = Proc /\ ops \in Seq(Paths)
      /\ out[p] \in Seq(Blocks) /\ me.ops \in Seq(Paths) /\ fs' = before /\ before' = before
  BY <1>1 DEF CatRuns, CatCopy, Shape, Running
<1>5. /\ n + Len(me.ops) = Len(ops) /\ \A k \in 1 .. Len(me.ops) : me.ops[k] = ops[n + k]
      /\ me.v \in locals /\ n # 0 /\ me.v.path = ops[n]
      /\ me.status = 0 =>
           /\ Readable(ops, n) /\ out[p] \o me.v.data = Written(ops, n)
           /\ me.v.input = IF ops[n] = <<"-">> THEN me.v.data ELSE Unread(ops, n + 1)
  BY <1>1, <1>2, <1>3 DEF CatAt
<1>6. PICK local \in locals : local = me.v
  BY <1>5
<1>7. local = [input |-> local.input, path |-> local.path, data |-> local.data]
  BY <1>6
<1>8. PICK left : left = me.v.data /\ left \in Seq(Blocks)
  BY <1>6
<1>9. left # <<>> => Tail(left) \in Seq(Blocks)
  BY <1>8, HeadTailProperties
\* What reading a block leaves.
<1>10. PICK rest : rest = CatRead(me, Tail(left)).v
  OBVIOUS
<1>11. ASSUME left # <<>>
       PROVE  /\ rest \in locals /\ rest.path = ops[n] /\ rest.data = Tail(left)
              /\ rest.input = IF ops[n] = <<"-">> THEN Tail(left) ELSE me.v.input
              /\ CatRead(me, Tail(left)) = [me EXCEPT !.v = rest]
  <2>. DEFINE input == IF ops[n] = <<"-">> THEN Tail(left) ELSE local.input
              read == [input |-> input, path |-> local.path, data |-> Tail(left)]
  <2>1. input \in Seq(Blocks) /\ local.path \in Seq(Name)
    BY <1>6, <1>9, <1>11
  <2>2. CatRead(me, Tail(left)) = [me EXCEPT !.v = read]
    BY <1>5, <1>6 DEF CatRead
  <2>3. [me EXCEPT !.v = read].v = read
    <3>. HIDE DEF read
    <3>. QED
      BY <1>0
  <2>. HIDE DEF input
  <2>4. rest = read
    BY <1>10, <2>2, <2>3
  <2>5. /\ rest \in locals /\ rest.path = ops[n] /\ rest.data = Tail(left) /\ rest.input = input
    BY <1>5, <1>6, <1>9, <1>11, <2>1, <2>4
  <2>6. CatRead(me, Tail(left)) = [me EXCEPT !.v = rest]
    BY <2>2, <2>4
  <2>. QED
    BY <1>6, <2>5, <2>6 DEF input
<1>12. CASE left = <<>> /\ Becomes(p, Goto(CatStatus(me, FALSE), "main")) /\ UNCHANGED out
  <2>1. /\ proc'[p].cmd = me.cmd /\ proc'[p].ops = me.ops /\ proc'[p].pc = "main"
        /\ proc'[p].status = me.status /\ proc'[p].v = me.v
    BY <1>0, <1>4, <1>12 DEF Becomes, CatStatus, Goto
  <2>2. Inputs(proc[p])' = ops
    BY <1>1, <2>1 DEF Inputs
  <2>3. me.status = 0 =>
          /\ Readable(ops, n) /\ out[p] = Written(ops, n) /\ me.v.input = Unread(ops, n + 1)
    <3>1. out[p] \o <<>> = out[p]
      BY <1>4, ConcatEmptySeq
    <3>2. n \in Nat \ {0}
      BY <1>4, <1>5, LenProperties
    <3>3. ops[n] = <<"-">> => Unread(ops, n + 1) = <<>>
      BY <3>2, UnreadNext
    <3>. QED
      BY <1>5, <1>8, <1>12, <3>1, <3>3
  <2>4. me.status = 0 =>
          /\ Readable(ops, n)' /\ out'[p] = Written(ops, n)' /\ me.v.input = Unread(ops, n + 1)'
    BY <1>4, <1>12, <2>3, SameReading, SameUnread
  <2>5. CatAt(p, n)'
    BY <1>5, <2>1, <2>2, <2>4 DEF CatAt
  <2>. QED
    BY <1>4, <1>12, <2>1, <2>2, <2>5 DEF CatRuns
<1>13. CASE /\ left # <<>>
            /\ out' = [out EXCEPT ![p] = Append(@, Head(left))]
            /\ Becomes(p, CatRead(me, Tail(left)))
  <2>1. proc'[p] = [me EXCEPT !.v = rest] /\ out'[p] = Append(out[p], Head(left))
    BY <1>4, <1>11, <1>13 DEF Becomes
  <2>2. /\ proc'[p].cmd = me.cmd /\ proc'[p].ops = me.ops /\ proc'[p].pc = "copy"
        /\ proc'[p].status = me.status /\ proc'[p].v = rest
    BY <1>0, <1>2, <2>1
  <2>3. out'[p] \o Tail(left) = out[p] \o left /\ out'[p] \in Seq(Blocks)
    <3>1. out'[p] = Append(out[p], Head(left)) /\ left # <<>> /\ left \in Seq(Blocks)
      BY <1>8, <1>13, <2>1
    <3>2. Append(out[p], Head(left)) \o Tail(left) = out[p] \o left /\ Append(out[p], Head(left)) \in Seq(Blocks)
      BY <1>4, <3>1, AppendHead
    <3>. QED
      BY <3>1, <3>2
  <2>4. Inputs(proc[p])' = ops
    BY <1>1, <2>2 DEF Inputs
  <2>5. me.status = 0 =>
          /\ Readable(ops, n)' /\ out'[p] \o Tail(left) = Written(ops, n)'
          /\ rest.input = IF ops[n] = <<"-">> THEN Tail(left) ELSE Unread(ops, n + 1)'
    BY <1>4, <1>5, <1>8, <1>11, <1>13, <2>3, SameReading, SameUnread
  <2>6. CatAt(p, n)'
    BY <1>5, <1>11, <1>13, <2>2, <2>4, <2>5 DEF CatAt
  <2>. QED
    BY <1>4, <2>2, <2>3, <2>4, <2>6 DEF CatRuns
<1>14. ASSUME NEW w \in locals, proc'[p] = Goto(CatStatus([me EXCEPT !.v = w], TRUE), "main"), UNCHANGED out
       PROVE  CatRuns(p)'
  <2>1. /\ proc'[p].cmd = me.cmd /\ proc'[p].ops = me.ops /\ proc'[p].pc = "main"
        /\ proc'[p].status = 1 /\ proc'[p].v = w
    BY <1>0, <1>14 DEF CatStatus, Goto, Failed
  <2>2. Inputs(proc[p])' = ops
    BY <1>1, <2>1 DEF Inputs
  <2>3. CatAt(p, n)'
    <3>1. proc'[p].v \in locals
      BY <2>1
    <3>. QED
      BY <1>5, <2>1, <2>2, <3>1 DEF CatAt
  <2>. QED
    BY <1>4, <1>14, <2>1, <2>2, <2>3 DEF CatRuns
<1>15. CASE /\ left # <<>>
            /\ Becomes(p, Goto(CatStatus(CatRead(me, Tail(left)), TRUE), "main")) /\ UNCHANGED out
  BY <1>4, <1>11, <1>14, <1>15 DEF Becomes
<1>16. CASE Becomes(p, Goto(CatStatus(me, TRUE), "main")) /\ UNCHANGED out
  <2>1. me = [me EXCEPT !.v = local]
    BY <1>0, <1>6
  <2>. QED
    BY <1>4, <1>14, <1>16, <2>1 DEF Becomes
<1>. QED
  BY <1>8, <1>12, <1>13, <1>15, <1>16 DEF CatCopy

LEMMA StepCat == CatInv /\ [Next]_vars => CatInv'
<1>. SUFFICES ASSUME CatInv, [Next]_vars PROVE CatInv'
  OBVIOUS
<1>1. CASE UNCHANGED vars
  <2>1. Shape'
    BY <1>1 DEF vars, CatInv, Shape, Running
  <2>2. ASSUME NEW p \in Proc, CatRuns(p) PROVE CatRuns(p)'
    <3>1. Inputs(proc[p])' = Inputs(proc[p])
      BY <1>1 DEF vars, Inputs
    <3>2. ASSUME NEW n, CatAt(p, n) PROVE CatAt(p, n)'
      <4>1. PICK ops : ops = Inputs(proc[p])
        OBVIOUS
      <4>2. Inputs(proc[p])' = ops /\ proc' = proc /\ out' = out /\ before' = before
        BY <1>1, <3>1, <4>1 DEF vars
      <4>3. /\ Readable(ops, n)' = Readable(ops, n) /\ Readable(ops, n - 1)' = Readable(ops, n - 1)
            /\ Written(ops, n)' = Written(ops, n) /\ Written(ops, n - 1)' = Written(ops, n - 1)
            /\ Unread(ops, n)' = Unread(ops, n) /\ Unread(ops, n + 1)' = Unread(ops, n + 1)
        BY <4>2, SameReading, SameUnread
      <4>. QED
        BY <3>2, <4>1, <4>2, <4>3 DEF CatAt
    <3>. QED
      BY <1>1, <2>2, <3>1, <3>2 DEF vars, CatRuns, CatNew
  <2>. QED
    BY <1>1, <2>1, <2>2 DEF vars, CatInv, Alone
<1>2. ASSUME NEW q \in Proc, Step(q) PROVE CatInv'
  <2>1. OfProcess(q) /\ Shape' /\ Shape
    BY <1>2, StepShape DEF CatInv
  <2>2. SUFFICES ASSUME NEW p \in Proc, proc'[p].cmd.prog = "cat", Alone(p)' PROVE CatRuns(p)'
    BY <2>1 DEF CatInv
  <2>3. DOMAIN proc = Proc /\ DOMAIN proc' = Proc
    BY <2>1 DEF Shape, Running
  <2>4. \A r \in Proc : proc'[r].cmd = proc[r].cmd
    BY <2>1 DEF OfProcess
  <2>5. proc[p].cmd.prog = "cat" /\ Alone(p)
    BY <2>2, <2>3, <2>4 DEF Alone
  <2>6. p = q
    BY <2>1, <2>3, <2>5 DEF Alone, OfProcess
  <2>7. CatRuns(p) /\ CatStep(p)
    BY <2>1, <2>5, <2>6 DEF CatInv, OfProcess
  <2>. QED
    BY <2>1, <2>5, <2>7, CatStarts, CatTakes, CatOpens, CatCopies DEF CatStep
<1>. QED
  BY <1>1, <1>2 DEF Next

(* After exit status 0 the output of cat is its files, one after the other, *)
(* the standard input where the first "-" stands or if there are no         *)
(* operands, and no error on the way was forgotten (cat.c:25-39, 59-77).    *)
THEOREM CatWritesAll == Spec => []CatOutput
<1>1. CatInv => CatOutput
  <2>1. SUFFICES ASSUME CatInv, NEW p \in DOMAIN proc, Exited(p, "cat"), proc[p].status = 0, Alone(p)
                 PROVE  /\ \A op \in Range(Inputs(proc[p])) :
                             op # <<"-">> => Stat(before, op) # None
                        /\ out[p] = FlattenSeq([k \in DOMAIN Inputs(proc[p]) |->
                                                  Contents(Inputs(proc[p]), k)])
    BY DEF CatOutput
  <2>2. p \in Proc
    BY <2>1 DEF CatInv, Shape, Running
  <2>3. CatRuns(p) /\ proc[p].pc = "exited"
    BY <2>1, <2>2 DEF CatInv, Exited, At
  <2>4. PICK ops : ops = Inputs(proc[p])
    OBVIOUS
  <2>5. PICK n \in 0 .. Len(ops) : CatAt(p, n)
    BY <2>3, <2>4 DEF CatRuns, CatNew
  <2>6. ops \in Seq(Paths) /\ Len(proc[p].ops) = 0 /\ DOMAIN ops = 1 .. Len(ops) /\ Len(ops) \in Nat
    BY <2>3, <2>4, <2>5, LenProperties DEF CatAt, CatRuns
  <2>7. n = Len(ops) /\ Readable(ops, n) /\ out[p] = Written(ops, n)
    BY <2>1, <2>3, <2>4, <2>5, <2>6 DEF CatAt
  <2>. QED
    BY <2>4, <2>6, <2>7 DEF Readable, Written, Range
<1>. QED
  BY <1>1, InitCat, StepCat, PTL DEF Spec

-----------------------------------------------------------------------------
(***************************************************************************)
(* rm, when nothing else runs.  g is the tree at the start, f what is left *)
(* of it, me the process.                                                  *)
(***************************************************************************)
\* What the operands name, and what is below.
Doomed(g, operands) ==
  UNION {Below(g, Lstat(g, op)) :
           op \in {op \in Range(operands) : ~ IsDotName(op) /\ Lstat(g, op) \notin {None, Root}}}

GivenFile(g, me, path) == path \in Paths /\ Lstat(g, path) \in Doomed(g, me.cmd.operands)
GivenDir(g, me, path) == GivenFile(g, me, path) /\ g[Lstat(g, path)].type = "dir"
Frames(g, me) ==
  {frame \in [path : Paths, left : SUBSET Name] :
     GivenDir(g, me, frame.path) /\ frame.left \subseteq DOMAIN g[Lstat(g, frame.path)].ents}

\* Only what was given is gone; and every directory that is being read was given.
RmKept(g, f, me) ==
  /\ Pruned(f, g)
  /\ \A d \in DOMAIN g : \A n \in DOMAIN g[d].ents :
       g[d].ents[n] \notin Doomed(g, me.cmd.operands) => n \in DOMAIN f[d].ents
  /\ me.cmd.operands \in Seq(Paths) /\ me.ops \in Seq(Paths)
  /\ Range(me.ops) \subseteq Range(me.cmd.operands)
  /\ me.stack \in Seq(Frames(g, me))

\* Before a directory is read, and before something is removed.
ForDir == {"access_opendir", "ask_opendir", "opendir"}
ForFile == {"access_unlink", "ask_unlink", "unlink", "ask_rmdir", "rmdir"}

\* The file that rm() is at was given as well, unless it is not there.
RmAt(g, f, me) ==
  /\ me.pc \in {"main", "rm", "lstat", "read", "exited"} \union ForDir \union ForFile
  /\ me.pc \in {"rm", "lstat"} =>
       /\ me.v \in Paths
       /\ me.v \in Range(me.cmd.operands) \/ GivenFile(g, me, me.v) \/ Lstat(g, me.v) = None
  /\ me.pc = "lstat" => ~ IsDotName(me.v) /\ ~ IsRoot(f, me.v)
  /\ me.pc \in ForDir => GivenDir(g, me, me.v) /\ Lstat(f, me.v) # None
  /\ me.pc \in ForFile => GivenFile(g, me, me.v)
  /\ me.pc = "read" => me.stack # <<>>

RmInv ==
  /\ Shape
  /\ \A p \in Proc : proc[p].cmd.prog = "rm" /\ Alone(p) =>
       RmKept(before, fs, proc[p]) /\ RmAt(before, fs, proc[p])

LEMMA GivenIs ==
  ASSUME NEW g, Tree(g), NEW operands \in Seq(Paths)
  PROVE  /\ Doomed(g, operands) \subseteq DOMAIN g
         /\ \A i \in Doomed(g, operands) : Range(g[i].ents) \subseteq Doomed(g, operands)
         /\ \A op \in Range(operands) :
              ~ IsDotName(op) /\ Lstat(g, op) \notin {None, Root} => Lstat(g, op) \in Doomed(g, operands)
<1>1. ASSUME NEW op \in Range(operands), Lstat(g, op) # None
      PROVE  /\ Lstat(g, op) \in Below(g, Lstat(g, op))
             /\ \A i \in Below(g, Lstat(g, op)) :
                  i \in DOMAIN g /\ Range(g[i].ents) \subseteq Below(g, Lstat(g, op))
  <2>1. op \in Paths
    BY RangeOfSeq
  <2>2. Lstat(g, op) \in DOMAIN g
    BY <1>1, <2>1, StatIs
  <2>. QED
    BY <2>2, BelowIs
<1>. QED
  BY <1>1 DEF Doomed

\* Only the operands and the stack of the process are spoken of.
LEMMA KeptFields ==
  ASSUME NEW g, NEW f, NEW me, RmKept(g, f, me),
         NEW new, new.cmd = me.cmd, new.ops = me.ops, new.stack = me.stack
  PROVE  RmKept(g, f, new)
BY DEF RmKept, Frames, GivenDir, GivenFile

LEMMA RmReturned ==
  ASSUME NEW g, NEW f, NEW me, RmKept(g, f, me),
         NEW new, new.cmd = me.cmd, new.ops = me.ops, new.stack = me.stack,
         new.pc = IF me.stack = <<>> THEN "main" ELSE "read"
  PROVE  RmKept(g, f, new) /\ RmAt(g, f, new)
<1>1. RmKept(g, f, new)
  BY KeptFields
<1>. QED
  BY <1>1 DEF RmAt, ForDir, ForFile

LEMMA RmReturns ==
  ASSUME NEW g, NEW f, NEW me, Process(me), RmKept(g, f, me)
  PROVE  \A new \in {RmReturn(me), Unremoved(me)} : RmKept(g, f, new) /\ RmAt(g, f, new)
<1>. PICK cmd, pc, ops, status, cut, stack, v :
       me = [cmd |-> cmd, pc |-> pc, ops |-> ops, status |-> status, cut |-> cut,
             stack |-> stack, v |-> v]
  BY DEF Process
<1>1. ASSUME NEW new \in {RmReturn(me), Unremoved(me)}
      PROVE  RmKept(g, f, new) /\ RmAt(g, f, new)
  <2>1. /\ new.cmd = me.cmd /\ new.ops = me.ops /\ new.stack = me.stack
        /\ new.pc = IF me.stack = <<>> THEN "main" ELSE "read"
    <3>1. CASE new = RmReturn(me)
      BY <3>1 DEF RmReturn, Goto
    <3>2. CASE new = Unremoved(me)
      BY <3>2 DEF Unremoved, Failed, RmReturn, Goto
    <3>. QED
      BY <1>1, <3>1, <3>2
  <2>. QED
    BY <2>1, RmReturned
<1>. QED
  BY <1>1

LEMMA RmRefused ==
  ASSUME NEW g, NEW f, NEW me, Process(me), RmKept(g, f, me),
         NEW new, new = RmReturn([me EXCEPT !.cut = @ \union {"no"}])
  PROVE  RmKept(g, f, new) /\ RmAt(g, f, new)
<1>. PICK cmd, pc, ops, status, cut, stack, v :
       me = [cmd |-> cmd, pc |-> pc, ops |-> ops, status |-> status, cut |-> cut,
             stack |-> stack, v |-> v]
  BY DEF Process
<1>. DEFINE cut2 == me.cut \union {"no"}
<1>1. new = RmReturn([me EXCEPT !.cut = cut2])
  OBVIOUS
<1>. HIDE DEF cut2
<1>2. /\ new.cmd = me.cmd /\ new.ops = me.ops /\ new.stack = me.stack
      /\ new.pc = IF me.stack = <<>> THEN "main" ELSE "read"
  BY <1>1 DEF RmReturn, Goto
<1>. QED
  BY <1>2, RmReturned

\* A path that names something still names what it did at the start.
LEMMA StillNamed ==
  ASSUME NEW g, Tree(g), NEW f, NEW me, RmKept(g, f, me), NEW path \in Paths, Lstat(f, path) # None
  PROVE  /\ Lstat(f, path) = Lstat(g, path) /\ Lstat(f, path) \in DOMAIN g
         /\ g[Lstat(f, path)].type # "lnk" => Stat(f, path) = Lstat(f, path)
<1>1. Pruned(f, g) /\ Tree(f)
  BY PrunedTree DEF RmKept
<1>2. Lstat(f, path) = Lstat(g, path) /\ Lstat(f, path) \in DOMAIN g
  BY <1>1, LstatPruned
<1>3. f[Lstat(f, path)].type = g[Lstat(f, path)].type
  BY <1>1, <1>2, PrunedIs
<1>. QED
  BY <1>1, <1>2, <1>3, StatFollows

\* Removing a file that was given.
LEMMA Removes ==
  ASSUME NEW g, Tree(g), NEW f, NEW me, RmKept(g, f, me),
         NEW path, GivenFile(g, me, path), Lstat(f, path) # None
  PROVE  RmKept(g, Without(f, Place(f, path, FALSE)), me)
<1>1. Pruned(f, g) /\ Tree(f) /\ path \in Paths
  BY PrunedTree DEF RmKept, GivenFile
<1>2. PICK d \in DOMAIN g, name \in Name :
        Place(f, path, FALSE) = [dir |-> d, name |-> name] /\ Lstat(f, path) = Child(f, d, name)
  BY <1>1, LstatPruned
<1>3. Lstat(f, path) \in Doomed(g, me.cmd.operands)
  BY <1>1, StillNamed DEF GivenFile
<1>. DEFINE h == Without(f, [dir |-> d, name |-> name])
<1>4. /\ Pruned(h, g)
      /\ \A e \in DOMAIN g : \A n \in DOMAIN f[e].ents : (e = d => n # name) => n \in DOMAIN h[e].ents
  BY <1>1, PrunedWithout
<1>. HIDE DEF h
<1>5. ASSUME NEW e \in DOMAIN g, NEW n \in DOMAIN g[e].ents, g[e].ents[n] \notin Doomed(g, me.cmd.operands)
      PROVE  n \in DOMAIN h[e].ents
  <2>1. n \in DOMAIN f[e].ents
    BY <1>5 DEF RmKept
  <2>2. SUFFICES ASSUME e = d, n = name PROVE FALSE
    BY <1>4, <2>1
  <2>3. n \notin Special
    BY InodeIs
  <2>4. Child(f, d, name) = f[d].ents[name]
    BY <2>1, <2>2, <2>3 DEF Child, Special
  <2>5. f[d].ents[name] = g[d].ents[name]
    BY <1>1, <2>1, <2>2, PrunedIs
  <2>. QED
    BY <1>2, <1>3, <1>5, <2>2, <2>4, <2>5
<1>6. RmKept(g, h, me)
  BY <1>4, <1>5 DEF RmKept
<1>. QED
  BY <1>2, <1>6 DEF h

\* What a step of rm is taken from.
RmFrom(p) ==
  /\ Shape /\ Tree(before) /\ DOMAIN proc = Proc
  /\ Process(proc[p])
  /\ RmKept(before, fs, proc[p]) /\ RmAt(before, fs, proc[p])
RmTo(p) == RmKept(before, fs', proc'[p]) /\ RmAt(before, fs', proc'[p])

LEMMA RmMainKeeps ==
  ASSUME NEW p \in Proc, RmFrom(p), RmMain(p)
  PROVE  RmTo(p)
<1>. DEFINE me == proc[p]
            new == proc'[p]
<1>0. PICK cmd, pc, ops, status, cut, stack, v :
        me = [cmd |-> cmd, pc |-> pc, ops |-> ops, status |-> status, cut |-> cut,
              stack |-> stack, v |-> v]
  BY DEF RmFrom, Process
<1>1. /\ RmKept(before, fs, me) /\ me.ops \in Seq(Paths) /\ fs' = fs
      /\ Range(me.ops) \subseteq Range(me.cmd.operands)
  BY DEF RmFrom, RmKept, RmMain, Operand, Silently
<1>2. CASE me.ops = <<>>
  <2>1. new = Goto(me, "exited") \/ new = Goto(Failed(me), "exited")
    BY <1>2 DEF RmMain, Operand, Becomes, RmFrom
  <2>2. new.cmd = me.cmd /\ new.ops = me.ops /\ new.stack = me.stack /\ new.pc = "exited"
    BY <1>0, <2>1 DEF Goto, Failed
  <2>. HIDE DEF me, new
  <2>3. RmKept(before, fs, new)
    BY <1>1, <2>2, KeptFields
  <2>. QED
    BY <1>1, <2>2, <2>3 DEF RmTo, RmAt, ForDir, ForFile, new
<1>3. CASE me.ops # <<>>
  <2>1. new = Goto(Locals([me EXCEPT !.ops = Tail(@)], Head(me.ops)), "rm")
    BY <1>3 DEF RmMain, Operand, Becomes, RmFrom, Taken, Current
  <2>2. /\ new.cmd = me.cmd /\ new.ops = Tail(me.ops) /\ new.stack = me.stack /\ new.pc = "rm"
        /\ new.v = Head(me.ops)
    BY <1>0, <2>1 DEF Goto, Locals
  <2>3. /\ Tail(me.ops) \in Seq(Paths) /\ Head(me.ops) \in Paths
        /\ Range(Tail(me.ops)) \subseteq Range(me.ops) /\ Head(me.ops) \in Range(me.ops)
    <3>. DEFINE s == me.ops
    <3>1. s \in Seq(Paths) /\ s # <<>>
      BY <1>1, <1>3
    <3>. HIDE DEF s
    <3>2. /\ Tail(s) \in Seq(Paths) /\ Head(s) \in Paths /\ Head(s) = s[1]
          /\ Len(Tail(s)) = Len(s) - 1 /\ Len(s) \in Nat \ {0}
          /\ \A i \in 1 .. Len(Tail(s)) : Tail(s)[i] = s[i + 1]
      BY <3>1, HeadTailProperties, EmptySeq
    <3>3. Range(s) = {s[i] : i \in 1 .. Len(s)} /\ Range(Tail(s)) = {Tail(s)[i] : i \in 1 .. Len(Tail(s))}
      BY <3>1, <3>2, RangeEquality
    <3>4. Head(s) \in Range(s)
      BY <3>2, <3>3
    <3>5. Range(Tail(s)) \subseteq Range(s)
      BY <3>2, <3>3
    <3>. QED
      BY <3>2, <3>4, <3>5 DEF s
  <2>. HIDE DEF me, new
  <2>4. RmKept(before, fs, new)
    BY <1>1, <2>2, <2>3 DEF RmKept, Frames, GivenDir, GivenFile
  <2>5. RmAt(before, fs, new)
    BY <1>1, <2>2, <2>3 DEF RmAt, ForDir, ForFile
  <2>. QED
    BY <1>1, <2>4, <2>5 DEF RmTo, new
<1>. QED
  BY <1>2, <1>3

\* A step that only goes to another place, with a file that was given.
LEMMA RmGoes ==
  ASSUME NEW g, NEW f, NEW me, Process(me), RmKept(g, f, me), GivenFile(g, me, me.v)
  PROVE  \A new \in {me, Failed(me)} : \A x :
           /\ x \in ForFile =>
                RmKept(g, f, Goto(new, x)) /\ RmAt(g, f, Goto(new, x))
           /\ x \in ForDir /\ GivenDir(g, me, me.v) /\ Lstat(f, me.v) # None =>
                RmKept(g, f, Goto(new, x)) /\ RmAt(g, f, Goto(new, x))
<1>. PICK cmd, pc, ops, status, cut, stack, v :
       me = [cmd |-> cmd, pc |-> pc, ops |-> ops, status |-> status, cut |-> cut,
             stack |-> stack, v |-> v]
  BY DEF Process
<1>1. SUFFICES ASSUME NEW new \in {me, Failed(me)}, NEW x
               PROVE  /\ x \in ForFile =>
                           RmKept(g, f, Goto(new, x)) /\ RmAt(g, f, Goto(new, x))
                      /\ x \in ForDir /\ GivenDir(g, me, me.v) /\ Lstat(f, me.v) # None =>
                           RmKept(g, f, Goto(new, x)) /\ RmAt(g, f, Goto(new, x))
  OBVIOUS
<1>. DEFINE to == Goto(new, x)
<1>2. to.cmd = me.cmd /\ to.ops = me.ops /\ to.stack = me.stack /\ to.pc = x /\ to.v = me.v
  <2>1. CASE new = me
    BY <2>1 DEF Goto
  <2>2. CASE new = Failed(me)
    BY <2>2 DEF Goto, Failed
  <2>. QED
    BY <1>1, <2>1, <2>2
<1>. HIDE DEF to
<1>3. RmKept(g, f, to)
  BY <1>2, KeptFields
<1>4. GivenFile(g, to, to.v) /\ (GivenDir(g, to, to.v) <=> GivenDir(g, me, me.v))
  BY <1>2 DEF GivenFile, GivenDir
<1>5. x \in ForFile => RmAt(g, f, to)
  BY <1>2, <1>4 DEF RmAt, ForDir, ForFile
<1>6. x \in ForDir /\ GivenDir(g, me, me.v) /\ Lstat(f, me.v) # None => RmAt(g, f, to)
  BY <1>2, <1>4 DEF RmAt, ForDir, ForFile
<1>. QED
  BY <1>3, <1>5, <1>6 DEF to

LEMMA RmEnterKeeps ==
  ASSUME NEW p \in Proc, RmFrom(p), RmEnter(p)
  PROVE  RmTo(p)
<1>. DEFINE me == proc[p]
            new == proc'[p]
<1>0. PICK cmd, pc, ops, status, cut, stack, v :
        me = [cmd |-> cmd, pc |-> pc, ops |-> ops, status |-> status, cut |-> cut,
              stack |-> stack, v |-> v]
  BY DEF RmFrom, Process
<1>1. /\ fs' = fs /\ me.pc = "rm" /\ Process(me) /\ RmKept(before, fs, me) /\ RmAt(before, fs, me)
  BY DEF RmFrom, RmEnter, Silently, At
<1>2. \/ new \in {RmReturn(me), Unremoved(me)}
      \/ ~ IsDotName(me.v) /\ ~ IsRoot(fs, me.v) /\ new = Goto(me, "lstat")
  BY DEF RmEnter, Becomes, RmFrom, Unremoved
<1>3. CASE new \in {RmReturn(me), Unremoved(me)}
  <2>. HIDE DEF me, new
  <2>. QED
    BY <1>1, <1>3, RmReturns DEF RmTo, new
<1>4. CASE ~ IsDotName(me.v) /\ ~ IsRoot(fs, me.v) /\ new = Goto(me, "lstat")
  <2>1. new.cmd = me.cmd /\ new.ops = me.ops /\ new.stack = me.stack /\ new.pc = "lstat" /\ new.v = me.v
    BY <1>0, <1>4 DEF Goto
  <2>. HIDE DEF me, new
  <2>2. RmKept(before, fs, new)
    BY <1>1, <2>1, KeptFields
  <2>3. /\ me.v \in Paths
        /\ me.v \in Range(me.cmd.operands) \/ GivenFile(before, me, me.v) \/ Lstat(before, me.v) = None
    BY <1>1 DEF RmAt
  <2>4. GivenFile(before, new, new.v) <=> GivenFile(before, me, me.v)
    BY <2>1 DEF GivenFile
  <2>5. RmAt(before, fs, new)
    BY <1>4, <2>1, <2>3, <2>4 DEF RmAt, ForDir, ForFile
  <2>. QED
    BY <1>1, <2>2, <2>5 DEF RmTo, new
<1>. QED
  BY <1>2, <1>3, <1>4

LEMMA RmLstatKeeps ==
  ASSUME NEW p \in Proc, RmFrom(p), RmLstat(p)
  PROVE  RmTo(p)
<1>. DEFINE me == proc[p]
            new == proc'[p]
            i == Lstat(fs, me.v)
            inner == IF IsDir(fs, i) THEN "opendir" ELSE "unlink"
<1>1. /\ fs' = fs /\ me.pc = "lstat" /\ me.cmd.operands \in Seq(Paths)
      /\ Process(me) /\ RmKept(before, fs, me) /\ RmAt(before, fs, me) /\ Tree(before)
  BY DEF RmFrom, RmLstat, Silently, At, RmKept
<1>2. \/ new \in {RmReturn(me), Unremoved(me)}
      \/ i # None /\ new = Goto(me, IF Has(me, "f") THEN inner ELSE Access[inner])
  BY DEF RmLstat, Becomes, RmFrom, FileNamed, Unremoved
<1>3. CASE new \in {RmReturn(me), Unremoved(me)}
  <2>. HIDE DEF me, new
  <2>. QED
    BY <1>1, <1>3, RmReturns DEF RmTo, new
<1>4. CASE i # None /\ new = Goto(me, IF Has(me, "f") THEN inner ELSE Access[inner])
  <2>1. /\ me.v \in Paths /\ ~ IsDotName(me.v) /\ ~ IsRoot(fs, me.v)
        /\ me.v \in Range(me.cmd.operands) \/ GivenFile(before, me, me.v) \/ Lstat(before, me.v) = None
    BY <1>1 DEF RmAt
  <2>2. /\ i = Lstat(before, me.v) /\ i \in DOMAIN before
        /\ before[i].type # "lnk" => Stat(fs, me.v) = i
    BY <1>1, <1>4, <2>1, StillNamed
  <2>3. i # Root
    <3>1. i = Root => before[i].type = "dir"
      BY <1>1 DEF Tree
    <3>. QED
      BY <2>1, <2>2, <3>1 DEF IsRoot
  <2>4. GivenFile(before, me, me.v)
    <3>1. me.v \in Range(me.cmd.operands) => Lstat(before, me.v) \in Doomed(before, me.cmd.operands)
      BY <1>1, <1>4, <2>1, <2>2, <2>3, GivenIs
    <3>. QED
      BY <1>4, <2>1, <2>2, <3>1 DEF GivenFile
  <2>5. inner = "opendir" => GivenDir(before, me, me.v)
    <3>1. fs[i].type = before[i].type
      BY <1>1, <2>2, PrunedIs DEF RmKept
    <3>. QED
      BY <2>2, <2>4, <3>1 DEF GivenDir, IsDir
  <2>6. \E x : /\ new = Goto(me, x)
               /\ x \in ForFile \/ (x \in ForDir /\ GivenDir(before, me, me.v))
    <3>1. Access["opendir"] = "access_opendir" /\ Access["unlink"] = "access_unlink"
      BY DEF Access
    <3>2. inner = "opendir" \/ inner = "unlink"
      OBVIOUS
    <3>. HIDE DEF me, new, inner
    <3>. QED
      BY <1>4, <2>5, <3>1, <3>2 DEF ForDir, ForFile
  <2>. HIDE DEF me, new
  <2>7. RmKept(before, fs, new) /\ RmAt(before, fs, new)
    BY <1>1, <1>4, <2>4, <2>6, RmGoes
  <2>. QED
    BY <1>1, <2>7 DEF RmTo, new
<1>. QED
  BY <1>2, <1>3, <1>4

LEMMA RmAccessKeeps ==
  ASSUME NEW p \in Proc, RmFrom(p), RmAccess(p)
  PROVE  RmTo(p)
<1>. DEFINE me == proc[p]
            new == proc'[p]
<1>1. PICK inner \in DOMAIN Access :
        /\ me.pc = Access[inner] /\ new \in {Goto(me, Question[inner]), Goto(me, inner)} /\ fs' = fs
  BY DEF RmAccess, RmFrom, At, Becomes, Silently
<1>2. Process(me) /\ RmKept(before, fs, me) /\ RmAt(before, fs, me)
  BY DEF RmFrom
<1>3. \/ me.pc = "access_opendir" /\ new \in {Goto(me, "ask_opendir"), Goto(me, "opendir")}
      \/ me.pc = "access_unlink" /\ new \in {Goto(me, "ask_unlink"), Goto(me, "unlink")}
  <2>1. inner = "opendir" \/ inner = "unlink"
    BY DEF Access
  <2>. HIDE DEF me, new
  <2>. QED
    BY <1>1, <2>1 DEF Access, Question
<1>4. /\ GivenFile(before, me, me.v)
      /\ me.pc = "access_opendir" => GivenDir(before, me, me.v) /\ Lstat(fs, me.v) # None
  BY <1>2, <1>3 DEF RmAt, ForDir, ForFile, GivenDir
<1>5. \E x : /\ new = Goto(me, x)
             /\ x \in ForFile \/ (x \in ForDir /\ GivenDir(before, me, me.v) /\ Lstat(fs, me.v) # None)
  <2>. HIDE DEF me, new
  <2>. QED
    BY <1>3, <1>4 DEF ForDir, ForFile
<1>. HIDE DEF me, new
<1>6. RmKept(before, fs, new) /\ RmAt(before, fs, new)
  BY <1>2, <1>4, <1>5, RmGoes
<1>. QED
  BY <1>1, <1>6 DEF RmTo, new

LEMMA ConfirmKeeps ==
  ASSUME NEW p \in Proc, RmFrom(p), Confirm(p)
  PROVE  RmTo(p)
<1>. DEFINE me == proc[p]
            new == proc'[p]
<1>1. PICK then \in {"opendir", "unlink", "rmdir"} :
        /\ me.pc = Question[then]
        /\ new \in {Goto(me, then), RmReturn([me EXCEPT !.cut = @ \union {"no"}])}
        /\ fs' = fs
  BY DEF Confirm, RmFrom, At, Becomes, Silently
<1>2. Process(me) /\ RmKept(before, fs, me) /\ RmAt(before, fs, me)
  BY DEF RmFrom
<1>3. /\ me.pc \in {"ask_opendir", "ask_unlink", "ask_rmdir"}
      /\ then = "opendir" => me.pc = "ask_opendir"
  BY <1>1 DEF Question
<1>4. GivenFile(before, me, me.v)
  BY <1>2, <1>3 DEF RmAt, ForDir, ForFile, GivenDir
<1>5. /\ then \in ForFile \union ForDir
      /\ then \in ForDir => GivenDir(before, me, me.v) /\ Lstat(fs, me.v) # None
  BY <1>2, <1>3 DEF RmAt, ForDir, ForFile
<1>. HIDE DEF me, new
<1>6. RmKept(before, fs, new) /\ RmAt(before, fs, new)
  <2>1. CASE new = Goto(me, then)
    BY <1>2, <1>4, <1>5, <2>1, RmGoes
  <2>2. CASE new = RmReturn([me EXCEPT !.cut = @ \union {"no"}])
    BY <1>2, <2>2, RmRefused
  <2>. QED
    BY <1>1, <2>1, <2>2
<1>. QED
  BY <1>1, <1>6 DEF RmTo, new

LEMMA RmOpendirKeeps ==
  ASSUME NEW p \in Proc, RmFrom(p), RmOpendir(p)
  PROVE  RmTo(p)
<1>. DEFINE me == proc[p]
            new == proc'[p]
            i == Lstat(before, me.v)
            d == Opendir(fs, me.v)
<1>0. PICK cmd, pc, ops, status, cut, stack, v :
        me = [cmd |-> cmd, pc |-> pc, ops |-> ops, status |-> status, cut |-> cut,
              stack |-> stack, v |-> v]
  BY DEF RmFrom, Process
<1>1. /\ fs' = fs /\ me.pc = "opendir" /\ me.stack \in Seq(Frames(before, me))
      /\ Process(me) /\ RmKept(before, fs, me) /\ RmAt(before, fs, me) /\ Tree(before)
  BY DEF RmFrom, RmOpendir, Silently, At, RmKept
<1>2. /\ GivenDir(before, me, me.v) /\ GivenFile(before, me, me.v) /\ me.v \in Paths
      /\ Lstat(fs, me.v) # None /\ before[i].type = "dir"
  BY <1>1 DEF RmAt, ForDir, ForFile, GivenDir, GivenFile
<1>3. Stat(fs, me.v) = i /\ i \in DOMAIN before
  BY <1>1, <1>2, StillNamed
<1>4. CASE d = None
  <2>1. new = RmTreeDone(Failed(me))
    BY <1>4 DEF RmOpendir, Becomes, RmFrom
  <2>2. new = Goto(Failed(me), "ask_rmdir") \/ new = Goto(Failed(me), "rmdir")
    BY <2>1 DEF RmTreeDone, Question
  <2>. HIDE DEF me, new
  <2>3. RmKept(before, fs, new) /\ RmAt(before, fs, new)
    BY <1>1, <1>2, <2>2, RmGoes DEF ForFile
  <2>. QED
    BY <1>1, <2>3 DEF RmTo, new
<1>5. CASE d # None
  <2>. DEFINE frame == [path |-> me.v, left |-> DOMAIN fs[i].ents]
  <2>1. d = i
    BY <1>3, <1>5 DEF Opendir
  <2>2. new = Goto([me EXCEPT !.stack = Append(@, frame)], "read")
    BY <1>5, <2>1 DEF RmOpendir, Becomes, RmFrom
  <2>3. /\ new.cmd = me.cmd /\ new.ops = me.ops /\ new.pc = "read"
        /\ new.stack = Append(me.stack, frame)
    <3>. HIDE DEF frame
    <3>. QED
      BY <1>0, <2>2 DEF Goto
  <2>4. frame \in Frames(before, me)
    <3>1. DOMAIN fs[i].ents \subseteq DOMAIN before[i].ents
      BY <1>1, <1>3, PrunedIs DEF RmKept
    <3>2. DOMAIN before[i].ents \subseteq Name
      BY <1>1, <1>3, InodeIs
    <3>3. frame \in [path : Paths, left : SUBSET Name]
      BY <1>2, <3>1, <3>2
    <3>4. frame.path = me.v /\ frame.left = DOMAIN fs[i].ents
      OBVIOUS
    <3>. HIDE DEF frame
    <3>. QED
      BY <1>2, <3>1, <3>3, <3>4 DEF Frames
  <2>. HIDE DEF me, new, frame
  <2>5. Append(me.stack, frame) \in Seq(Frames(before, me)) /\ Append(me.stack, frame) # <<>>
    BY <1>1, <2>4, AppendProperties
  <2>6. Frames(before, new) = Frames(before, me)
    BY <2>3 DEF Frames, GivenDir, GivenFile
  <2>7. RmKept(before, fs, new)
    BY <1>1, <2>3, <2>5, <2>6 DEF RmKept
  <2>8. RmAt(before, fs, new)
    BY <2>3, <2>5 DEF RmAt, ForDir, ForFile
  <2>. QED
    BY <1>1, <2>7, <2>8 DEF RmTo, new
<1>. QED
  BY <1>4, <1>5

LEMMA RmReadKeeps ==
  ASSUME NEW p \in Proc, RmFrom(p), RmRead(p)
  PROVE  RmTo(p)
<1>. DEFINE me == proc[p]
            new == proc'[p]
            n == Len(me.stack)
            top == me.stack[n]
            i == Lstat(before, top.path)
<1>0. PICK cmd, pc, ops, status, cut, stack, v :
        me = [cmd |-> cmd, pc |-> pc, ops |-> ops, status |-> status, cut |-> cut,
              stack |-> stack, v |-> v]
  BY DEF RmFrom, Process
<1>1. /\ fs' = fs /\ me.pc = "read" /\ me.stack \in Seq(Frames(before, me)) /\ me.stack # <<>>
      /\ RmKept(before, fs, me) /\ Tree(before) /\ me.cmd.operands \in Seq(Paths)
  BY DEF RmFrom, RmRead, Silently, At, RmKept, RmAt
<1>2. /\ n \in Nat \ {0} /\ n \in 1 .. n /\ top \in Frames(before, me)
  <2>1. n \in Nat \ {0}
    BY <1>1, EmptySeq
  <2>2. n \in 1 .. n
    BY <2>1
  <2>. QED
    BY <1>1, <2>1, <2>2, ElementOfSeq
<1>3. /\ top = [path |-> top.path, left |-> top.left] /\ top.path \in Paths
      /\ GivenDir(before, me, top.path) /\ GivenFile(before, me, top.path)
      /\ i \in Doomed(before, me.cmd.operands) /\ before[i].type = "dir"
      /\ top.left \subseteq DOMAIN before[i].ents
  BY <1>2 DEF Frames, GivenDir, GivenFile
<1>4. i \in DOMAIN before /\ i # None /\ Range(before[i].ents) \subseteq Doomed(before, me.cmd.operands)
  BY <1>1, <1>3, GivenIs, TreeIs
<1>. DEFINE popped == RmTreeDone(Locals([me EXCEPT !.stack = Front(@)], top.path))
<1>5. CASE new = popped \/ new = [popped EXCEPT !.cut = @ \union {"readdir"}]
  <2>1. \E x \in {"ask_rmdir", "rmdir"} :
           popped = [cmd |-> cmd, pc |-> x, ops |-> ops, status |-> status, cut |-> cut,
                     stack |-> Front(me.stack), v |-> top.path]
    <3>. DEFINE path == top.path
                pile == Front(me.stack)
    <3>1. popped = RmTreeDone(Locals([me EXCEPT !.stack = pile], path))
      OBVIOUS
    <3>. HIDE DEF path, pile, popped
    <3>. DEFINE with == [me EXCEPT !.stack = pile]
                half == Locals(with, path)
    <3>5. with = [cmd |-> cmd, pc |-> pc, ops |-> ops, status |-> status, cut |-> cut,
                  stack |-> pile, v |-> v]
      BY <1>0
    <3>. HIDE DEF with
    <3>3. half = [cmd |-> cmd, pc |-> pc, ops |-> ops, status |-> status, cut |-> cut,
                  stack |-> pile, v |-> path]
      BY <3>5 DEF Locals
    <3>. HIDE DEF half
    <3>4. popped = Goto(half, "ask_rmdir") \/ popped = Goto(half, "rmdir")
      BY <3>1 DEF RmTreeDone, Question, half, with
    <3>2. \E x \in {"ask_rmdir", "rmdir"} :
             popped = [cmd |-> cmd, pc |-> x, ops |-> ops, status |-> status, cut |-> cut,
                       stack |-> pile, v |-> path]
      BY <3>3, <3>4 DEF Goto
    <3>. QED
      BY <3>2 DEF path, pile
  <2>2. new.pc \in {"ask_rmdir", "rmdir"}
    <3>. HIDE DEF popped, new
    <3>. QED
      BY <1>5, <2>1
  <2>3. new.cmd = me.cmd /\ new.ops = me.ops /\ new.v = top.path /\ new.stack = Front(me.stack)
    <3>. HIDE DEF popped, new
    <3>. QED
      BY <1>0, <1>5, <2>1
  <2>4. Front(me.stack) \in Seq(Frames(before, me))
    <3>. DEFINE s == me.stack
                X == Frames(before, me)
    <3>1. s \in Seq(X) /\ Len(s) \in Nat \ {0}
      BY <1>1, <1>2
    <3>. HIDE DEF s, X
    <3>2. SubSeq(s, 1, Len(s) - 1) \in Seq(X)
      <4>1. \A k \in 1 .. Len(s) - 1 : s[k] \in X
        BY <3>1, ElementOfSeq
      <4>. QED
        BY <3>1, <4>1
    <3>. QED
      BY <3>2 DEF Front, s, X
  <2>. HIDE DEF me, new, top, popped
  <2>5. Frames(before, new) = Frames(before, me)
    BY <2>3 DEF Frames, GivenDir, GivenFile
  <2>6. RmKept(before, fs, new)
    BY <1>1, <2>3, <2>4, <2>5 DEF RmKept
  <2>7. GivenFile(before, new, new.v)
    BY <1>3, <2>3 DEF GivenFile
  <2>8. RmAt(before, fs, new)
    BY <2>2, <2>7 DEF RmAt, ForDir, ForFile
  <2>. QED
    BY <1>1, <2>6, <2>8 DEF RmTo, new
<1>6. ASSUME NEW name \in top.left,
             LET rest == [me EXCEPT !.stack[n].left = @ \ {name}]
             IN  new = IF Len(top.path) >= PathMax THEN Failed(rest)
                       ELSE Goto(Locals(rest, Append(top.path, name)), "rm")
      PROVE  RmTo(p)
  <2>. DEFINE frame == [top EXCEPT !.left = @ \ {name}]
              pile == [me.stack EXCEPT ![n] = frame]
  <2>1. [me EXCEPT !.stack[n].left = @ \ {name}] = [me EXCEPT !.stack = pile]
    OBVIOUS
  <2>2. /\ new.cmd = me.cmd /\ new.ops = me.ops /\ new.stack = pile
        /\ new.pc = "read" \/ (new.pc = "rm" /\ new.v = Append(top.path, name))
    <3>. HIDE DEF pile
    <3>1. CASE new = Failed([me EXCEPT !.stack = pile])
      BY <1>0, <1>1, <3>1 DEF Failed
    <3>2. CASE new = Goto(Locals([me EXCEPT !.stack = pile], Append(top.path, name)), "rm")
      <4>. DEFINE long == Append(top.path, name)
      <4>1. new = Goto(Locals([me EXCEPT !.stack = pile], long), "rm")
        BY <3>2
      <4>. HIDE DEF long
      <4>2. new.cmd = me.cmd /\ new.ops = me.ops /\ new.stack = pile /\ new.pc = "rm" /\ new.v = long
        BY <1>0, <4>1 DEF Goto, Locals
      <4>. QED
        BY <4>2 DEF long
    <3>. QED
      BY <1>6, <2>1, <3>1, <3>2
  <2>3. frame \in Frames(before, me)
    <3>1. frame = [path |-> top.path, left |-> top.left \ {name}]
      <4>1. top = [path |-> top.path, left |-> top.left]
        BY <1>3
      <4>. HIDE DEF top
      <4>. QED
        BY <4>1
    <3>2. top.left \subseteq Name
      BY <1>2 DEF Frames
    <3>3. frame \in [path : Paths, left : SUBSET Name]
      BY <1>3, <3>1, <3>2
    <3>4. frame.path = top.path /\ frame.left \subseteq top.left
      BY <3>1
    <3>. HIDE DEF frame, top
    <3>. QED
      BY <1>3, <3>3, <3>4 DEF Frames
  <2>4. pile \in Seq(Frames(before, me)) /\ pile # <<>>
    <3>. HIDE DEF frame
    <3>1. pile \in Seq(Frames(before, me)) /\ Len(pile) = n
      BY <1>1, <1>2, <2>3, ExceptSeq
    <3>. HIDE DEF pile
    <3>. QED
      BY <1>2, <3>1, EmptySeq
  <2>5. Append(top.path, name) \in Paths
        /\ Lstat(before, Append(top.path, name)) \in Doomed(before, me.cmd.operands) \union {None}
    <3>. HIDE DEF top
    <3>1. name \in Name \ Special /\ name \in DOMAIN before[i].ents
      BY <1>1, <1>3, <1>4, InodeIs
    <3>2. Stat(before, top.path) = i
      BY <1>1, <1>3, <1>4, StatFollows
    <3>3. Child(before, i, name) = before[i].ents[name]
      BY <3>1 DEF Child, Special
    <3>4. before[i].ents[name] \in Doomed(before, me.cmd.operands)
      BY <1>4, <3>1 DEF Range
    <3>. HIDE DEF i
    <3>. QED
      BY <1>1, <1>3, <1>4, <3>1, <3>2, <3>3, <3>4, LstatAppend
  <2>. HIDE DEF me, new, top, pile
  <2>6. Frames(before, new) = Frames(before, me)
    BY <2>2 DEF Frames, GivenDir, GivenFile
  <2>7. RmKept(before, fs, new)
    BY <1>1, <2>2, <2>4, <2>6 DEF RmKept
  <2>8. RmAt(before, fs, new)
    BY <2>2, <2>4, <2>5 DEF RmAt, ForDir, ForFile, GivenFile
  <2>. QED
    BY <1>1, <2>7, <2>8 DEF RmTo, new
<1>7. \/ new = popped \/ new = [popped EXCEPT !.cut = @ \union {"readdir"}]
      \/ \E name \in top.left :
          LET rest == [me EXCEPT !.stack[n].left = @ \ {name}]
          IN  new = IF Len(top.path) >= PathMax THEN Failed(rest)
                    ELSE Goto(Locals(rest, Append(top.path, name)), "rm")
  BY DEF RmRead, Becomes, RmFrom
<1>. QED
  BY <1>5, <1>6, <1>7

\* What is left of a path without the slashes at its end.
LEMMA TrimmedIs ==
  ASSUME NEW path \in Paths
  PROVE  Trimmed(path) \in Paths
<1>. DEFINE S == {1} \union {k \in DOMAIN path : path[k] # ""}
<1>1. path \in Seq(Name) /\ Len(path) \in Nat \ {0} /\ DOMAIN path = 1 .. Len(path)
  BY PathIs, LenProperties
<1>2. 1 \in S /\ S \subseteq {1} \union DOMAIN path
  BY Zenon
<1>3. Trimmed(path) = SubSeq(path, 1, Max(S))
  BY DEF Trimmed
<1>. HIDE DEF S
<1>4. S \subseteq 1 .. Len(path)
  BY <1>1, <1>2
<1>5. Max(S) \in 1 .. Len(path)
  <2>1. S \in SUBSET Nat /\ IsFiniteSet(S) /\ S # {}
    <3>1. IsFiniteSet(1 .. Len(path))
      BY <1>1, FS_Interval
    <3>2. IsFiniteSet(S)
      BY <1>4, <3>1, FS_Subset
    <3>. QED
      BY <1>1, <1>2, <1>4, <3>2
  <2>2. \E x \in S : \A y \in S : y <= x
    BY <2>1, GreatestExists
  <2>3. Max(S) \in S
    BY <2>2 DEF Max
  <2>. QED
    BY <1>4, <2>3
<1>. DEFINE m == Max(S)
            s == SubSeq(path, 1, m)
<1>. HIDE DEF m
<1>6. m \in 1 .. Len(path)
  BY <1>5 DEF m
<1>7. s \in Seq(Name) /\ Len(s) = m
  <2>1. \A k \in 1 .. m : path[k] \in Name
    BY <1>1, <1>6, ElementOfSeq
  <2>. QED
    BY <1>1, <1>6, <2>1
<1>8. s # <<>>
  <2>. HIDE DEF s
  <2>. QED
    BY <1>6, <1>7, EmptySeq
<1>. QED
  BY <1>3, <1>7, <1>8 DEF m, Paths

LEMMA RemovalKeeps ==
  ASSUME NEW p \in Proc, RmFrom(p), RmUnlink(p) \/ RmRmdir(p)
  PROVE  RmTo(p)
<1>. DEFINE me == proc[p]
            new == proc'[p]
<1>1. /\ Process(me) /\ RmKept(before, fs, me) /\ RmAt(before, fs, me) /\ Tree(before)
      /\ me.pc = "unlink" \/ me.pc = "rmdir"
  BY DEF RmFrom, RmUnlink, RmRmdir, At
<1>2. GivenFile(before, me, me.v)
  BY <1>1 DEF RmAt, ForDir, ForFile
<1>3. Tree(fs) /\ Lstat(fs, me.v) \in DOMAIN fs \union {None}
  <2>1. Tree(fs) /\ me.v \in Paths
    BY <1>1, <1>2, PrunedTree DEF RmKept, GivenFile
  <2>. QED
    BY <2>1, StatIs
<1>4. /\ \/ fs' = fs
         \/ \E path \in {me.v, Trimmed(me.v)} : /\ fs' = Without(fs, Place(fs, path, FALSE))
                                               /\ Lstat(fs, path) # None /\ Lstat(fs, path) = Lstat(fs, me.v)
      /\ new \in {RmReturn(me), Unremoved(me)}
  <2>1. CASE RmUnlink(p)
    BY <2>1 DEF RmUnlink, CanUnlink, Unlink, Becomes, RmFrom
  <2>2. CASE RmRmdir(p)
    BY <2>2 DEF RmRmdir, CanRmdir, Rmdir, IsDir, Becomes, RmFrom
  <2>. QED
    BY <2>1, <2>2
<1>. HIDE DEF me, new
<1>5. ASSUME NEW path \in {me.v, Trimmed(me.v)}, Lstat(fs, path) # None, Lstat(fs, path) = Lstat(fs, me.v)
      PROVE  GivenFile(before, me, path)
  <2>1. me.v \in Paths /\ path \in Paths
    BY <1>2, <1>5, TrimmedIs DEF GivenFile
  <2>2. Lstat(before, path) = Lstat(before, me.v)
    BY <1>1, <1>5, <2>1, StillNamed
  <2>. QED
    BY <1>2, <2>1, <2>2 DEF GivenFile
<1>7. RmKept(before, fs', me)
  BY <1>1, <1>4, <1>5, Removes
<1>6. RmKept(before, fs', new) /\ RmAt(before, fs', new)
  BY <1>1, <1>4, <1>7, RmReturns
<1>. QED
  BY <1>6 DEF RmTo, new

LEMMA InitRm == Init => RmInv
<1>1. SUFFICES ASSUME Init, Shape, NEW p \in Proc, proc[p].cmd.prog = "rm"
               PROVE  RmKept(before, fs, proc[p]) /\ RmAt(before, fs, proc[p])
  BY InitShape DEF RmInv
<1>2. PICK s \in Sessions : proc = [q \in Proc |-> Start(s[q])]
  BY <1>1 DEF Init
<1>3. /\ proc[p].cmd = s[p] /\ proc[p].ops = s[p].operands
      /\ proc[p].pc = "main" /\ proc[p].stack = <<>> /\ fs = before
  BY <1>1, <1>2 DEF Init, Start
<1>4. s[p].operands \in Seq(Paths) /\ Tree(before)
  BY <1>1, FilesAssumption DEF Init
<1>5. Pruned(fs, before) /\ <<>> \in Seq(Frames(before, proc[p]))
  BY <1>3, <1>4, PrunedSelf, EmptySeq
<1>. QED
  BY <1>3, <1>4, <1>5 DEF RmKept, RmAt, ForDir, ForFile

LEMMA StepRm == RmInv /\ [Next]_vars => RmInv'
<1>. SUFFICES ASSUME RmInv, [Next]_vars PROVE RmInv'
  OBVIOUS
<1>1. CASE UNCHANGED vars
  BY <1>1 DEF vars, RmInv, Shape, Running, Alone
<1>2. ASSUME NEW q \in Proc, Step(q) PROVE RmInv'
  <2>1. OfProcess(q) /\ Shape' /\ Shape
    BY <1>2, StepShape DEF RmInv
  <2>2. SUFFICES ASSUME NEW p \in Proc, proc'[p].cmd.prog = "rm", Alone(p)'
                 PROVE  RmKept(before', fs', proc'[p]) /\ RmAt(before', fs', proc'[p])
    BY <2>1 DEF RmInv
  <2>3. DOMAIN proc = Proc /\ DOMAIN proc' = Proc /\ Process(proc[p])
    BY <2>1 DEF Shape, Running
  <2>4. \A r \in Proc : proc'[r].cmd = proc[r].cmd
    BY <2>1 DEF OfProcess
  <2>5. proc[p].cmd.prog = "rm" /\ Alone(p)
    BY <2>2, <2>3, <2>4 DEF Alone
  <2>6. p = q
    BY <2>1, <2>3, <2>5 DEF Alone, OfProcess
  <2>7. RmStep(p) /\ before' = before
    BY <2>1, <2>5, <2>6 DEF OfProcess
  <2>8. Tree(before)
    BY <2>1, FilesAssumption DEF Shape
  <2>9. RmFrom(p)
    BY <2>1, <2>3, <2>5, <2>8 DEF RmInv, RmFrom
  <2>10. RmTo(p)
    BY <2>7, <2>9, RmMainKeeps, RmEnterKeeps, RmLstatKeeps, RmAccessKeeps, ConfirmKeeps, RmOpendirKeeps, RmReadKeeps,
       RemovalKeeps DEF RmStep
  <2>. QED
    BY <2>7, <2>10 DEF RmTo
<1>. QED
  BY <1>1, <1>2 DEF Next

(* rm removes nothing but its operands and what is below them: not what a   *)
(* symlink points to, and for an operand that isdotname() sees to end in    *)
(* "." or "..", or that is the root, nothing at all (rm.c:34-51, 89-94, 96).*)
THEOREM RmRemovesGivenOnly == Spec => []RmKeeps
<1>1. RmInv => RmKeeps
  <2>1. SUFFICES ASSUME RmInv, NEW p \in DOMAIN proc, proc[p].cmd.prog = "rm", Alone(p),
                        NEW d \in DOMAIN before, NEW n, n \in DOMAIN before[d].ents,
                        before[d].ents[n] \notin Doomed(before, proc[p].cmd.operands)
                 PROVE  n \in DOMAIN fs[d].ents
    BY DEF RmKeeps, Doomed
  <2>2. p \in Proc
    BY <2>1 DEF RmInv, Shape, Running
  <2>3. RmKept(before, fs, proc[p])
    BY <2>1, <2>2 DEF RmInv
  <2>. QED
    BY <2>1, <2>3 DEF RmKept
<1>. QED
  BY <1>1, InitRm, StepRm, PTL DEF Spec

-----------------------------------------------------------------------------
(***************************************************************************)
(* touch, when no other program runs; there may be many of it.             *)
(***************************************************************************)
TouchOnly == \A q \in Proc : proc[q].cmd.prog \in {"touch", "idle"}
Others(p) == {q \in Proc \ {p} : proc[q].cmd.prog # "idle"}

\* A time that one of the processes gives an inode, by one of its operands.
Gift(f, ps, i, x, t) ==
  \E q \in DOMAIN ps :
    /\ ps[q].cmd.prog = "touch" /\ ps[q].v # None /\ Sets(ps[q], x) /\ t = Time(ps[q].v, x)
    /\ \E op \in Range(ps[q].cmd.operands) : Stat(f, op) = i

\* Every time is the old one or such a gift.
TimesAll(f, ps) ==
  \A i \in DOMAIN f, x \in {"a", "m"} :
    Time(f[i], x) = OldTime(i, x) \/ Gift(f, ps, i, x, Time(f[i], x))

\* What a touch is to set, as its command has it.
Asked(g, me, x) ==
  IF Has(me, "r") THEN Time(g[Stat(g, me.cmd.ref)], x)
  ELSE IF Has(me, "t") \/ Has(me, "d") THEN "given" ELSE "now"
Timed(g, me) == \A x \in {"a", "m"} : Sets(me, x) => Time(me.v, x) = Asked(g, me, x)

\* An operand is dealt with.
Gifted(f, ps, me, i) ==
  \A x \in {"a", "m"} : Sets(me, x) => Gift(f, ps, i, x, Time(f[i], x))
Touched(g, f, ps, me, op) ==
  /\ Stat(f, op) = None => Has(me, "c")
  /\ Stat(f, op) # None /\ (Has(me, "c") => Stat(g, op) # None) => Gifted(f, ps, me, Stat(f, op))

\* The first n operands were taken, and all of them but the one in hand dealt with.
InHand(me) == me.pc \in {"stat", "create", "set", "futimens"}
Holds(f, me, op) ==
  /\ me.pc # "futimens" => me.stack = op
  /\ me.pc = "futimens" => me.stack = Stat(f, op) /\ Stat(f, op) # None
TouchAt(g, f, ps, me, n) ==
  LET ops == me.cmd.operands
  IN  /\ n + Len(me.ops) = Len(ops)
      /\ \A k \in 1 .. Len(me.ops) : me.ops[k] = ops[n + k]
      /\ me.pc = "exited" /\ me.status = 0 => me.ops = <<>>
      /\ InHand(me) => n # 0 /\ Holds(f, me, ops[n])
      /\ me.status = 0 =>
           \A k \in 1 .. n : (InHand(me) /\ k = n) \/ Touched(g, f, ps, me, ops[k])

TouchKept(g, f, me, others) ==
  /\ me.cmd.operands \in Seq(Paths) /\ me.ops \in Seq(Paths)
  /\ me.pc \in {"main", "exited"} \/ InHand(me)
  /\ InHand(me) => me.v # None
  /\ me.pc = "create" => ~ Has(me, "c")
  /\ others = {} => /\ me.v = None => f = g
                    /\ me.v # None => Timed(g, me)
TouchRuns(g, f, ps, me, others) ==
  /\ TouchKept(g, f, me, others)
  /\ \E n \in 0 .. Len(me.cmd.operands) : TouchAt(g, f, ps, me, n)

TouchInv ==
  /\ Shape
  /\ TouchOnly => /\ Tree(fs) /\ Grown(fs, before) /\ TimesAll(fs, proc)
                  /\ \A p \in Proc : proc[p].cmd.prog = "touch" =>
                       TouchRuns(before, fs, proc, proc[p], Others(p))

\* It is the command that says what is asked for.
LEMMA ByCommand ==
  ASSUME NEW g, NEW f, NEW ps, NEW me, NEW new, new.cmd = me.cmd
  PROVE  /\ \A x : (Has(new, x) <=> Has(me, x)) /\ (Sets(new, x) <=> Sets(me, x))
         /\ \A op : Touched(g, f, ps, me, op) => Touched(g, f, ps, new, op)
         /\ new.v = me.v /\ Timed(g, me) => Timed(g, new)
<1>1. \A x : (Has(new, x) <=> Has(me, x)) /\ (Sets(new, x) <=> Sets(me, x))
  BY DEF Has, Sets
<1>2. \A x : Asked(g, new, x) = Asked(g, me, x)
  BY <1>1 DEF Asked
<1>3. \A i : Gifted(f, ps, me, i) => Gifted(f, ps, new, i)
  BY <1>1 DEF Gifted
<1>4. \A op : Touched(g, f, ps, me, op) => Touched(g, f, ps, new, op)
  BY <1>1, <1>3 DEF Touched
<1>5. new.v = me.v /\ Timed(g, me) => Timed(g, new)
  BY <1>1, <1>2 DEF Timed
<1>. QED
  BY <1>1, <1>4, <1>5

\* The processes go on from ps to qs while the file system goes from f to h.
Moved(f, ps, h, qs) ==
  /\ Tree(f) /\ Tree(h) /\ Grown(h, f) /\ DOMAIN qs = DOMAIN ps
  /\ \A q \in DOMAIN ps :
       /\ qs[q].cmd = ps[q].cmd
       /\ ps[q].v # None => qs[q].v = ps[q].v
       /\ ps[q].cmd.prog = "touch" => ps[q].cmd.operands \in Seq(Paths)
  /\ \A i \in DOMAIN f, x \in {"a", "m"} :
       Time(h[i], x) = Time(f[i], x) \/ Gift(h, qs, i, x, Time(h[i], x))
  /\ \A i \in DOMAIN h \ DOMAIN f, x \in {"a", "m"} : Time(h[i], x) = "now"

\* What was given once can be said to have been given ever after.
LEMMA GiftStays ==
  ASSUME NEW f, NEW ps, NEW h, NEW qs, Moved(f, ps, h, qs),
         NEW i, i # None, NEW x, NEW t, Gift(f, ps, i, x, t)
  PROVE  Gift(h, qs, i, x, t)
<1>1. PICK q \in DOMAIN ps :
        /\ ps[q].cmd.prog = "touch" /\ ps[q].v # None /\ Sets(ps[q], x) /\ t = Time(ps[q].v, x)
        /\ \E op \in Range(ps[q].cmd.operands) : Stat(f, op) = i
  BY DEF Gift
<1>2. PICK op \in Range(ps[q].cmd.operands) : Stat(f, op) = i
  BY <1>1
<1>3. /\ qs[q].cmd = ps[q].cmd /\ qs[q].v = ps[q].v /\ q \in DOMAIN qs
      /\ ps[q].cmd.operands \in Seq(Paths) /\ Tree(f) /\ Tree(h) /\ Grown(h, f)
  BY <1>1 DEF Moved
<1>4. op \in Paths
  <2>. DEFINE ops == ps[q].cmd.operands
  <2>1. ops \in Seq(Paths)
    BY <1>3
  <2>. HIDE DEF ops
  <2>2. DOMAIN ops = 1 .. Len(ops) /\ \A k \in 1 .. Len(ops) : ops[k] \in Paths
    BY <2>1, LenProperties, ElementOfSeq
  <2>. QED
    BY <1>2, <2>2 DEF Range, ops
<1>5. Stat(h, op) = i
  BY <1>2, <1>3, <1>4, StatGrown
<1>6. Sets(qs[q], x)
  BY <1>1, <1>3 DEF Sets, Has
<1>. QED
  BY <1>1, <1>2, <1>3, <1>5, <1>6 DEF Gift

LEMMA TimesStay ==
  ASSUME NEW f, NEW ps, NEW h, NEW qs, Moved(f, ps, h, qs), TimesAll(f, ps),
         DOMAIN before \subseteq DOMAIN f
  PROVE  TimesAll(h, qs)
<1>1. ASSUME NEW i \in DOMAIN h, NEW x \in {"a", "m"}
      PROVE  Time(h[i], x) = OldTime(i, x) \/ Gift(h, qs, i, x, Time(h[i], x))
  <2>1. CASE i \in DOMAIN f
    <3>1. i # None
      BY <2>1, TreeIs DEF Moved
    <3>2. CASE Time(h[i], x) = Time(f[i], x)
      <4>1. Time(f[i], x) = OldTime(i, x) \/ Gift(f, ps, i, x, Time(f[i], x))
        BY <2>1 DEF TimesAll
      <4>. QED
        BY <3>1, <3>2, <4>1, GiftStays
    <3>. QED
      BY <2>1, <3>2 DEF Moved
  <2>2. CASE i \notin DOMAIN f
    <3>1. Time(h[i], x) = "now"
      BY <2>2 DEF Moved
    <3>2. OldTime(i, x) = "now"
      BY <2>2 DEF OldTime
    <3>. QED
      BY <3>1, <3>2
  <2>. QED
    BY <2>1, <2>2
<1>. QED
  BY <1>1 DEF TimesAll

LEMMA TouchedStays ==
  ASSUME NEW f, NEW ps, NEW h, NEW qs, Moved(f, ps, h, qs), NEW g, Tree(g), Grown(f, g),
         NEW me, NEW op \in Paths, Touched(g, f, ps, me, op)
  PROVE  Touched(g, h, qs, me, op)
<1>1. Tree(f) /\ Tree(h) /\ Grown(h, f)
  BY DEF Moved
<1>2. CASE Stat(f, op) = None
  <2>1. Stat(g, op) = None
    BY <1>1, <1>2, StatGrown
  <2>2. Has(me, "c")
    BY <1>2 DEF Touched
  <2>. QED
    BY <2>1, <2>2 DEF Touched
<1>3. CASE Stat(f, op) # None
  <2>1. Stat(h, op) = Stat(f, op)
    BY <1>1, <1>3, StatGrown
  <2>. DEFINE i == Stat(f, op)
  <2>2. i \in DOMAIN f /\ i # None
    BY <1>1, <1>3, StatIs
  <2>. HIDE DEF i
  <2>3. ASSUME Gifted(f, ps, me, i) PROVE Gifted(h, qs, me, i)
    <3>1. ASSUME NEW x \in {"a", "m"}, Sets(me, x) PROVE Gift(h, qs, i, x, Time(h[i], x))
      <4>1. Gift(f, ps, i, x, Time(f[i], x))
        BY <2>3, <3>1 DEF Gifted
      <4>2. Gift(h, qs, i, x, Time(f[i], x))
        BY <2>2, <4>1, GiftStays
      <4>3. Time(h[i], x) = Time(f[i], x) \/ Gift(h, qs, i, x, Time(h[i], x))
        BY <2>2 DEF Moved
      <4>. QED
        BY <4>2, <4>3
    <3>. QED
      BY <3>1 DEF Gifted
  <2>. QED
    BY <1>3, <2>1, <2>3 DEF Touched, i
<1>. QED
  BY <1>2, <1>3

\* Before a step of p, and after it.
TouchFrom(p, others) ==
  /\ DOMAIN proc = Proc /\ Process(proc[p]) /\ proc[p].cmd.prog = "touch"
  /\ \A q \in Proc : proc[q].cmd.prog = "touch" => proc[q].cmd.operands \in Seq(Paths)
  /\ Tree(before) /\ Tree(fs) /\ Grown(fs, before)
  /\ TouchRuns(before, fs, proc, proc[p], others)
TouchTo(p, others) ==
  /\ Moved(fs, proc, fs', proc')
  /\ TouchRuns(before, fs', proc', proc'[p], others)

\* A step of p that sets no time.
LEMMA MovesOn ==
  ASSUME NEW p \in Proc, NEW others, TouchFrom(p, others), NEW new, Becomes(p, new),
         new.cmd = proc[p].cmd, proc[p].v # None => new.v = proc[p].v, fs' = fs
  PROVE  Moved(fs, proc, fs', proc') /\ proc'[p] = new
<1>1. /\ DOMAIN proc' = DOMAIN proc /\ proc'[p] = new /\ DOMAIN proc = Proc
      /\ \A q \in Proc \ {p} : proc'[q] = proc[q]
  BY DEF TouchFrom, Becomes
<1>2. ASSUME NEW q \in Proc
      PROVE  /\ proc'[q].cmd = proc[q].cmd
             /\ proc[q].v # None => proc'[q].v = proc[q].v
             /\ proc[q].cmd.prog = "touch" => proc[q].cmd.operands \in Seq(Paths)
  BY <1>1 DEF TouchFrom
<1>3. Tree(fs) /\ Grown(fs, fs)
  BY GrownSelf DEF TouchFrom
<1>4. Moved(fs, proc, fs, proc')
  BY <1>1, <1>2, <1>3 DEF Moved
<1>. QED
  BY <1>1, <1>4

\* An operand that is in hand stays so.
LEMMA HoldsStays ==
  ASSUME NEW f, NEW ps, NEW h, NEW qs, Moved(f, ps, h, qs), NEW me, NEW op \in Paths,
         Holds(f, me, op)
  PROVE  Holds(h, me, op)
BY StatGrown DEF Moved, Holds

LEMMA OperandIs ==
  ASSUME NEW g, NEW f, NEW me, NEW others, TouchKept(g, f, me, others)
  PROVE  /\ Len(me.cmd.operands) \in Nat
         /\ \A k \in 1 .. Len(me.cmd.operands) : me.cmd.operands[k] \in Paths
         /\ \A n \in 0 .. Len(me.cmd.operands) : \A k \in 1 .. n : me.cmd.operands[k] \in Paths
         /\ \A n \in 0 .. Len(me.cmd.operands) : n # 0 => n \in 1 .. n /\ n \in 1 .. Len(me.cmd.operands)
<1>. DEFINE ops == me.cmd.operands
            len == Len(ops)
<1>1. ops \in Seq(Paths)
  BY DEF TouchKept
<1>. HIDE DEF ops
<1>2. len \in Nat /\ \A k \in 1 .. len : ops[k] \in Paths
  BY <1>1, LenProperties, ElementOfSeq
<1>. HIDE DEF len
<1>3. \A n \in 0 .. len : \A k \in 1 .. n : k \in 1 .. len
  BY <1>2
<1>4. \A n \in 0 .. len : n # 0 => n \in 1 .. n /\ n \in 1 .. len
  BY <1>2
<1>. QED
  BY <1>2, <1>3, <1>4 DEF ops, len

\* A step that leaves the operands alone.
LEMMA TouchGoes ==
  ASSUME NEW g, Tree(g), NEW f, Grown(f, g), NEW ps, NEW h, NEW qs, Moved(f, ps, h, qs),
         NEW me, NEW new, NEW others, NEW n \in 0 .. Len(me.cmd.operands),
         TouchKept(g, f, me, others), TouchAt(g, f, ps, me, n),
         new.cmd = me.cmd, new.ops = me.ops, new.v = me.v, me.pc # "exited",
         others = {} => me.v # None \/ h = f,
         \/ /\ new.pc = "main" /\ new.status = me.status /\ InHand(me)
            /\ Touched(g, h, qs, me, me.cmd.operands[n])
         \/ new.pc = "main" /\ new.status = 1
         \/ /\ InHand(new) /\ InHand(me) /\ new.status = me.status
            /\ new.pc = "create" => ~ Has(me, "c")
            /\ Holds(h, new, me.cmd.operands[n])
         \/ new.pc = "exited" /\ new.status = 1
  PROVE  TouchRuns(g, h, qs, new, others)
<1>. DEFINE ops == new.cmd.operands
<1>0. me.cmd.operands = ops
  OBVIOUS
<1>1. /\ \A op : Touched(g, h, qs, me, op) => Touched(g, h, qs, new, op)
      /\ \A x : Has(new, x) <=> Has(me, x)
      /\ Timed(g, me) => Timed(g, new)
  BY ByCommand
<1>2. TouchKept(g, h, new, others)
  <2>1. /\ new.cmd.operands \in Seq(Paths) /\ new.ops \in Seq(Paths)
        /\ new.pc \in {"main", "exited"} \/ InHand(new)
        /\ InHand(new) => new.v # None
    BY DEF TouchKept, InHand
  <2>2. new.pc = "create" => ~ Has(new, "c")
    BY <1>1 DEF InHand
  <2>3. others = {} => /\ new.v = None => h = g
                       /\ new.v # None => Timed(g, new)
    BY <1>1 DEF TouchKept
  <2>. QED
    BY <2>1, <2>2, <2>3 DEF TouchKept
<1>3. \A k \in 1 .. n : ops[k] \in Paths
  BY OperandIs
<1>4. /\ n + Len(new.ops) = Len(ops)
      /\ \A k \in 1 .. Len(new.ops) : new.ops[k] = ops[n + k]
      /\ InHand(me) => n # 0
  BY DEF TouchAt
<1>5. InHand(new) => n # 0 /\ Holds(h, new, ops[n])
  BY <1>4 DEF InHand
<1>6. new.pc = "exited" => new.status = 1
  BY DEF InHand
<1>7. ASSUME new.status = 0, NEW k \in 1 .. n
      PROVE  (InHand(new) /\ k = n) \/ Touched(g, h, qs, new, ops[k])
  <2>1. me.status = 0
    BY <1>7
  <2>2. (InHand(me) /\ k = n) \/ Touched(g, f, ps, me, ops[k])
    BY <2>1 DEF TouchAt
  <2>3. InHand(new) \/ (InHand(me) /\ Touched(g, h, qs, me, ops[n]))
    BY <1>7
  <2>4. Touched(g, f, ps, me, ops[k]) => Touched(g, h, qs, me, ops[k])
    BY <1>3, TouchedStays
  <2>5. ~ (InHand(me) /\ k = n) => Touched(g, h, qs, new, ops[k])
    BY <1>1, <2>2, <2>4
  <2>. QED
    BY <1>1, <2>3, <2>5
<1>8. TouchAt(g, h, qs, new, n)
  <2>1. new.status = 0 =>
          \A k \in 1 .. n : (InHand(new) /\ k = n) \/ Touched(g, h, qs, new, ops[k])
    BY <1>7
  <2>2. new.pc = "exited" /\ new.status = 0 => new.ops = <<>>
    BY <1>6
  <2>. QED
    BY <1>4, <1>5, <2>1, <2>2, Zenon DEF TouchAt
<1>. QED
  BY <1>0, <1>2, <1>8 DEF TouchRuns

\* A step of another touch.
LEMMA TouchBeside ==
  ASSUME NEW g, Tree(g), NEW f, Grown(f, g), NEW ps, NEW h, NEW qs, Moved(f, ps, h, qs),
         NEW me, NEW others, others # {}, TouchRuns(g, f, ps, me, others)
  PROVE  TouchRuns(g, h, qs, me, others)
<1>. DEFINE ops == me.cmd.operands
<1>1. PICK n \in 0 .. Len(ops) : TouchAt(g, f, ps, me, n)
  BY DEF TouchRuns
<1>2. TouchKept(g, h, me, others) /\ TouchKept(g, f, me, others)
  BY DEF TouchRuns, TouchKept
<1>3. /\ \A k \in 1 .. n : ops[k] \in Paths
      /\ n # 0 => n \in 1 .. n
  BY <1>2, OperandIs
<1>4. InHand(me) => n # 0 /\ Holds(h, me, ops[n])
  <2>1. InHand(me) => n # 0 /\ Holds(f, me, ops[n])
    BY <1>1 DEF TouchAt
  <2>. QED
    BY <1>3, <2>1, HoldsStays
<1>5. me.status = 0 =>
        \A k \in 1 .. n : (InHand(me) /\ k = n) \/ Touched(g, h, qs, me, ops[k])
  <2>1. me.status = 0 =>
          \A k \in 1 .. n : (InHand(me) /\ k = n) \/ Touched(g, f, ps, me, ops[k])
    BY <1>1 DEF TouchAt
  <2>. QED
    BY <1>3, <2>1, TouchedStays
<1>6. /\ n + Len(me.ops) = Len(ops)
      /\ \A k \in 1 .. Len(me.ops) : me.ops[k] = ops[n + k]
      /\ me.pc = "exited" /\ me.status = 0 => me.ops = <<>>
  BY <1>1 DEF TouchAt
<1>7. TouchAt(g, h, qs, me, n)
  BY <1>4, <1>5, <1>6, Zenon DEF TouchAt
<1>. QED
  BY <1>2, <1>7 DEF TouchRuns

\* The times of one inode are set.
LEMMA SetTimesIs ==
  ASSUME NEW me, NEW inode,
         inode = [type |-> inode.type, mode |-> inode.mode, data |-> inode.data, ents |-> inode.ents,
                  to |-> inode.to, atime |-> inode.atime, mtime |-> inode.mtime]
  PROVE  SetTimes(me, inode) =
           [type |-> inode.type, mode |-> inode.mode, data |-> inode.data, ents |-> inode.ents,
            to |-> inode.to, atime |-> IF Sets(me, "a") THEN me.v.atime ELSE inode.atime,
            mtime |-> IF Sets(me, "m") THEN me.v.mtime ELSE inode.mtime]
<1>. DEFINE a == IF Sets(me, "a") THEN me.v.atime ELSE inode.atime
            m == IF Sets(me, "m") THEN me.v.mtime ELSE inode.mtime
<1>1. SetTimes(me, inode) = [inode EXCEPT !.atime = a, !.mtime = m]
  BY DEF SetTimes
<1>. HIDE DEF a, m
<1>2. [inode EXCEPT !.atime = a, !.mtime = m] =
        [type |-> inode.type, mode |-> inode.mode, data |-> inode.data, ents |-> inode.ents,
         to |-> inode.to, atime |-> a, mtime |-> m]
  <2>. DEFINE half == [inode EXCEPT !.atime = a]
  <2>1. half = [type |-> inode.type, mode |-> inode.mode, data |-> inode.data, ents |-> inode.ents,
                to |-> inode.to, atime |-> a, mtime |-> inode.mtime]
    OBVIOUS
  <2>2. [inode EXCEPT !.atime = a, !.mtime = m] = [half EXCEPT !.mtime = m]
    OBVIOUS
  <2>. HIDE DEF half
  <2>3. [half EXCEPT !.mtime = m] =
          [type |-> inode.type, mode |-> inode.mode, data |-> inode.data, ents |-> inode.ents,
           to |-> inode.to, atime |-> a, mtime |-> m]
    BY <2>1
  <2>. QED
    BY <2>2, <2>3
<1>. QED
  BY <1>1, <1>2 DEF a, m

LEMMA Retimes ==
  ASSUME NEW f, Tree(f), NEW i \in DOMAIN f, NEW me
  PROVE  LET h == [f EXCEPT ![i] = SetTimes(me, f[i])]
         IN  /\ Retimed(h, f)
             /\ h[i].atime = IF Sets(me, "a") THEN me.v.atime ELSE f[i].atime
             /\ h[i].mtime = IF Sets(me, "m") THEN me.v.mtime ELSE f[i].mtime
             /\ \A j \in DOMAIN f \ {i} : h[j] = f[j]
<1>. DEFINE inode == SetTimes(me, f[i])
            h == [f EXCEPT ![i] = inode]
            a == IF Sets(me, "a") THEN me.v.atime ELSE f[i].atime
            m == IF Sets(me, "m") THEN me.v.mtime ELSE f[i].mtime
<1>1. inode = [type |-> f[i].type, mode |-> f[i].mode, data |-> f[i].data, ents |-> f[i].ents,
               to |-> f[i].to, atime |-> a, mtime |-> m]
  BY InodeIs, SetTimesIs
<1>. HIDE DEF inode, a, m
<1>2. inode.atime = a /\ inode.mtime = m
  BY <1>1
<1>3. DOMAIN h = DOMAIN f /\ h[i] = inode /\ \A j \in DOMAIN f \ {i} : h[j] = f[j]
  OBVIOUS
<1>4. h = [j \in DOMAIN f |-> h[j]]
  <2>1. f \in Seq(Range(f))
    BY DEF Tree
  <2>2. f \in [1 .. Len(f) -> Range(f)]
    BY <2>1, LenProperties
  <2>. QED
    BY <2>2
<1>. HIDE DEF h
<1>5. ASSUME NEW j \in DOMAIN f
      PROVE  h[j] = [type |-> f[j].type, mode |-> f[j].mode, data |-> f[j].data, ents |-> f[j].ents,
                     to |-> f[j].to, atime |-> h[j].atime, mtime |-> h[j].mtime]
  <2>1. CASE j = i
    BY <1>1, <1>2, <1>3, <2>1
  <2>2. CASE j # i
    <3>1. h[j] = f[j]
      BY <1>3, <2>2
    <3>2. f[j] = [type |-> f[j].type, mode |-> f[j].mode, data |-> f[j].data, ents |-> f[j].ents,
                  to |-> f[j].to, atime |-> f[j].atime, mtime |-> f[j].mtime]
      BY InodeIs
    <3>. QED
      BY <3>1, <3>2
  <2>. QED
    BY <2>1, <2>2
<1>6. Retimed(h, f)
  BY <1>4, <1>5 DEF Retimed
<1>. QED
  BY <1>2, <1>3, <1>6 DEF h, inode, a, m

LEMMA TouchSourceKeeps ==
  ASSUME NEW p \in Proc, NEW others, TouchFrom(p, others), TouchSource(p)
  PROVE  TouchTo(p, others)
<1>. DEFINE me == proc[p]
            new == proc'[p]
            r == Stat(fs, me.cmd.ref)
<1>1. /\ Process(me) /\ TouchKept(before, fs, me, others) /\ me.pc = "main" /\ me.v = None
      /\ fs' = fs /\ Tree(fs) /\ Tree(before) /\ Grown(fs, before)
  BY DEF TouchFrom, TouchRuns, TouchSource, At, Silently
<1>2. PICK n \in 0 .. Len(me.cmd.operands) : TouchAt(before, fs, proc, me, n)
  BY DEF TouchFrom, TouchRuns
<1>3. PICK cmd, pc, ops, status, cut, stack, v :
        me = [cmd |-> cmd, pc |-> pc, ops |-> ops, status |-> status, cut |-> cut,
              stack |-> stack, v |-> v]
  BY <1>1 DEF Process
<1>4. new = IF Has(me, "r")
            THEN IF r = None THEN Goto(Failed(me), "exited")
                 ELSE Locals(me, [atime |-> fs[r].atime, mtime |-> fs[r].mtime])
            ELSE IF Has(me, "t") \/ Has(me, "d")
            THEN IF ParseTime(me.cmd) = BadTime THEN Goto(Failed(me), "exited")
                 ELSE Locals(me, [atime |-> "given", mtime |-> "given"])
            ELSE Locals(me, [atime |-> "now", mtime |-> "now"])
  BY DEF TouchFrom, TouchSource, Becomes
<1>5. new.cmd = me.cmd /\ Becomes(p, new)
  <2>1. \E x : Proceeds(me, x) /\ Becomes(p, x)
    BY <1>1, Keeps DEF TouchSource
  <2>. QED
    BY <2>1 DEF Becomes, TouchFrom, Proceeds
<1>6. Moved(fs, proc, fs', proc')
  BY <1>1, <1>5, MovesOn
<1>7. TouchRuns(before, fs', proc', new, others)
  <2>1. CASE new = Goto(Failed(me), "exited")
    <3>1. /\ new.cmd = me.cmd /\ new.ops = me.ops /\ new.v = me.v
          /\ new.pc = "exited" /\ new.status = 1
      BY <1>3, <2>1 DEF Goto, Failed
    <3>. HIDE DEF me, new
    <3>. QED
      BY <1>1, <1>2, <1>6, <3>1, TouchGoes
  <2>2. ASSUME NEW a, NEW m, new = Locals(me, [atime |-> a, mtime |-> m]),
               others = {} => Time([atime |-> a, mtime |-> m], "a") = Asked(before, me, "a"),
               others = {} => Time([atime |-> a, mtime |-> m], "m") = Asked(before, me, "m")
        PROVE  TouchRuns(before, fs', proc', new, others)
    <3>1. /\ new.cmd = me.cmd /\ new.ops = me.ops /\ new.pc = me.pc
          /\ new.v = [atime |-> a, mtime |-> m] /\ new.status = me.status
      BY <1>3, <2>2 DEF Locals
    <3>. HIDE DEF me, new
    <3>2. /\ \A x : (Has(new, x) <=> Has(me, x)) /\ (Sets(new, x) <=> Sets(me, x))
          /\ \A op : Touched(before, fs', proc', me, op) => Touched(before, fs', proc', new, op)
      BY <3>1, ByCommand
    <3>3. others = {} => Timed(before, new)
      <4>1. \A x : Asked(before, new, x) = Asked(before, me, x)
        BY <3>1 DEF Asked, Has
      <4>. QED
        BY <2>2, <3>1, <4>1 DEF Timed
    <3>4. TouchKept(before, fs', new, others)
      BY <1>1, <3>1, <3>2, <3>3 DEF TouchKept, InHand
    <3>5. \A k \in 1 .. n : new.cmd.operands[k] \in Paths
      BY <1>1, <3>1, OperandIs
    <3>6. \A op \in Paths : Touched(before, fs, proc, me, op) => Touched(before, fs', proc', new, op)
      BY <1>1, <1>6, <3>2, TouchedStays
    <3>7. ~ InHand(me) /\ ~ InHand(new)
      BY <1>1, <3>1 DEF InHand
    <3>8. TouchAt(before, fs', proc', new, n)
      BY <1>1, <1>2, <3>1, <3>5, <3>6, <3>7 DEF TouchAt
    <3>. QED
      BY <1>2, <3>1, <3>4, <3>8 DEF TouchRuns
  <2>3. others = {} => fs = before
    BY <1>1 DEF TouchKept
  <2>4. CASE Has(me, "r") /\ r # None
    <3>1. others = {} => \A x \in {"a", "m"} :
            Time([atime |-> fs[r].atime, mtime |-> fs[r].mtime], x) = Asked(before, me, x)
      BY <2>3, <2>4 DEF Asked, Time
    <3>. QED
      BY <1>4, <2>2, <2>4, <3>1
  <2>5. CASE ~ Has(me, "r") /\ (Has(me, "t") \/ Has(me, "d")) /\ ParseTime(me.cmd) # BadTime
    <3>1. \A x \in {"a", "m"} : Time([atime |-> "given", mtime |-> "given"], x) = Asked(before, me, x)
      BY <2>5 DEF Asked, Time
    <3>. QED
      BY <1>4, <2>2, <2>5, <3>1
  <2>6. CASE ~ Has(me, "r") /\ ~ (Has(me, "t") \/ Has(me, "d"))
    <3>1. \A x \in {"a", "m"} : Time([atime |-> "now", mtime |-> "now"], x) = Asked(before, me, x)
      BY <2>6 DEF Asked, Time
    <3>. QED
      BY <1>4, <2>2, <2>6, <3>1
  <2>. HIDE DEF r
  <2>. QED
    BY <1>4, <2>1, <2>4, <2>5, <2>6
<1>. QED
  BY <1>6, <1>7 DEF TouchTo

LEMMA TouchMainKeeps ==
  ASSUME NEW p \in Proc, NEW others, TouchFrom(p, others), TouchMain(p)
  PROVE  TouchTo(p, others)
<1>. DEFINE me == proc[p]
            new == proc'[p]
            ops == me.cmd.operands
<1>1. /\ Process(me) /\ TouchKept(before, fs, me, others) /\ me.pc = "main" /\ me.v # None
      /\ fs' = fs /\ Tree(fs) /\ ops \in Seq(Paths) /\ me.ops \in Seq(Paths)
      /\ Tree(before) /\ Grown(fs, before)
  BY DEF TouchFrom, TouchRuns, TouchMain, Operand, At, Silently, TouchKept
<1>2. PICK n \in 0 .. Len(ops) : TouchAt(before, fs, proc, me, n)
  BY DEF TouchFrom, TouchRuns
<1>3. PICK cmd, pc, mine, status, cut, stack, v :
        me = [cmd |-> cmd, pc |-> pc, ops |-> mine, status |-> status, cut |-> cut,
              stack |-> stack, v |-> v]
  BY <1>1 DEF Process
<1>. DEFINE op == Head(me.ops)
            left == Tail(me.ops)
<1>4. \/ me.ops = <<>> /\ new = Goto(me, "exited")
      \/ me.ops = <<>> /\ new = Goto(Failed(me), "exited")
      \/ me.ops # <<>> /\ new = Goto([[me EXCEPT !.ops = left] EXCEPT !.stack = op], "stat")
  BY DEF TouchFrom, TouchMain, Operand, Becomes, Taken, Current
<1>5. new.cmd = me.cmd /\ new.v = me.v /\ Becomes(p, new)
  <2>1. Becomes(p, new)
    BY DEF TouchFrom, TouchMain, Operand, Becomes
  <2>. HIDE DEF op, left
  <2>2. new.cmd = me.cmd /\ new.v = me.v
    BY <1>3, <1>4 DEF Goto, Failed
  <2>. QED
    BY <2>1, <2>2
<1>6. Moved(fs, proc, fs', proc')
  BY <1>1, <1>5, MovesOn
<1>7. CASE me.ops = <<>> /\ new = Goto(Failed(me), "exited")
  <2>1. new.ops = me.ops /\ new.pc = "exited" /\ new.status = 1
    BY <1>3, <1>7 DEF Goto, Failed
  <2>. HIDE DEF me, new
  <2>2. TouchRuns(before, fs', proc', new, others)
    BY <1>1, <1>2, <1>5, <1>6, <2>1, TouchGoes
  <2>. QED
    BY <1>6, <2>2 DEF TouchTo, new
<1>8. \A o \in Paths : Touched(before, fs, proc, me, o) => Touched(before, fs', proc', new, o)
  <2>. HIDE DEF me, new
  <2>1. \A o \in Paths : Touched(before, fs, proc, me, o) => Touched(before, fs', proc', me, o)
    BY <1>1, <1>6, TouchedStays
  <2>2. \A o : Touched(before, fs', proc', me, o) => Touched(before, fs', proc', new, o)
    BY <1>5, ByCommand
  <2>. QED
    BY <2>1, <2>2
<1>9. Timed(before, me) => Timed(before, new)
  <2>. HIDE DEF me, new
  <2>. QED
    BY <1>5, ByCommand
<1>10. (\A k \in 1 .. n : ops[k] \in Paths) /\ (\A k \in 1 .. Len(ops) : ops[k] \in Paths)
  BY <1>1, OperandIs
<1>11. CASE me.ops = <<>> /\ new = Goto(me, "exited")
  <2>1. new.ops = me.ops /\ new.pc = "exited" /\ new.status = me.status
    BY <1>3, <1>11 DEF Goto
  <2>. HIDE DEF me, new
  <2>2. TouchKept(before, fs', new, others)
    BY <1>1, <1>5, <1>9, <2>1 DEF TouchKept, InHand
  <2>3. TouchAt(before, fs', proc', new, n)
    BY <1>1, <1>2, <1>5, <1>8, <1>10, <1>11, <2>1 DEF TouchAt, InHand
  <2>. QED
    BY <1>2, <1>5, <1>6, <2>2, <2>3 DEF TouchTo, TouchRuns, new
<1>12. CASE me.ops # <<>> /\ new = Goto([[me EXCEPT !.ops = left] EXCEPT !.stack = op], "stat")
  <2>2. /\ new.ops = left /\ new.stack = op /\ new.pc = "stat" /\ new.status = me.status
    <3>. HIDE DEF op, left
    <3>. QED
      BY <1>3, <1>12 DEF Goto
  <2>3. /\ left \in Seq(Paths) /\ Len(left) = Len(me.ops) - 1 /\ Len(me.ops) \in Nat \ {0}
        /\ op = me.ops[1] /\ \A k \in 1 .. Len(left) : left[k] = me.ops[k + 1]
    BY <1>1, <1>12, HeadTailProperties, EmptySeq
  <2>. HIDE DEF me, new, op, left
  <2>6. TouchKept(before, fs', new, others)
    BY <1>1, <1>5, <1>9, <2>2, <2>3 DEF TouchKept, InHand
  <2>7. /\ n + Len(me.ops) = Len(ops)
        /\ \A k \in 1 .. Len(me.ops) : me.ops[k] = ops[n + k]
        /\ me.status = 0 => \A k \in 1 .. n : Touched(before, fs, proc, me, ops[k])
    BY <1>1, <1>2 DEF TouchAt, InHand
  <2>8. Len(ops) \in Nat /\ n \in Nat
    BY <1>1, LenProperties
  <2>9. n + 1 \in 0 .. Len(ops) /\ (n + 1) + Len(left) = Len(ops) /\ n + 1 # 0
    <3>. DEFINE len == Len(ops)
                mine_ == Len(me.ops)
                last == Len(left)
    <3>1. last = mine_ - 1 /\ mine_ \in Nat /\ mine_ # 0 /\ n + mine_ = len /\ len \in Nat /\ n \in Nat
      BY <2>3, <2>7, <2>8
    <3>. HIDE DEF len, mine_, last
    <3>2. n + 1 \in 0 .. len
      BY <3>1
    <3>3. (n + 1) + last = len
      BY <3>1
    <3>4. n + 1 # 0
      BY <3>1
    <3>. QED
      BY <3>2, <3>3, <3>4 DEF len, last
  <2>10. op = ops[n + 1]
    <3>1. 1 \in 1 .. Len(me.ops)
      BY <2>3
    <3>. QED
      BY <2>3, <2>7, <3>1
  <2>11. ASSUME NEW k \in 1 .. Len(left) PROVE left[k] = ops[(n + 1) + k]
    <3>. DEFINE last == Len(left)
    <3>1. last = Len(me.ops) - 1 /\ Len(me.ops) \in Nat \ {0} /\ k \in 1 .. last /\ n \in Nat
      BY <2>3, <2>8
    <3>. HIDE DEF last
    <3>2. k + 1 \in 1 .. Len(me.ops) /\ (n + 1) + k = n + (k + 1)
      BY <3>1
    <3>3. left[k] = me.ops[k + 1]
      BY <2>3
    <3>. QED
      BY <2>7, <3>2, <3>3
  <2>12. ASSUME me.status = 0, NEW k \in 1 .. n + 1
         PROVE  k = n + 1 \/ Touched(before, fs', proc', new, ops[k])
    <3>1. k = n + 1 \/ k \in 1 .. n
      BY <2>8
    <3>. QED
      BY <1>8, <1>10, <2>7, <2>12, <3>1
  <2>13. TouchAt(before, fs', proc', new, n + 1)
    BY <1>5, <2>2, <2>9, <2>10, <2>11, <2>12 DEF TouchAt, InHand, Holds
  <2>. QED
    BY <1>5, <1>6, <2>6, <2>9, <2>13 DEF TouchTo, TouchRuns, new
<1>. QED
  BY <1>4, <1>7, <1>11, <1>12

LEMMA TouchStatKeeps ==
  ASSUME NEW p \in Proc, NEW others, TouchFrom(p, others), TouchStat(p)
  PROVE  TouchTo(p, others)
<1>. DEFINE me == proc[p]
            new == proc'[p]
<1>1. /\ Process(me) /\ TouchKept(before, fs, me, others) /\ me.pc = "stat" /\ InHand(me)
      /\ fs' = fs /\ Tree(fs) /\ Tree(before) /\ Grown(fs, before) /\ me.v # None
  BY DEF TouchFrom, TouchRuns, TouchStat, At, Silently, InHand, TouchKept
<1>2. PICK n \in 0 .. Len(me.cmd.operands) : TouchAt(before, fs, proc, me, n)
  BY DEF TouchFrom, TouchRuns
<1>3. PICK cmd, pc, ops, status, cut, stack, v :
        me = [cmd |-> cmd, pc |-> pc, ops |-> ops, status |-> status, cut |-> cut,
              stack |-> stack, v |-> v]
  BY <1>1 DEF Process
<1>4. new = Goto(me, IF Stat(fs, me.stack) # None THEN "set"
                     ELSE IF Has(me, "c") THEN "main" ELSE "create")
  BY DEF TouchFrom, TouchStat, Becomes
<1>5. /\ new.cmd = me.cmd /\ new.ops = me.ops /\ new.stack = me.stack /\ new.v = me.v
      /\ new.status = me.status
      /\ new.pc = IF Stat(fs, me.stack) # None THEN "set"
                  ELSE IF Has(me, "c") THEN "main" ELSE "create"
  BY <1>3, <1>4 DEF Goto
<1>6. Becomes(p, new)
  BY DEF TouchFrom, TouchStat, Becomes
<1>7. Moved(fs, proc, fs', proc')
  BY <1>1, <1>5, <1>6, MovesOn
<1>. HIDE DEF me, new
<1>8. me.stack = me.cmd.operands[n]
  BY <1>1, <1>2 DEF TouchAt, Holds
<1>9. Stat(fs, me.stack) = None /\ Has(me, "c") => Touched(before, fs', proc', me, me.stack)
  BY <1>1 DEF Touched
<1>10. TouchRuns(before, fs', proc', new, others)
  BY <1>1, <1>2, <1>5, <1>7, <1>8, <1>9, TouchGoes DEF InHand, Holds
<1>. QED
  BY <1>7, <1>10 DEF TouchTo, new

\* The times of what is in hand are set.
LEMMA TimesKeep ==
  ASSUME NEW p \in Proc, NEW others, TouchFrom(p, others),
         TouchFutimens(p) \/ TouchSet(p)
  PROVE  TouchTo(p, others)
<1>. DEFINE me == proc[p]
            new == proc'[p]
<1>1. /\ Process(me) /\ TouchKept(before, fs, me, others) /\ InHand(me)
      /\ Tree(fs) /\ Tree(before) /\ Grown(fs, before) /\ me.v # None
      /\ me.pc = "futimens" \/ me.pc = "set"
  BY DEF TouchFrom, TouchRuns, TouchFutimens, TouchSet, At, InHand, TouchKept
<1>2. PICK n \in 0 .. Len(me.cmd.operands) : TouchAt(before, fs, proc, me, n)
  BY DEF TouchFrom, TouchRuns
<1>3. PICK cmd, pc, ops, status, cut, stack, v :
        me = [cmd |-> cmd, pc |-> pc, ops |-> ops, status |-> status, cut |-> cut,
              stack |-> stack, v |-> v]
  BY <1>1 DEF Process
<1>. DEFINE op == me.cmd.operands[n]
            i == Stat(fs, op)
            h == [fs EXCEPT ![i] = SetTimes(me, fs[i])]
<1>4. n # 0 /\ Holds(fs, me, op) /\ op \in Paths
  <2>1. n # 0 /\ Holds(fs, me, op)
    BY <1>1, <1>2 DEF TouchAt
  <2>. QED
    BY <1>1, <2>1, OperandIs
<1>5. \/ fs' = fs /\ new = Goto(Failed(me), "main")
      \/ i # None /\ fs' = h /\ new = Goto(me, "main")
  <2>1. CASE TouchFutimens(p)
    <3>1. me.stack = i /\ i # None
      BY <1>4, <2>1 DEF TouchFutimens, At, Holds
    <3>. QED
      BY <2>1, <3>1 DEF TouchFutimens, TouchTimes, TouchFrom, Becomes
  <2>2. CASE TouchSet(p)
    <3>1. me.stack = op
      BY <1>4, <2>2 DEF TouchSet, At, Holds
    <3>. QED
      BY <2>2, <3>1 DEF TouchSet, TouchTimes, TouchFrom, Becomes
  <2>. QED
    BY <2>1, <2>2
<1>6. Becomes(p, new)
  BY DEF TouchFutimens, TouchSet, TouchTimes, TouchFrom, Becomes
<1>7. new.cmd = me.cmd /\ new.ops = me.ops /\ new.v = me.v /\ new.pc = "main"
  <2>. HIDE DEF h, i
  <2>. QED
    BY <1>3, <1>5 DEF Goto, Failed
<1>8. CASE fs' = fs /\ new = Goto(Failed(me), "main")
  <2>1. new.status = 1
    BY <1>3, <1>8 DEF Goto, Failed
  <2>2. Moved(fs, proc, fs', proc')
    BY <1>6, <1>7, <1>8, MovesOn
  <2>. HIDE DEF me, new
  <2>3. TouchRuns(before, fs', proc', new, others)
    BY <1>1, <1>2, <1>7, <2>1, <2>2, TouchGoes
  <2>. QED
    BY <2>2, <2>3 DEF TouchTo, new
<1>9. CASE i # None /\ fs' = h /\ new = Goto(me, "main")
  <2>1. new.status = me.status
    BY <1>3, <1>9 DEF Goto
  <2>2. i \in DOMAIN fs
    BY <1>1, <1>4, <1>9, StatIs
  <2>3. /\ Retimed(h, fs)
        /\ h[i].atime = IF Sets(me, "a") THEN me.v.atime ELSE fs[i].atime
        /\ h[i].mtime = IF Sets(me, "m") THEN me.v.mtime ELSE fs[i].mtime
        /\ \A j \in DOMAIN fs \ {i} : h[j] = fs[j]
    <3>. HIDE DEF me, i
    <3>. QED
      BY <1>1, <2>2, Retimes
  <2>. HIDE DEF h
  <2>4. Tree(h) /\ Grown(h, fs) /\ DOMAIN h = DOMAIN fs
    BY <1>1, <2>3, RetimedGrows DEF Retimed
  <2>5. Stat(h, op) = i
    BY <1>1, <1>4, <1>9, <2>4, StatGrown
  <2>6. /\ DOMAIN proc' = DOMAIN proc /\ DOMAIN proc = Proc
        /\ \A q \in Proc \ {p} : proc'[q] = proc[q]
    BY <1>6 DEF TouchFrom, Becomes
  <2>7. ASSUME NEW x \in {"a", "m"}, Sets(me, x) PROVE Gift(h, proc', i, x, Time(me.v, x))
    <3>1. proc'[p].cmd.prog = "touch" /\ proc'[p].v # None /\ proc'[p].v = me.v /\ p \in DOMAIN proc'
      BY <1>1, <1>7, <2>6 DEF TouchFrom
    <3>2. Sets(proc'[p], x)
      BY <1>7, <2>7 DEF Sets, Has
    <3>3. op \in Range(proc'[p].cmd.operands)
      <4>. DEFINE all == me.cmd.operands
      <4>1. all \in Seq(Paths) /\ proc'[p].cmd.operands = all
        BY <1>1, <1>7 DEF TouchKept
      <4>2. n \in 1 .. Len(all)
        <5>. HIDE DEF me
        <5>. QED
          BY <1>1, <1>4, OperandIs
      <4>. HIDE DEF all
      <4>3. n \in DOMAIN all /\ op = all[n]
        BY <4>1, <4>2, LenProperties DEF all
      <4>. QED
        BY <4>1, <4>3 DEF Range
    <3>. HIDE DEF me, op, i
    <3>. QED
      BY <2>5, <3>1, <3>2, <3>3 DEF Gift
  <2>8. ASSUME NEW x \in {"a", "m"}
        PROVE  Time(h[i], x) = IF Sets(me, x) THEN Time(me.v, x) ELSE Time(fs[i], x)
    BY <2>3 DEF Time
  <2>9. Gifted(h, proc', me, i)
    BY <2>7, <2>8 DEF Gifted
  <2>10. Moved(fs, proc, fs', proc')
    <3>1. ASSUME NEW j \in DOMAIN fs, NEW x \in {"a", "m"}
          PROVE  Time(h[j], x) = Time(fs[j], x) \/ Gift(h, proc', j, x, Time(h[j], x))
      <4>1. CASE j # i
        BY <2>3, <4>1
      <4>2. CASE j = i
        BY <2>7, <2>8, <4>2
      <4>. QED
        BY <4>1, <4>2
    <3>2. ASSUME NEW q \in Proc
          PROVE  /\ proc'[q].cmd = proc[q].cmd
                 /\ proc[q].v # None => proc'[q].v = proc[q].v
                 /\ proc[q].cmd.prog = "touch" => proc[q].cmd.operands \in Seq(Paths)
      BY <1>7, <2>6 DEF TouchFrom
    <3>3. Moved(fs, proc, h, proc')
      BY <1>1, <2>4, <2>6, <3>1, <3>2 DEF Moved
    <3>. QED
      BY <1>9, <3>3
  <2>11. Touched(before, fs', proc', me, op)
    BY <1>9, <2>5, <2>9 DEF Touched
  <2>. HIDE DEF me, new
  <2>12. TouchRuns(before, fs', proc', new, others)
    BY <1>1, <1>2, <1>7, <2>1, <2>10, <2>11, TouchGoes DEF op
  <2>. QED
    BY <2>10, <2>12 DEF TouchTo, new
<1>. HIDE DEF me, new, op, i, h
<1>. QED
  BY <1>5, <1>8, <1>9

\* What is in hand is opened, or made.
LEMMA TouchCreateKeeps ==
  ASSUME NEW p \in Proc, NEW others, TouchFrom(p, others), TouchCreate(p)
  PROVE  TouchTo(p, others)
<1>. DEFINE me == proc[p]
            new == proc'[p]
            mode == {"ur", "uw", "gr", "gw", "or", "ow"} \ me.cmd.umask
            inode == [type |-> "reg", mode |-> mode, data |-> <<>>, ents |-> NoEnts, to |-> <<>>,
                      atime |-> "now", mtime |-> "now"]
<1>1. /\ Process(me) /\ TouchKept(before, fs, me, others) /\ InHand(me) /\ me.pc = "create"
      /\ Tree(fs) /\ Tree(before) /\ Grown(fs, before) /\ me.v # None
  BY DEF TouchFrom, TouchRuns, TouchCreate, At, InHand, TouchKept
<1>2. PICK n \in 0 .. Len(me.cmd.operands) : TouchAt(before, fs, proc, me, n)
  BY DEF TouchFrom, TouchRuns
<1>3. PICK cmd, pc, ops, status, cut, stack, v :
        me = [cmd |-> cmd, pc |-> pc, ops |-> ops, status |-> status, cut |-> cut,
              stack |-> stack, v |-> v]
  BY <1>1 DEF Process
<1>. DEFINE op == me.cmd.operands[n]
            i == Stat(fs, op)
            h == Make(fs, op, TRUE, inode)
            opened(j) == Goto([me EXCEPT !.stack = j], "futimens")
<1>4. n # 0 /\ me.stack = op /\ op \in Paths
  <2>1. n # 0 /\ Holds(fs, me, op)
    BY <1>1, <1>2 DEF TouchAt
  <2>. QED
    BY <1>1, <2>1, OperandIs DEF Holds
<1>5. \/ fs' = fs /\ new = Goto(Failed(me), "main")
      \/ i # None /\ fs' = fs /\ new = opened(i)
      \/ CanMake(fs, op, TRUE) /\ fs' = h /\ new = opened(Fresh(fs))
  <2>. DEFINE fresh == [Regular(mode, <<>>) EXCEPT !.atime = "now", !.mtime = "now"]
  <2>1. fresh = inode
    <3>. DEFINE old == Regular(mode, <<>>)
                half == [old EXCEPT !.atime = "now"]
    <3>1. old = [type |-> "reg", mode |-> mode, data |-> <<>>, ents |-> NoEnts, to |-> <<>>,
                 atime |-> "old", mtime |-> "old"]
      BY DEF Regular, Inode
    <3>. HIDE DEF mode, old
    <3>2. half = [type |-> "reg", mode |-> mode, data |-> <<>>, ents |-> NoEnts, to |-> <<>>,
                  atime |-> "now", mtime |-> "old"]
      BY <3>1
    <3>3. fresh = [half EXCEPT !.mtime = "now"]
      BY DEF old
    <3>. HIDE DEF half, fresh
    <3>4. [half EXCEPT !.mtime = "now"] =
            [type |-> "reg", mode |-> mode, data |-> <<>>, ents |-> NoEnts, to |-> <<>>,
             atime |-> "now", mtime |-> "now"]
      BY <3>2
    <3>. QED
      BY <3>3, <3>4
  <2>. HIDE DEF inode
  <2>2. OpenWrite(fs, op) # None => OpenWrite(fs, op) = i
    BY DEF OpenWrite
  <2>. QED
    BY <1>4, <2>1, <2>2 DEF TouchFrom, TouchCreate, Becomes
<1>6. Becomes(p, new)
  BY DEF TouchCreate, TouchFrom, Becomes
<1>7. new.cmd = me.cmd /\ new.ops = me.ops /\ new.v = me.v
  <2>. HIDE DEF i, h
  <2>. QED
    BY <1>3, <1>5 DEF Goto, Failed
<1>8. CASE fs' = fs /\ new = Goto(Failed(me), "main")
  <2>1. new.status = 1 /\ new.pc = "main"
    BY <1>3, <1>8 DEF Goto, Failed
  <2>2. Moved(fs, proc, fs', proc')
    BY <1>6, <1>7, <1>8, MovesOn
  <2>. HIDE DEF me, new
  <2>3. TouchRuns(before, fs', proc', new, others)
    BY <1>1, <1>2, <1>7, <2>1, <2>2, TouchGoes
  <2>. QED
    BY <2>2, <2>3 DEF TouchTo, new
<1>9. ASSUME NEW j, new = opened(j), j # None, j = Stat(fs', op), Moved(fs, proc, fs', proc')
      PROVE  TouchTo(p, others)
  <2>1. new.pc = "futimens" /\ new.stack = j /\ new.status = me.status
    BY <1>3, <1>9 DEF Goto
  <2>2. InHand(new) /\ Holds(fs', new, op)
    BY <1>9, <2>1 DEF InHand, Holds
  <2>. HIDE DEF me, new
  <2>3. TouchRuns(before, fs', proc', new, others)
    BY <1>1, <1>2, <1>7, <1>9, <2>1, <2>2, TouchGoes DEF op
  <2>. QED
    BY <1>9, <2>3 DEF TouchTo, new
<1>10. CASE i # None /\ fs' = fs /\ new = opened(i)
  <2>1. Moved(fs, proc, fs', proc')
    BY <1>6, <1>7, <1>10, MovesOn
  <2>2. i = Stat(fs', op)
    BY <1>10
  <2>. HIDE DEF i
  <2>. QED
    BY <1>9, <1>10, <2>1, <2>2
<1>11. CASE CanMake(fs, op, TRUE) /\ fs' = h /\ new = opened(Fresh(fs))
  <2>1. /\ Tree(h) /\ Grown(h, fs) /\ Stat(h, op) \in DOMAIN h \ DOMAIN fs
        /\ \A j \in DOMAIN fs : h[j].atime = fs[j].atime /\ h[j].mtime = fs[j].mtime
    <3>1. Tree(fs) /\ op \in Paths /\ CanMake(fs, op, TRUE)
      BY <1>1, <1>4, <1>11
    <3>. HIDE DEF me, mode, op
    <3>. QED
      BY <3>1, MadeThere
  <2>2. DOMAIN h = DOMAIN fs \union {Fresh(fs)} /\ h[Fresh(fs)] = inode
    <3>. HIDE DEF inode
    <3>. QED
      BY DEF Make, Added
  <2>. HIDE DEF h
  <2>3. Stat(h, op) = Fresh(fs) /\ Fresh(fs) # None
    BY <2>1, <2>2, TreeIs
  <2>4. h[Fresh(fs)].atime = "now" /\ h[Fresh(fs)].mtime = "now"
    <3>. HIDE DEF mode
    <3>. QED
      BY <2>2
  <2>5. Moved(fs, proc, fs', proc')
    <3>1. /\ DOMAIN proc' = DOMAIN proc /\ DOMAIN proc = Proc
          /\ \A q \in Proc \ {p} : proc'[q] = proc[q]
      BY <1>6 DEF TouchFrom, Becomes
    <3>2. ASSUME NEW q \in Proc
          PROVE  /\ proc'[q].cmd = proc[q].cmd
                 /\ proc[q].v # None => proc'[q].v = proc[q].v
                 /\ proc[q].cmd.prog = "touch" => proc[q].cmd.operands \in Seq(Paths)
      BY <1>7, <3>1 DEF TouchFrom
    <3>3. \A j \in DOMAIN fs, x \in {"a", "m"} : Time(h[j], x) = Time(fs[j], x)
      BY <2>1 DEF Time
    <3>4. \A j \in DOMAIN h \ DOMAIN fs, x \in {"a", "m"} : Time(h[j], x) = "now"
      BY <2>2, <2>4 DEF Time
    <3>5. Moved(fs, proc, h, proc')
      BY <1>1, <2>1, <3>1, <3>2, <3>3, <3>4 DEF Moved
    <3>. QED
      BY <1>11, <3>5
  <2>. DEFINE j == Fresh(fs)
  <2>6. j = Stat(fs', op) /\ j # None /\ new = opened(j)
    BY <1>11, <2>3
  <2>. HIDE DEF j, op, me, new
  <2>. QED
    BY <1>9, <2>5, <2>6
<1>. HIDE DEF me, new, op, i, h
<1>. QED
  BY <1>5, <1>8, <1>10, <1>11

LEMMA InitTouch == Init => TouchInv
<1>1. SUFFICES ASSUME Init, Shape
               PROVE  /\ Tree(fs) /\ Grown(fs, before) /\ TimesAll(fs, proc)
                      /\ \A p \in Proc : proc[p].cmd.prog = "touch" =>
                           TouchRuns(before, fs, proc, proc[p], Others(p))
  BY InitShape DEF TouchInv
<1>2. PICK s \in Sessions : proc = [q \in Proc |-> Start(s[q])]
  BY <1>1 DEF Init
<1>3. Tree(fs) /\ Grown(fs, before) /\ fs = before
  BY <1>1, GrownSelf, FilesAssumption DEF Init
<1>4. TimesAll(fs, proc)
  BY <1>3 DEF TimesAll, OldTime
<1>5. ASSUME NEW p \in Proc, proc[p].cmd.prog = "touch"
      PROVE  TouchRuns(before, fs, proc, proc[p], Others(p))
  <2>. DEFINE me == proc[p]
              ops == me.cmd.operands
  <2>1. me.cmd = s[p] /\ me.ops = ops /\ me.pc = "main" /\ me.v = None
    BY <1>2, <1>5 DEF Start
  <2>2. ops \in Seq(Paths)
    BY <2>1, FilesAssumption
  <2>3. Len(ops) \in Nat
    BY <2>2, LenProperties
  <2>. HIDE DEF me, ops
  <2>4. TouchKept(before, fs, me, Others(p))
    BY <1>3, <2>1, <2>2 DEF TouchKept, InHand, ops
  <2>5. TouchAt(before, fs, proc, me, 0)
    <3>1. \A k \in 1 .. Len(ops) : ops[k] = ops[0 + k]
      BY <2>3
    <3>2. 0 + Len(ops) = Len(ops) /\ 1 .. 0 = {}
      BY <2>3
    <3>. QED
      BY <2>1, <3>1, <3>2 DEF TouchAt, InHand, ops
  <2>6. 0 \in 0 .. Len(ops)
    BY <2>3
  <2>. QED
    BY <2>4, <2>5, <2>6 DEF TouchRuns, me, ops
<1>. QED
  BY <1>3, <1>4, <1>5

LEMMA StepTouch == TouchInv /\ [Next]_vars => TouchInv'
<1>. SUFFICES ASSUME TouchInv, [Next]_vars PROVE TouchInv'
  OBVIOUS
<1>1. CASE UNCHANGED vars
  BY <1>1 DEF vars, TouchInv, TouchOnly, Shape, Running, Others, TimesAll, OldTime
<1>2. ASSUME NEW q \in Proc, Step(q) PROVE TouchInv'
  <2>1. OfProcess(q) /\ Shape' /\ Shape
    BY <1>2, StepShape DEF TouchInv
  <2>2. /\ \A r \in Proc : proc'[r].cmd = proc[r].cmd
        /\ before' = before /\ proc[q].cmd.prog # "idle"
        /\ \A r \in Proc \ {q} : proc'[r] = proc[r]
        /\ proc[q].cmd.prog = "touch" => TouchStep(q)
        /\ DOMAIN proc = Proc /\ \A r \in Proc : Process(proc[r])
    BY <2>1 DEF OfProcess, Shape, Running
  <2>3. SUFFICES ASSUME TouchOnly'
                 PROVE  /\ Tree(fs') /\ Grown(fs', before) /\ TimesAll(fs', proc')
                        /\ \A p \in Proc : proc'[p].cmd.prog = "touch" =>
                             TouchRuns(before, fs', proc', proc'[p], Others(p)')
    BY <2>1, <2>2 DEF TouchInv, TimesAll, OldTime
  <2>4. TouchOnly /\ \A p \in Proc : Others(p)' = Others(p)
    BY <2>2, <2>3 DEF TouchOnly, Others
  <2>5. /\ Tree(fs) /\ Grown(fs, before) /\ TimesAll(fs, proc)
        /\ \A p \in Proc : proc[p].cmd.prog = "touch" =>
             TouchRuns(before, fs, proc, proc[p], Others(p))
    BY <2>4 DEF TouchInv
  <2>6. proc[q].cmd.prog = "touch" /\ TouchStep(q)
    BY <2>2, <2>4 DEF TouchOnly
  <2>7. Tree(before)
    BY <2>1, FilesAssumption DEF Shape
  <2>8. \A r \in Proc : proc[r].cmd.operands \in Seq(Paths)
    <3>1. PICK s \in Sessions : Running(s)
      BY <2>1 DEF Shape
    <3>. QED
      BY <3>1, FilesAssumption DEF Running
  <2>9. TouchFrom(q, Others(q))
    BY <2>2, <2>5, <2>6, <2>7, <2>8 DEF TouchFrom
  <2>10. TouchTo(q, Others(q))
    BY <2>6, <2>9, TouchSourceKeeps, TouchMainKeeps, TouchStatKeeps, TouchCreateKeeps, TimesKeep
    DEF TouchStep
  <2>11. Moved(fs, proc, fs', proc') /\ Tree(fs') /\ Grown(fs', fs)
    BY <2>10 DEF TouchTo, Moved
  <2>12. Grown(fs', before)
    BY <2>5, <2>11, GrownMore
  <2>13. TimesAll(fs', proc')
    BY <2>5, <2>11, TimesStay DEF Grown
  <2>14. ASSUME NEW p \in Proc, proc'[p].cmd.prog = "touch"
         PROVE  TouchRuns(before, fs', proc', proc'[p], Others(p)')
    <3>1. CASE p = q
      BY <2>4, <2>10, <3>1 DEF TouchTo
    <3>2. CASE p # q
      <4>1. proc'[p] = proc[p] /\ Others(p)' = Others(p) /\ q \in Others(p)
        BY <2>2, <2>4, <3>2 DEF Others
      <4>2. TouchRuns(before, fs, proc, proc[p], Others(p)) /\ Others(p) # {}
        BY <2>5, <2>14, <4>1
      <4>3. TouchRuns(before, fs', proc', proc[p], Others(p))
        BY <2>5, <2>7, <2>11, <4>2, TouchBeside
      <4>. QED
        BY <4>1, <4>3
    <3>. QED
      BY <3>1, <3>2
  <2>. QED
    BY <2>11, <2>12, <2>13, <2>14
<1>. QED
  BY <1>1, <1>2 DEF Next

(* After exit status 0 of a touch, with other touches or alone, every       *)
(* operand is there, unless -c did not find it, its contents untouched; a   *)
(* time that was to be set, of an old file or of a new one, is the one that *)
(* was asked for or that another touch of the file set, and a time that was *)
(* to be left is the old one or that of another (touch.c:229-281).          *)
THEOREM TouchTouchesAll == Spec => []TouchDone
<1>1. TouchInv => TouchDone
  <2>1. SUFFICES ASSUME TouchInv, \A q \in DOMAIN proc : proc[q].cmd.prog \in {"touch", "idle"},
                        NEW p \in DOMAIN proc, Exited(p, "touch"), proc[p].status = 0,
                        NEW op \in Range(proc[p].cmd.operands)
                 PROVE  LET i == Stat(fs, op)
                            me == proc[p]
                        IN  /\ Stat(before, op) # None => i # None
                            /\ i = None => Has(me, "c")
                            /\ i # None /\ (Has(me, "c") => Stat(before, op) # None) =>
                                 /\ i \in DOMAIN before => fs[i].data = before[i].data
                                 /\ \A x \in {"a", "m"} :
                                      /\ Time(fs[i], x) \in
                                           Given(i, x) \union (IF Sets(me, x) THEN {} ELSE {OldTime(i, x)})
                                      /\ Alone(p) => Time(fs[i], x) = Expected(me, x, OldTime(i, x))
    BY DEF TouchDone
  <2>. DEFINE me == proc[p]
              i == Stat(fs, op)
              ops == me.cmd.operands
  <2>2. p \in Proc /\ DOMAIN proc = Proc /\ Tree(before)
    BY <2>1, FilesAssumption DEF TouchInv, Shape, Running
  <2>3. Tree(fs) /\ Grown(fs, before) /\ TimesAll(fs, proc) /\ TouchRuns(before, fs, proc, me, Others(p))
    BY <2>1, <2>2 DEF TouchInv, TouchOnly, Exited, At
  <2>4. PICK n \in 0 .. Len(ops) : TouchAt(before, fs, proc, me, n)
    BY <2>3 DEF TouchRuns
  <2>5. ops \in Seq(Paths) /\ Len(ops) \in Nat /\ Range(ops) = {ops[k] : k \in 1 .. Len(ops)}
    <3>1. ops \in Seq(Paths)
      BY <2>3 DEF TouchRuns, TouchKept
    <3>2. DOMAIN ops = 1 .. Len(ops)
      BY <3>1, LenProperties
    <3>. QED
      BY <3>1, <3>2, LenProperties DEF Range
  <2>6. n = Len(ops)
    <3>1. me.ops = <<>> /\ n + Len(me.ops) = Len(ops)
      BY <2>1, <2>4 DEF TouchAt, Exited, At
    <3>2. Len(me.ops) = 0
      BY <3>1, EmptySeq
    <3>. QED
      BY <2>5, <3>1, <3>2
  <2>7. ~ InHand(me)
    BY <2>1 DEF InHand, Exited, At
  <2>8. PICK k \in 1 .. Len(ops) : op = ops[k]
    BY <2>1, <2>5
  <2>9. Touched(before, fs, proc, me, op) /\ op \in Paths
    <3>1. Touched(before, fs, proc, me, ops[k])
      BY <2>1, <2>4, <2>6, <2>7, <2>8 DEF TouchAt
    <3>2. ops[k] \in Paths
      BY <2>5, <2>8, ElementOfSeq
    <3>. QED
      BY <2>8, <3>1, <3>2
  <2>10. Stat(before, op) # None => i # None
    BY <2>2, <2>3, <2>9, StatGrown
  <2>11. i = None => Has(me, "c")
    BY <2>9 DEF Touched
  <2>12. i \in DOMAIN before => fs[i].data = before[i].data
    BY <2>3 DEF Grown
  <2>13. ASSUME i # None, Has(me, "c") => Stat(before, op) # None, NEW x \in {"a", "m"}
         PROVE  /\ Time(fs[i], x) \in Given(i, x) \union (IF Sets(me, x) THEN {} ELSE {OldTime(i, x)})
                /\ Alone(p) => Time(fs[i], x) = Expected(me, x, OldTime(i, x))
    <3>. DEFINE t == Time(fs[i], x)
    <3>1. i \in DOMAIN fs
      BY <2>3, <2>9, <2>13, StatIs
    <3>2. Sets(me, x) => Gift(fs, proc, i, x, t)
      BY <2>9, <2>13 DEF Touched, Gifted
    <3>3. t = OldTime(i, x) \/ Gift(fs, proc, i, x, t)
      BY <2>3, <3>1 DEF TimesAll
    <3>. HIDE DEF t, i, me
    <3>4. Gift(fs, proc, i, x, t) => t \in Given(i, x)
      BY DEF Gift, Given, Givers
    <3>5. t \in Given(i, x) \union (IF Sets(me, x) THEN {} ELSE {OldTime(i, x)})
      BY <3>2, <3>3, <3>4
    <3>6. ASSUME Alone(p) PROVE t = Expected(me, x, OldTime(i, x))
      <4>1. Others(p) = {}
        BY <2>2, <3>6 DEF Alone, Others
      <4>2. ASSUME Gift(fs, proc, i, x, t) PROVE Sets(me, x) /\ t = Time(me.v, x) /\ me.v # None
        <5>1. PICK q \in DOMAIN proc : /\ proc[q].cmd.prog = "touch" /\ proc[q].v # None
                                       /\ Sets(proc[q], x) /\ t = Time(proc[q].v, x)
          BY <4>2 DEF Gift
        <5>2. q = p
          BY <3>6, <5>1 DEF Alone
        <5>. QED
          BY <5>1, <5>2 DEF me
      <4>3. me.v # None => Timed(before, me)
        BY <2>3, <4>1 DEF TouchRuns, TouchKept
      <4>4. CASE Sets(me, x)
        <5>1. t = Asked(before, me, x)
          BY <3>2, <4>2, <4>3, <4>4 DEF Timed
        <5>. QED
          BY <4>4, <5>1 DEF Expected, Asked
      <4>5. CASE ~ Sets(me, x)
        BY <3>3, <4>2, <4>5 DEF Expected
      <4>. QED
        BY <4>4, <4>5
    <3>. QED
      BY <3>5, <3>6 DEF t
  <2>. HIDE DEF me, i
  <2>. QED
    BY <2>10, <2>11, <2>12, <2>13 DEF me, i
<1>. QED
  BY <1>1, InitTouch, StepTouch, PTL DEF Spec
=============================================================================
