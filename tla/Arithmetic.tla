---------------------------- MODULE Arithmetic -----------------------------
(***************************************************************************)
(* What the proofs of several components need to know of numbers and       *)
(* sequences: that a search stops, what rounding to a size does, how to    *)
(* prove by induction, that a function may be defined by recursion, and    *)
(* what one sequence after the other is.                                   *)
(***************************************************************************)
EXTENDS SequencesExt, FiniteSetTheorems, SequenceTheorems, WellFoundedInduction, TLAPS

\* Some of the first numbers have a least one among them.
LEMMA LeastExists ==
  ASSUME NEW n \in Nat, NEW S \in SUBSET (0 .. n), S # {}
  PROVE  \E x \in S : \A y \in S : x <= y
<1>. DEFINE N == 0 .. n
            Up == {0 .. x : x \in S}
            R == StrictSubsetOrdering(N)
<1>1. IsFiniteSet(N)
  BY FS_Interval
<1>2. IsWellFoundedOn(R, SUBSET N)
  BY <1>1, FS_StrictSubsetOrderingWellFounded, FS_FiniteSubsetsOfFinite
<1>3. Up \subseteq SUBSET N /\ Up # {}
  <2>1. \A x \in S : 0 .. x \in SUBSET N
    OBVIOUS
  <2>. QED
    BY <2>1
<1>. HIDE DEF R, Up
<1>4. PICK T \in Up : \A U \in Up : ~ (<<U, T>> \in R)
  BY <1>2, <1>3, WFMin
<1>5. PICK x \in S : T = 0 .. x
  BY <1>4 DEF Up
<1>6. ASSUME NEW y \in S, y < x
      PROVE  FALSE
  <2>1. 0 .. y \in Up /\ 0 .. y \in SUBSET N /\ 0 .. x \in SUBSET N
    BY DEF Up
  <2>2. 0 .. y \subseteq 0 .. x /\ x \in 0 .. x /\ x \notin 0 .. y
    BY <1>6
  <2>3. <<0 .. y, 0 .. x>> \in R
    BY <2>1, <2>2 DEF R, StrictSubsetOrdering
  <2>. QED
    BY <1>4, <1>5, <2>1, <2>3
<1>. QED
  BY <1>6

\* Finitely many numbers have a greatest one among them.
LEMMA GreatestExists ==
  ASSUME NEW S \in SUBSET Nat, IsFiniteSet(S), S # {}
  PROVE  \E x \in S : \A y \in S : y <= x
<1>. DEFINE Above(x) == {y \in S : x < y}
            Family == {Above(x) : x \in S}
            R == StrictSubsetOrdering(S)
<1>1. IsWellFoundedOn(R, SUBSET S)
  BY FS_StrictSubsetOrderingWellFounded, FS_FiniteSubsetsOfFinite
<1>2. Family \subseteq SUBSET S /\ Family # {}
  <2>1. \A x \in S : Above(x) \in SUBSET S
    OBVIOUS
  <2>. QED
    BY <2>1
<1>. HIDE DEF R, Family
<1>3. PICK T \in Family : \A U \in Family : ~ (<<U, T>> \in R)
  BY <1>1, <1>2, WFMin
<1>4. PICK x \in S : T = Above(x)
  BY <1>3 DEF Family
<1>5. ASSUME NEW y \in S, x < y
      PROVE  FALSE
  <2>1. Above(y) \in Family /\ Above(y) \in SUBSET S /\ Above(x) \in SUBSET S
    BY DEF Family
  <2>2. Above(y) \subseteq Above(x) /\ y \in Above(x) /\ y \notin Above(y)
    <3>1. x \in Nat /\ y \in Nat /\ \A z \in S : z \in Nat
      OBVIOUS
    <3>2. \A z \in S : y < z => x < z
      BY <1>5, <3>1
    <3>3. ~(y < y)
      BY <3>1
    <3>. QED
      BY <1>5, <3>2, <3>3
  <2>. HIDE DEF Above
  <2>3. <<Above(y), Above(x)>> \in R
    BY <2>1, <2>2 DEF R, StrictSubsetOrdering
  <2>. QED
    BY <1>3, <1>4, <2>1, <2>3
<1>. QED
  BY <1>5

\* Division rounds down, by less than the divisor.
LEMMA Division ==
  ASSUME NEW m \in Nat \ {0}, NEW x \in Nat
  PROVE  /\ x \div m \in Nat /\ x % m \in 0 .. m - 1
         /\ x = m * (x \div m) + (x % m)
         /\ m * (x \div m) <= x /\ x < m * (x \div m) + m
<1>. DEFINE q == x \div m
            r == x % m
<1>1. q \in Nat
  OBVIOUS
<1>2. r \in 0 .. m - 1
  OBVIOUS
<1>3. x = m * q + r
  OBVIOUS
<1>4. m * q \in Int
  BY <1>1
<1>5. m * q <= x /\ x < m * q + m
  <2>. HIDE DEF q, r
  <2>. QED
    BY <1>2, <1>3, <1>4
<1>. QED
  BY <1>1, <1>2, <1>3, <1>5

\* Products with the same factor are in the order of the others.
LEMMA Factors ==
  ASSUME NEW m \in Nat \ {0}, NEW a \in Int, NEW b \in Int
  PROVE  m * a < m * b => a < b
<1>1. SUFFICES ASSUME a >= b PROVE m * a >= m * b
  OBVIOUS
<1>. QED
  BY <1>1

\* Quotient and remainder are unique.
LEMMA Remainder ==
  ASSUME NEW m \in Nat \ {0}, NEW k \in Nat, NEW r \in 0 .. m - 1
  PROVE  (m * k + r) % m = r /\ (m * k + r) \div m = k
<1>. DEFINE x == m * k + r
            q == x \div m
            s == x % m
<1>1. x \in Nat
  OBVIOUS
<1>2. q \in Nat /\ s \in 0 .. m - 1 /\ x = m * q + s
  BY <1>1, Division
<1>. HIDE DEF q, s
<1>3. ASSUME q > k PROVE FALSE
  <2>1. m * q >= m * (k + 1) /\ m * (k + 1) = m * k + m
    BY <1>2, <1>3
  <2>. QED
    BY <1>2, <2>1
<1>4. ASSUME q < k PROVE FALSE
  <2>1. m * k >= m * (q + 1) /\ m * (q + 1) = m * q + m
    BY <1>2, <1>4
  <2>. QED
    BY <1>2, <2>1
<1>5. q = k
  BY <1>2, <1>3, <1>4
<1>6. s = r
  BY <1>2, <1>5
<1>. QED
  BY <1>5, <1>6 DEF q, s

\* Sums of multiples are multiples.
LEMMA Multiples ==
  ASSUME NEW m \in Nat \ {0}, NEW a \in Nat, NEW b \in Nat, a % m = 0, b % m = 0
  PROVE  (a + b) % m = 0
<1>1. a = m * (a \div m) /\ b = m * (b \div m) /\ a \div m \in Nat /\ b \div m \in Nat
  BY Division
<1>. DEFINE k == (a \div m) + (b \div m)
<1>2. k \in Nat /\ a + b = m * k + 0
  BY <1>1
<1>3. 0 \in 0 .. m - 1
  OBVIOUS
<1>. HIDE DEF k
<1>4. (m * k + 0) % m = 0
  BY <1>2, <1>3, Remainder
<1>. QED
  BY <1>2, <1>4

-----------------------------------------------------------------------------
\* A set of numbers with 0, and with n + 1 if it has n, has every number.
LEMMA Induction ==
  ASSUME NEW S \in SUBSET Nat, 0 \in S, \A n \in S : n + 1 \in S
  PROVE  S = Nat
<1>1. SUFFICES ASSUME NEW n \in Nat, n \notin S PROVE FALSE
  OBVIOUS
<1>2. PICK m \in (0 .. n) \ S : \A k \in (0 .. n) \ S : m <= k
  <2>. DEFINE T == (0 .. n) \ S
  <2>1. T \in SUBSET (0 .. n) /\ T # {}
    BY <1>1
  <2>. HIDE DEF T
  <2>2. \E m \in T : \A k \in T : m <= k
    BY <2>1, LeastExists
  <2>. QED
    BY <2>2 DEF T
<1>3. m # 0 /\ m - 1 \in 0 .. n /\ m - 1 < m
  BY <1>2
<1>4. m - 1 \in S
  BY <1>2, <1>3
<1>. QED
  BY <1>2, <1>4

\* The same for the numbers up to n.
LEMMA InductionTo ==
  ASSUME NEW n \in Nat, NEW S, 0 \in S, \A i \in 0 .. n - 1 : i \in S => i + 1 \in S
  PROVE  0 .. n \subseteq S
<1>1. SUFFICES ASSUME NEW x \in 0 .. n, x \notin S PROVE FALSE
  OBVIOUS
<1>2. PICK m \in (0 .. n) \ S : \A k \in (0 .. n) \ S : m <= k
  BY <1>1, LeastExists
<1>3. m # 0 /\ m - 1 \in 0 .. n - 1 /\ m - 1 \in 0 .. n /\ m - 1 < m
  BY <1>2
<1>4. m - 1 \in S
  BY <1>2, <1>3
<1>. QED
  BY <1>2, <1>3, <1>4

(***************************************************************************)
(* A value and a step define a function on the numbers.                    *)
(***************************************************************************)
\* One that starts with x and takes the steps of F as far as n.
Steps(g, F, x, n) == g[0] = x /\ \A k \in 1 .. n : g[k] = F[k][g[k - 1]]

StepsIn(F, S) == F \in [Nat -> [S -> S]]
Recursive(f, S, F, x) ==
  f \in [Nat -> S] /\ f[0] = x /\ \A n \in Nat \ {0} : f[n] = F[n][f[n - 1]]

LEMMA Recursion ==
  ASSUME NEW S, NEW x, NEW F, x \in S, StepsIn(F, S)
  PROVE  \E f : Recursive(f, S, F, x)
<1>. USE DEF StepsIn, Recursive
<1>. DEFINE Part(n) == {g \in [0 .. n -> S] : Steps(g, F, x, n)}
            A == {n \in Nat : Part(n) # {}}
<1>1. A = Nat
  <2>1. 0 \in A
    <3>1. [k \in 0 .. 0 |-> x] \in Part(0)
      BY DEF Steps
    <3>. QED
      BY <3>1
  <2>2. ASSUME NEW n \in A PROVE n + 1 \in A
    <3>1. PICK g \in Part(n) : TRUE
      OBVIOUS
    <3>. DEFINE h == [k \in 0 .. n + 1 |-> IF k = n + 1 THEN F[n + 1][g[n]] ELSE g[k]]
    <3>2. h \in [0 .. n + 1 -> S]
      <4>1. n \in Nat /\ g \in [0 .. n -> S] /\ g[n] \in S
        BY <3>1
      <4>2. F[n + 1][g[n]] \in S
        BY <4>1
      <4>3. \A k \in 0 .. n + 1 : k # n + 1 => g[k] \in S
        BY <4>1
      <4>. QED
        BY <4>2, <4>3
    <3>3. Steps(h, F, x, n + 1)
      <4>1. n \in Nat /\ Steps(g, F, x, n)
        BY <3>1
      <4>2. h[0] = x /\ h[n + 1] = F[n + 1][h[n]]
        BY <4>1 DEF Steps
      <4>3. \A k \in 1 .. n : h[k] = F[k][h[k - 1]]
        BY <4>1 DEF Steps
      <4>. QED
        BY <4>1, <4>2, <4>3 DEF Steps
    <3>. QED
      BY <3>2, <3>3
  <2>. HIDE DEF A
  <2>3. A \in SUBSET Nat
    BY DEF A
  <2>. QED
    BY <2>1, <2>2, <2>3, Induction
<1>. DEFINE P(n) == CHOOSE g \in Part(n) : TRUE
<1>2. \A n \in Nat : P(n) \in [0 .. n -> S] /\ Steps(P(n), F, x, n)
  <2>1. \A n \in Nat : P(n) \in Part(n)
    BY <1>1
  <2>. QED
    BY <2>1
<1>. HIDE DEF P
\* Two of them agree where both are.
<1>3. ASSUME NEW n \in Nat, NEW m \in Nat, n <= m
      PROVE  P(n)[n] = P(m)[n]
  <2>. DEFINE E == {k \in 0 .. n : P(n)[k] = P(m)[k]}
  <2>1. Steps(P(n), F, x, n) /\ Steps(P(m), F, x, m)
    BY <1>2
  <2>2. 0 \in E
    BY <2>1 DEF Steps
  <2>3. ASSUME NEW k \in 0 .. n - 1, k \in E PROVE k + 1 \in E
    <3>1. k + 1 \in 1 .. n /\ k + 1 \in 1 .. m /\ (k + 1) - 1 = k /\ k + 1 \in 0 .. n
      BY <1>3
    <3>2. P(n)[k + 1] = F[k + 1][P(n)[k]] /\ P(m)[k + 1] = F[k + 1][P(m)[k]]
      BY <2>1, <3>1 DEF Steps
    <3>. QED
      BY <2>3, <3>1, <3>2
  <2>4. n \in E
    <3>. HIDE DEF E
    <3>1. 0 .. n \subseteq E
      BY <2>2, <2>3, InductionTo
    <3>. QED
      BY <3>1
  <2>. QED
    BY <2>4
<1>. DEFINE f == [n \in Nat |-> P(n)[n]]
<1>4. f \in [Nat -> S]
  <2>1. \A n \in Nat : P(n) \in [0 .. n -> S] /\ n \in 0 .. n
    BY <1>2
  <2>. QED
    BY <2>1
<1>5. f[0] = x
  BY <1>2 DEF Steps
<1>6. ASSUME NEW n \in Nat \ {0} PROVE f[n] = F[n][f[n - 1]]
  <2>1. n \in Nat /\ n - 1 \in Nat /\ n \in 1 .. n
    OBVIOUS
  <2>2. P(n)[n] = F[n][P(n)[n - 1]]
    BY <1>2, <2>1 DEF Steps
  <2>3. P(n)[n - 1] = P(n - 1)[n - 1]
    BY <1>3, <2>1
  <2>. QED
    BY <2>1, <2>2, <2>3
<1>. QED
  BY <1>4, <1>5, <1>6

\* One that takes the same step again and again, as its definition asks for it.
Iterated(A, x) == CHOOSE e : e = [n \in Nat |-> IF n = 0 THEN x ELSE A[e[n - 1]]]

LEMMA Iteration ==
  ASSUME NEW S, NEW x \in S, NEW A \in [S -> S]
  PROVE  /\ Iterated(A, x) \in [Nat -> S] /\ Iterated(A, x)[0] = x
         /\ \A n \in Nat : Iterated(A, x)[n + 1] = A[Iterated(A, x)[n]]
<1>. DEFINE F == [n \in Nat |-> A]
            e == Iterated(A, x)
<1>1. StepsIn(F, S)
  BY DEF StepsIn
<1>2. PICK f : Recursive(f, S, F, x)
  <2>. HIDE DEF F
  <2>. QED
    BY <1>1, Recursion
<1>3. f \in [Nat -> S] /\ f[0] = x /\ \A n \in Nat \ {0} : f[n] = A[f[n - 1]]
  BY <1>2 DEF Recursive
<1>4. f = [n \in Nat |-> IF n = 0 THEN x ELSE A[f[n - 1]]]
  BY <1>3
<1>5. e = [n \in Nat |-> IF n = 0 THEN x ELSE A[e[n - 1]]]
  BY <1>4 DEF Iterated
<1>. HIDE DEF e, F
<1>6. e[0] = x
  BY <1>5
<1>7. ASSUME NEW n \in Nat PROVE e[n + 1] = A[e[n]]
  <2>1. n + 1 \in Nat /\ n + 1 # 0 /\ (n + 1) - 1 = n
    OBVIOUS
  <2>. QED
    BY <1>5, <2>1
<1>8. \A n \in Nat : e[n] \in S
  <2>. DEFINE B == {n \in Nat : e[n] \in S}
  <2>1. 0 \in B
    BY <1>6
  <2>2. \A n \in B : n + 1 \in B
    BY <1>7
  <2>3. B \in SUBSET Nat
    OBVIOUS
  <2>. HIDE DEF B
  <2>4. B = Nat
    BY <2>1, <2>2, <2>3, Induction
  <2>. QED
    BY <2>4 DEF B
<1>9. e \in [Nat -> S]
  BY <1>5, <1>8
<1>. QED
  BY <1>6, <1>7, <1>9 DEF e

(***************************************************************************)
(* A function may also call itself further down: at d it is x[d], or what  *)
(* F[d] makes of its value at h[d], whose measure is smaller.              *)
(***************************************************************************)
Descends(D, S, Z, x, F, h, mu) ==
  /\ Z \in SUBSET D /\ x \in [Z -> S] /\ F \in [D -> [S -> S]]
  /\ h \in [D \ Z -> D] /\ mu \in [D -> Nat]
  /\ \A d \in D \ Z : mu[h[d]] < mu[d]
Descended(f, D, S, Z, x, F, h) ==
  f \in [D -> S] /\ \A d \in D : f[d] = IF d \in Z THEN x[d] ELSE F[d][f[h[d]]]

LEMMA Descent ==
  ASSUME NEW D, NEW S, NEW Z, NEW x, NEW F, NEW h, NEW mu, Descends(D, S, Z, x, F, h, mu)
  PROVE  \E f : Descended(f, D, S, Z, x, F, h)
<1>. USE DEF Descends, Descended
<1>1. CASE D = {}
  <2>1. [d \in D |-> x[d]] \in [D -> S]
    BY <1>1
  <2>. QED
    BY <1>1, <2>1
<1>2. CASE D # {}
  <2>1. PICK s0 : s0 \in S
    <3>1. PICK e \in D : TRUE
      BY <1>2
    <3>. DEFINE M == {n \in 0 .. mu[e] : \E d \in D : mu[d] = n}
    <3>2. mu[e] \in Nat /\ M \in SUBSET (0 .. mu[e]) /\ M # {}
      BY <3>1
    <3>3. PICK m \in M : \A n \in M : m <= n
      <4>. HIDE DEF M
      <4>. QED
        BY <3>2, LeastExists
    <3>4. PICK d \in D : mu[d] = m
      BY <3>3
    <3>5. d \in Z
      <4>1. SUFFICES ASSUME d \in D \ Z PROVE FALSE
        BY <3>4
      <4>2. h[d] \in D /\ mu[h[d]] \in Nat /\ mu[h[d]] < m /\ m \in 0 .. mu[e]
        BY <3>2, <3>3, <3>4, <4>1
      <4>3. mu[h[d]] \in M
        BY <3>2, <4>2
      <4>. QED
        BY <3>3, <4>2, <4>3
    <3>. QED
      BY <3>5
  <2>. DEFINE T == [D -> S]
              Once(g) == [d \in D |-> IF d \in Z THEN x[d] ELSE F[d][g[h[d]]]]
              K == [n \in Nat |-> [g \in T |-> Once(g)]]
              g0 == [d \in D |-> s0]
  <2>2. g0 \in T
    BY <2>1
  <2>3. \A g \in T : Once(g) \in T
    <3>1. SUFFICES ASSUME NEW g \in T, NEW d \in D
                   PROVE  (IF d \in Z THEN x[d] ELSE F[d][g[h[d]]]) \in S
      OBVIOUS
    <3>2. CASE d \in Z
      BY <3>2
    <3>3. CASE d \notin Z
      <4>1. h[d] \in D /\ F[d] \in [S -> S]
        BY <3>3
      <4>2. g[h[d]] \in S
        BY <3>1, <4>1
      <4>. QED
        BY <3>3, <4>1, <4>2
    <3>. QED
      BY <3>2, <3>3
  <2>4. K \in [Nat -> [T -> T]]
    <3>. HIDE DEF T, Once
    <3>. QED
      BY <2>3
  <2>5. PICK G \in [Nat -> T] : G[0] = g0 /\ \A n \in Nat \ {0} : G[n] = K[n][G[n - 1]]
    <3>1. StepsIn(K, T)
      BY <2>4 DEF StepsIn
    <3>2. \E g : Recursive(g, T, K, g0)
      <4>. HIDE DEF T, K, g0
      <4>. QED
        BY ONLY <2>2, <3>1, Recursion
    <3>. HIDE DEF T, K, g0
    <3>. QED
      BY <3>2 DEF Recursive
  <2>6. \A n \in Nat \ {0} : G[n - 1] \in T /\ G[n] = Once(G[n - 1])
    <3>1. SUFFICES ASSUME NEW n \in Nat \ {0}
                   PROVE  G[n - 1] \in T /\ G[n] = Once(G[n - 1])
      OBVIOUS
    <3>2. n \in Nat /\ n - 1 \in Nat
      OBVIOUS
    <3>. HIDE DEF T, g0, Once
    <3>3. G[n - 1] \in T
      BY <2>5, <3>2
    <3>4. K[n][G[n - 1]] = Once(G[n - 1])
      BY <3>2, <3>3
    <3>. QED
      BY <2>5, <3>3, <3>4
  <2>. HIDE DEF K, g0
  \* What has a small measure changes no more.
  <2>7. \A n \in Nat : \A d \in D : mu[d] < n => G[n][d] = G[n + 1][d]
    <3>. DEFINE A == {n \in Nat : \A d \in D : mu[d] < n => G[n][d] = G[n + 1][d]}
    <3>1. 0 \in A
      OBVIOUS
    <3>2. ASSUME NEW n \in A PROVE n + 1 \in A
      <4>1. n \in Nat /\ n + 1 \in Nat \ {0} /\ n + 2 \in Nat \ {0}
        OBVIOUS
      <4>2. G[n + 1] = Once(G[n]) /\ G[n + 2] = Once(G[n + 1])
        <5>1. (n + 1) - 1 = n /\ (n + 2) - 1 = n + 1
          BY <4>1
        <5>. HIDE DEF Once, T
        <5>. QED
          BY <2>6, <4>1, <5>1
      <4>3. SUFFICES ASSUME NEW d \in D, mu[d] < n + 1
                     PROVE  G[n + 1][d] = G[n + 2][d]
        BY <4>1
      <4>4. CASE d \in Z
        BY <4>2, <4>4
      <4>5. CASE d \notin Z
        <5>1. h[d] \in D /\ mu[h[d]] \in Nat /\ mu[d] \in Nat /\ mu[h[d]] < mu[d]
          BY <4>5
        <5>2. mu[h[d]] < n
          BY <4>1, <4>3, <5>1
        <5>3. G[n][h[d]] = G[n + 1][h[d]]
          BY <5>1, <5>2
        <5>4. G[n + 1][d] = F[d][G[n][h[d]]] /\ G[n + 2][d] = F[d][G[n + 1][h[d]]]
          BY <4>2, <4>5
        <5>. QED
          BY <5>3, <5>4
      <4>. QED
        BY <4>4, <4>5
    <3>3. A = Nat
      <4>. HIDE DEF A
      <4>1. A \in SUBSET Nat
        BY DEF A
      <4>. QED
        BY <3>1, <3>2, <4>1, Induction
    <3>. QED
      BY <3>3
  <2>8. \A d \in D, n \in Nat : mu[d] < n => G[n][d] = G[mu[d] + 1][d]
    <3>1. SUFFICES ASSUME NEW d \in D PROVE \A n \in Nat : mu[d] < n => G[n][d] = G[mu[d] + 1][d]
      OBVIOUS
    <3>. DEFINE A == {n \in Nat : mu[d] < n => G[n][d] = G[mu[d] + 1][d]}
    <3>2. mu[d] \in Nat
      OBVIOUS
    <3>3. 0 \in A
      BY <3>2
    <3>4. ASSUME NEW n \in A PROVE n + 1 \in A
      <4>1. CASE mu[d] < n
        BY <2>7, <4>1
      <4>2. CASE n = mu[d]
        BY <4>2
      <4>3. CASE n < mu[d]
        BY <3>2, <4>3
      <4>4. n < mu[d] \/ n = mu[d] \/ mu[d] < n
        <5>1. \A i, j \in Nat : i < j \/ i = j \/ j < i
          OBVIOUS
        <5>2. n \in Nat
          OBVIOUS
        <5>. HIDE DEF A
        <5>. QED
          BY ONLY <3>2, <5>1, <5>2
      <4>. HIDE DEF A
      <4>. QED
        BY <4>1, <4>2, <4>3, <4>4
    <3>5. A = Nat
      <4>1. A \in SUBSET Nat
        OBVIOUS
      <4>. HIDE DEF A
      <4>. QED
        BY <3>3, <3>4, <4>1, Induction
    <3>. QED
      BY <3>5
  <2>. DEFINE f == [d \in D |-> G[mu[d] + 1][d]]
  <2>9. f \in [D -> S]
    <3>1. SUFFICES ASSUME NEW d \in D PROVE G[mu[d] + 1][d] \in S
      OBVIOUS
    <3>2. mu[d] + 1 \in Nat
      OBVIOUS
    <3>3. G[mu[d] + 1] \in [D -> S]
      BY <2>5, <3>2
    <3>. QED
      BY <3>3
  <2>10. ASSUME NEW d \in D PROVE f[d] = IF d \in Z THEN x[d] ELSE F[d][f[h[d]]]
    <3>1. mu[d] \in Nat /\ mu[d] + 1 \in Nat \ {0} /\ (mu[d] + 1) - 1 = mu[d]
      OBVIOUS
    <3>2. G[mu[d] + 1] = Once(G[mu[d]])
      <4>. HIDE DEF Once, T
      <4>. QED
        BY <2>6, <3>1
    <3>3. CASE d \in Z
      BY <3>2, <3>3
    <3>4. CASE d \notin Z
      <4>1. h[d] \in D /\ mu[h[d]] < mu[d]
        BY <3>4
      <4>2. G[mu[d]][h[d]] = G[mu[h[d]] + 1][h[d]]
        BY <2>8, <3>1, <4>1
      <4>3. f[h[d]] = G[mu[d]][h[d]]
        BY <4>1, <4>2
      <4>4. f[d] = F[d][G[mu[d]][h[d]]]
        BY <3>2, <3>4
      <4>. QED
        BY <3>4, <4>3, <4>4
    <3>. QED
      BY <3>3, <3>4
  <2>. QED
    BY <2>9, <2>10
<1>. QED
  BY <1>1, <1>2

-----------------------------------------------------------------------------
(***************************************************************************)
(* FlattenSeq puts sequences one after the other.                          *)
(***************************************************************************)
\* The first sequences of ss, one after the other.
Flattens(g, ss) ==
  /\ g[1] = ss[1]
  /\ \A k \in 2 .. Len(ss) : g[k] = g[k - 1] \o ss[k]

\* The function that its definition asks for.
LEMMA FlattenIs ==
  ASSUME NEW X, NEW ss \in Seq(Seq(X)), ss # <<>>
  PROVE  \E g \in [1 .. Len(ss) -> Seq(X)] : Flattens(g, ss) /\ FlattenSeq(ss) = g[Len(ss)]
<1>. DEFINE S == Seq(X)
            len == Len(ss)
            F == [k \in Nat |-> [v \in S |-> IF k + 1 \in 1 .. len THEN v \o ss[k + 1] ELSE v]]
<1>1. len \in Nat \ {0} /\ \A k \in 1 .. len : ss[k] \in S
  <2>. HIDE DEF S
  <2>. QED
    BY EmptySeq, ElementOfSeq DEF S
<1>2. ss[1] \in S /\ StepsIn(F, S)
  <2>1. \A v, w \in S : v \o w \in S
    BY ConcatProperties
  <2>. HIDE DEF S
  <2>2. \A k \in Nat, v \in S : (IF k + 1 \in 1 .. len THEN v \o ss[k + 1] ELSE v) \in S
    BY <1>1, <2>1
  <2>3. 1 \in 1 .. len
    BY <1>1
  <2>. QED
    BY <1>1, <2>2, <2>3 DEF StepsIn
<1>. HIDE DEF S
<1>3. PICK f : Recursive(f, S, F, ss[1])
  <2>. HIDE DEF F
  <2>. QED
    BY <1>2, Recursion
<1>4. f \in [Nat -> S] /\ f[0] = ss[1]
  BY <1>3 DEF Recursive
<1>. DEFINE g == [k \in 1 .. len |-> f[k - 1]]
<1>5. \A k \in 2 .. len : g[k] = g[k - 1] \o ss[k]
  <2>1. SUFFICES ASSUME NEW k \in 2 .. len PROVE g[k] = g[k - 1] \o ss[k]
    OBVIOUS
  <2>2. k - 1 \in Nat \ {0} /\ k - 1 \in Nat /\ (k - 1) - 1 \in Nat /\ (k - 1) + 1 = k
        /\ k \in 1 .. len /\ k - 1 \in 1 .. len
    BY <1>1
  <2>3. f[k - 1] = F[k - 1][f[(k - 1) - 1]] /\ f[(k - 1) - 1] \in S
    <3>. HIDE DEF F
    <3>. QED
      BY <1>3, <2>2 DEF Recursive
  <2>4. f[k - 1] = f[(k - 1) - 1] \o ss[k]
    BY <2>2, <2>3
  <2>. QED
    BY <2>2, <2>4
<1>6. g \in [1 .. len -> S] /\ g[1] = ss[1]
  <2>1. \A k \in 1 .. len : k - 1 \in Nat
    BY <1>1
  <2>2. 1 \in 1 .. len /\ 1 - 1 = 0
    BY <1>1
  <2>. QED
    BY <1>4, <2>1, <2>2
<1>. HIDE DEF g
<1>. DEFINE e == CHOOSE e : e = [i \in 1 .. len |-> IF i = 1 THEN ss[i] ELSE e[i - 1] \o ss[i]]
<1>7. g = [i \in 1 .. len |-> IF i = 1 THEN ss[i] ELSE g[i - 1] \o ss[i]]
  <2>1. \A i \in 1 .. len : g[i] = IF i = 1 THEN ss[i] ELSE g[i - 1] \o ss[i]
    <3>1. \A i \in 1 .. len : i = 1 \/ i \in 2 .. len
      BY <1>1
    <3>. HIDE DEF len
    <3>. QED
      BY <1>5, <1>6, <3>1
  <2>. QED
    BY <1>6, <2>1
<1>8. e = [i \in 1 .. len |-> IF i = 1 THEN ss[i] ELSE e[i - 1] \o ss[i]]
  BY <1>7
<1>9. FlattenSeq(ss) = e[len]
  <2>1. len # 0
    BY <1>1
  <2>. QED
    BY <2>1 DEF FlattenSeq
<1>. HIDE DEF e
<1>10. e = g
  <2>. DEFINE A == {i \in 0 .. len : i = 0 \/ e[i] = g[i]}
  <2>1. 0 \in A
    BY <1>1
  <2>2. ASSUME NEW i \in 0 .. len - 1, i \in A PROVE i + 1 \in A
    <3>1. i + 1 \in 1 .. len /\ i + 1 \in 0 .. len /\ (i + 1) - 1 = i /\ (i + 1 = 1 <=> i = 0)
      BY <1>1
    <3>2. e[i + 1] = IF i + 1 = 1 THEN ss[i + 1] ELSE e[i] \o ss[i + 1]
      BY <1>8, <3>1
    <3>3. g[i + 1] = IF i + 1 = 1 THEN ss[i + 1] ELSE g[i] \o ss[i + 1]
      BY <1>7, <3>1
    <3>. QED
      BY <2>2, <3>1, <3>2, <3>3
  <2>3. 0 .. len \subseteq A
    <3>. HIDE DEF A
    <3>. QED
      BY <1>1, <2>1, <2>2, InductionTo
  <2>4. \A i \in 1 .. len : e[i] = g[i]
    <3>1. \A i \in 1 .. len : i \in 0 .. len /\ i # 0
      BY <1>1
    <3>. QED
      BY <2>3, <3>1
  <2>5. e = [i \in 1 .. len |-> e[i]]
    BY <1>8
  <2>6. g = [i \in 1 .. len |-> g[i]]
    BY <1>6
  <2>. HIDE DEF len
  <2>. QED
    BY <2>4, <2>5, <2>6
<1>. QED
  BY <1>5, <1>6, <1>9, <1>10 DEF Flattens, S

LEMMA FlattenAppend ==
  ASSUME NEW X, NEW ss \in Seq(Seq(X)), NEW s \in Seq(X)
  PROVE  /\ FlattenSeq(ss) \in Seq(X)
         /\ FlattenSeq(Append(ss, s)) = FlattenSeq(ss) \o s
<1>. DEFINE S == Seq(X)
            tt == Append(ss, s)
            len == Len(ss)
<1>1. /\ tt \in Seq(S) /\ tt # <<>> /\ Len(tt) = len + 1 /\ len \in Nat
      /\ tt[len + 1] = s /\ \A k \in 1 .. len : tt[k] = ss[k]
  <2>. HIDE DEF S
  <2>1. ss \in Seq(S) /\ s \in S
    BY DEF S
  <2>. QED
    BY <2>1, AppendProperties, LenProperties
<1>. HIDE DEF tt
<1>2. PICK h \in [1 .. len + 1 -> Seq(X)] : Flattens(h, tt) /\ FlattenSeq(tt) = h[len + 1]
  BY <1>1, FlattenIs
<1>3. CASE ss = <<>>
  <2>1. FlattenSeq(ss) = <<>> /\ len = 0
    BY <1>3 DEF FlattenSeq
  <2>2. FlattenSeq(tt) = s
    BY <1>1, <1>2, <2>1 DEF Flattens
  <2>3. <<>> \o s = s /\ <<>> \in Seq(X)
    BY ConcatEmptySeq
  <2>. QED
    BY <2>1, <2>2, <2>3 DEF tt
<1>4. CASE ss # <<>>
  <2>1. PICK g \in [1 .. len -> Seq(X)] : Flattens(g, ss) /\ FlattenSeq(ss) = g[len]
    BY <1>4, FlattenIs
  <2>2. len # 0
    BY <1>4, EmptySeq
  <2>. DEFINE A == {i \in 0 .. len : i = 0 \/ h[i] = g[i]}
  <2>3. 0 \in A
    BY <1>1
  <2>4. ASSUME NEW i \in 0 .. len - 1, i \in A PROVE i + 1 \in A
    <3>1. CASE i = 0
      <4>1. 1 \in 1 .. len /\ 1 \in 0 .. len
        BY <1>1, <2>2
      <4>2. h[1] = g[1]
        BY <1>1, <1>2, <2>1, <4>1 DEF Flattens
      <4>. QED
        BY <3>1, <4>1, <4>2
    <3>2. CASE i # 0
      <4>1. i + 1 \in 2 .. len /\ i + 1 \in 2 .. Len(tt) /\ (i + 1) - 1 = i /\ i + 1 \in 1 .. len
            /\ i + 1 \in 0 .. len
        BY <1>1, <3>2
      <4>2. h[i + 1] = h[i] \o tt[i + 1] /\ g[i + 1] = g[i] \o ss[i + 1]
        BY <1>2, <2>1, <4>1 DEF Flattens
      <4>. QED
        BY <1>1, <2>4, <3>2, <4>1, <4>2
    <3>. QED
      BY <3>1, <3>2
  <2>5. 0 .. len \subseteq A
    <3>. HIDE DEF A, len
    <3>. QED
      BY <1>1, <2>3, <2>4, InductionTo
  <2>6. h[len] = g[len] /\ len \in 1 .. len
    <3>1. len \in 0 .. len /\ len \in 1 .. len
      BY <1>1, <2>2
    <3>2. len \in A
      <4>. HIDE DEF A
      <4>. QED
        BY <2>5, <3>1
    <3>. QED
      BY <2>2, <3>1, <3>2
  <2>7. h[len + 1] = h[len] \o s
    <3>1. len + 1 \in 2 .. Len(tt) /\ (len + 1) - 1 = len
      BY <1>1, <2>2
    <3>. QED
      BY <1>1, <1>2, <3>1 DEF Flattens
  <2>8. FlattenSeq(tt) = FlattenSeq(ss) \o s /\ g[len] \in Seq(X)
    BY <1>2, <2>1, <2>6, <2>7
  <2>. QED
    BY <2>1, <2>8 DEF tt
<1>. QED
  BY <1>3, <1>4
=============================================================================
