--------------------------- MODULE ConsoleProofs ---------------------------
(***************************************************************************)
(* Proofs about the kernel log (Console, Printf), for every set of         *)
(* threads, every message, word and screen size.                           *)
(***************************************************************************)
EXTENDS Console, Arithmetic

-----------------------------------------------------------------------------
(***************************************************************************)
(* Numbers: powers, digits, and the field that kputnum() fills.            *)
(***************************************************************************)
LEMMA TenToIs ==
  /\ TenTo \in [Nat -> Nat] /\ TenTo[0] = 1
  /\ \A k \in Nat : TenTo[k + 1] = 10 * TenTo[k]
<1>. DEFINE F == [k \in Nat |-> [v \in Nat |-> 10 * v]]
<1>1. StepsIn(F, Nat)
  BY DEF StepsIn
<1>2. \E f : Recursive(f, Nat, F, 1)
  <2>. HIDE DEF F
  <2>. QED
    BY <1>1, Recursion
<1>3. PICK f : Recursive(f, Nat, F, 1)
  BY <1>2
<1>4. f = [k \in Nat |-> IF k = 0 THEN 1 ELSE 10 * f[k - 1]]
  <2>1. f \in [Nat -> Nat] /\ f[0] = 1
    BY <1>3 DEF Recursive
  <2>2. ASSUME NEW k \in Nat \ {0} PROVE f[k] = 10 * f[k - 1]
    <3>1. k - 1 \in Nat /\ f[k - 1] \in Nat /\ f[k] = F[k][f[k - 1]]
      <4>. HIDE DEF F
      <4>. QED
        BY <1>3, <2>1 DEF Recursive
    <3>. QED
      BY <3>1
  <2>3. \A k \in Nat : f[k] = IF k = 0 THEN 1 ELSE 10 * f[k - 1]
    BY <2>1, <2>2
  <2>. QED
    BY <2>1, <2>3
<1>5. TenTo = [k \in Nat |-> IF k = 0 THEN 1 ELSE 10 * TenTo[k - 1]]
  BY <1>4 DEF TenTo
<1>6. TenTo[0] = 1 /\ \A k \in Nat : TenTo[k + 1] = 10 * TenTo[k]
  BY <1>5
<1>7. \A k \in Nat : TenTo[k] \in Nat
  <2>. DEFINE A == {k \in Nat : TenTo[k] \in Nat}
  <2>1. A \in SUBSET Nat /\ 0 \in A /\ \A k \in A : k + 1 \in A
    BY <1>6
  <2>2. A = Nat
    <3>. HIDE DEF A
    <3>. QED
      BY <2>1, Induction
  <2>. QED
    BY <2>2
<1>. QED
  BY <1>5, <1>6, <1>7

LEMMA PowerOf2Is ==
  /\ PowerOf2 \in [Nat -> Nat \ {0}] /\ PowerOf2[0] = 1
  /\ \A k \in Nat : PowerOf2[k + 1] = 2 * PowerOf2[k]
<1>. DEFINE F == [k \in Nat |-> [v \in Nat |-> 2 * v]]
<1>1. StepsIn(F, Nat)
  BY DEF StepsIn
<1>2. \E f : Recursive(f, Nat, F, 1)
  <2>. HIDE DEF F
  <2>. QED
    BY <1>1, Recursion
<1>3. PICK f : Recursive(f, Nat, F, 1)
  BY <1>2
<1>4. f = [k \in Nat |-> IF k = 0 THEN 1 ELSE 2 * f[k - 1]]
  <2>1. f \in [Nat -> Nat] /\ f[0] = 1
    BY <1>3 DEF Recursive
  <2>2. ASSUME NEW k \in Nat \ {0} PROVE f[k] = 2 * f[k - 1]
    <3>1. k - 1 \in Nat /\ f[k - 1] \in Nat /\ f[k] = F[k][f[k - 1]]
      <4>. HIDE DEF F
      <4>. QED
        BY <1>3, <2>1 DEF Recursive
    <3>. QED
      BY <3>1
  <2>3. \A k \in Nat : f[k] = IF k = 0 THEN 1 ELSE 2 * f[k - 1]
    BY <2>1, <2>2
  <2>. QED
    BY <2>1, <2>3
<1>5. PowerOf2 = [k \in Nat |-> IF k = 0 THEN 1 ELSE 2 * PowerOf2[k - 1]]
  BY <1>4 DEF PowerOf2
<1>6. PowerOf2[0] = 1 /\ \A k \in Nat : PowerOf2[k + 1] = 2 * PowerOf2[k]
  BY <1>5
<1>7. \A k \in Nat : PowerOf2[k] \in Nat \ {0}
  <2>. DEFINE A == {k \in Nat : PowerOf2[k] \in Nat \ {0}}
  <2>1. A \in SUBSET Nat /\ 0 \in A /\ \A k \in A : k + 1 \in A
    BY <1>6
  <2>2. A = Nat
    <3>. HIDE DEF A
    <3>. QED
      BY <2>1, Induction
  <2>. QED
    BY <2>2
<1>. QED
  BY <1>5, <1>6, <1>7

\* The numerals, without counting them.
LEMMA NumeralIs ==
  /\ \A i \in 1 .. 16 : Numeral[i] \in Range(Numeral)
  /\ \A i \in 1 .. 16 : Numeral[i] \in Char
<1>1. DOMAIN Numeral = 1 .. 16
  BY DEF Numeral
<1>2. \A i \in 1 .. 16 : Numeral[i] \in Range(Numeral)
  BY <1>1 DEF Range
<1>. QED
  BY <1>2, ConsoleAssumption

\* The loop of kputnum(), as the function that its definition asks for.
LEMMA DigitsAre ==
  ASSUME NEW base \in 2 .. 16
  PROVE  \E d \in [Nat -> Seq(Char)] :
           /\ \A n \in Nat : Digits(n, base) = d[n]
           /\ \A n \in Nat : d[n] = <<Numeral[(n % base) + 1]>> \o
                                   IF n < base THEN <<>> ELSE d[n \div base]
<1>. DEFINE S == Seq(Char)
            Z == 0 .. base - 1
            one(n) == <<Numeral[(n % base) + 1]>>
            x == [n \in Z |-> one(n)]
            F == [n \in Nat |-> [s \in S |-> one(n) \o s]]
            h == [n \in Nat \ Z |-> n \div base]
            mu == [n \in Nat |-> n]
<1>1. \A n \in Nat : one(n) \in S /\ one(n) = one(n) \o <<>>
  <2>1. \A n \in Nat : (n % base) + 1 \in 1 .. 16
    OBVIOUS
  <2>. QED
    BY <2>1, NumeralIs
<1>2. \A n \in Nat \ Z : n \div base \in Nat /\ n \div base < n
  <2>1. SUFFICES ASSUME NEW n \in Nat \ Z PROVE n \div base \in Nat /\ n \div base < n
    OBVIOUS
  <2>2. base \in Nat \ {0} /\ n \in Nat /\ n > 0
    OBVIOUS
  <2>3. n \div base \in Nat /\ base * (n \div base) <= n
    BY <2>2, Division
  <2>. DEFINE q == n \div base
  <2>4. q \in Nat /\ base * q <= n
    BY <2>3
  <2>. HIDE DEF q
  <2>5. 2 * q <= base * q
    BY <2>4
  <2>6. q < n
    BY <2>2, <2>4, <2>5
  <2>. QED
    BY <2>4, <2>6 DEF q
<1>3. Descends(Nat, S, Z, x, F, h, mu)
  <2>1. \A n \in Nat : \A s \in S : one(n) \o s \in S
    BY <1>1, ConcatProperties
  <2>2. Z \in SUBSET Nat /\ x \in [Z -> S] /\ mu \in [Nat -> Nat]
    <3>1. Z \in SUBSET Nat
      OBVIOUS
    <3>. HIDE DEF one, Z, S
    <3>. QED
      BY <1>1, <3>1
  <2>3. F \in [Nat -> [S -> S]]
    <3>. HIDE DEF one, S
    <3>. QED
      BY <2>1
  <2>4. h \in [Nat \ Z -> Nat] /\ \A n \in Nat \ Z : mu[h[n]] < mu[n]
    BY <1>2
  <2>. HIDE DEF S, Z, x, F, h, mu
  <2>. QED
    BY <2>2, <2>3, <2>4 DEF Descends
<1>4. PICK d : Descended(d, Nat, S, Z, x, F, h)
  <2>. HIDE DEF S, Z, x, F, h, mu
  <2>. QED
    BY <1>3, Descent
<1>5. d \in [Nat -> S]
  BY <1>4 DEF Descended
<1>6. ASSUME NEW n \in Nat
      PROVE  d[n] = one(n) \o IF n < base THEN <<>> ELSE d[n \div base]
  <2>1. CASE n < base
    <3>1. n \in Z
      BY <2>1
    <3>2. d[n] = x[n]
      <4>. HIDE DEF S, Z, x, F, h, mu
      <4>. QED
        BY <1>4, <3>1 DEF Descended
    <3>. QED
      BY <1>1, <2>1, <3>1, <3>2
  <2>2. CASE ~ (n < base)
    <3>1. n \notin Z /\ n \in Nat \ Z
      BY <2>2
    <3>2. d[n] = F[n][d[h[n]]]
      <4>. HIDE DEF S, Z, x, F, h, mu
      <4>. QED
        BY <1>4, <3>1 DEF Descended
    <3>3. h[n] = n \div base /\ d[n \div base] \in S
      BY <1>2, <1>5, <3>1
    <3>. HIDE DEF one
    <3>. QED
      BY <2>2, <3>2, <3>3
  <2>. QED
    BY <2>1, <2>2
<1>. QED
  <2>. DEFINE e == CHOOSE e : e = [n \in Nat |-> one(n) \o IF n < base THEN <<>> ELSE e[n \div base]]
  <2>1. d = [n \in Nat |-> one(n) \o IF n < base THEN <<>> ELSE d[n \div base]]
    BY <1>5, <1>6
  <2>2. e = [n \in Nat |-> one(n) \o IF n < base THEN <<>> ELSE e[n \div base]]
    BY <2>1
  <2>3. \A n \in Nat : Digits(n, base) = e[n]
    BY DEF Digits
  <2>. HIDE DEF e
  <2>. DEFINE A == {n \in Nat : \A m \in 0 .. n : e[m] \in S}
  <2>4. ASSUME NEW n \in Nat, \A m \in 0 .. n - 1 : e[m] \in S PROVE e[n] \in S
    <3>1. e[n] = one(n) \o IF n < base THEN <<>> ELSE e[n \div base]
      BY <2>2
    <3>2. CASE n < base
      BY <1>1, <3>1, <3>2
    <3>3. CASE ~ (n < base)
      <4>1. n \div base \in 0 .. n - 1
        BY <1>2, <3>3
      <4>2. e[n \div base] \in S
        BY <2>4, <4>1
      <4>. HIDE DEF one, S
      <4>3. one(n) \in S
        BY <1>1
      <4>. QED
        BY <3>1, <3>3, <4>2, <4>3, ConcatProperties DEF S
    <3>. QED
      BY <3>2, <3>3
  <2>5. A = Nat
    <3>. HIDE DEF S
    <3>1. A \in SUBSET Nat /\ 0 \in A
      BY <2>4
    <3>2. ASSUME NEW n \in A PROVE n + 1 \in A
      <4>1. n + 1 \in Nat /\ \A m \in 0 .. (n + 1) - 1 : e[m] \in S
        OBVIOUS
      <4>2. e[n + 1] \in S
        BY <2>4, <4>1
      <4>3. \A m \in 0 .. n + 1 : m = n + 1 \/ m \in 0 .. (n + 1) - 1
        BY <4>1
      <4>. QED
        BY <4>1, <4>2, <4>3
    <3>. HIDE DEF A
    <3>. QED
      BY <3>1, <3>2, Induction
  <2>6. \A n \in Nat : e[n] \in S
    BY <2>5
  <2>7. e \in [Nat -> S]
    <3>. HIDE DEF S, one
    <3>. QED
      BY <2>2, <2>6
  <2>8. \A n \in Nat : e[n] = one(n) \o IF n < base THEN <<>> ELSE e[n \div base]
    BY <2>2
  <2>. QED
    BY <2>3, <2>7, <2>8

\* A number below the k-th power of ten has k digits at most.
LEMMA DigitsFew ==
  ASSUME NEW base \in 10 .. 16
  PROVE  \A n \in Nat : /\ Digits(n, base) \in Seq(Char)
                        /\ \A k \in Nat \ {0} : n < TenTo[k] => Len(Digits(n, base)) <= k
<1>0. base \in 2 .. 16
  OBVIOUS
<1>1. PICK d \in [Nat -> Seq(Char)] :
        /\ \A n \in Nat : Digits(n, base) = d[n]
        /\ \A n \in Nat : d[n] = <<Numeral[(n % base) + 1]>> \o
                                 IF n < base THEN <<>> ELSE d[n \div base]
  <2>. HIDE DEF Char
  <2>. QED
    BY <1>0, DigitsAre
<1>. DEFINE len == [n \in Nat |-> Len(d[n])]
<1>2. len \in [Nat -> Nat]
  <2>1. \A n \in Nat : d[n] \in Seq(Char)
    BY <1>1
  <2>2. \A n \in Nat : Len(d[n]) \in Nat
    BY <2>1, LenProperties
  <2>. QED
    BY <2>2
<1>3. \A n \in Nat : /\ n < base => len[n] = 1
                     /\ ~ (n < base) => len[n] = 1 + len[n \div base]
  <2>1. SUFFICES ASSUME NEW n \in Nat
                 PROVE  /\ n < base => Len(d[n]) = 1
                        /\ ~ (n < base) => Len(d[n]) = 1 + Len(d[n \div base])
    <3>1. \A n \in Nat : n \div base \in Nat
      OBVIOUS
    <3>. QED
      BY <3>1
  <2>2. (n % base) + 1 \in 1 .. 16 /\ n \div base \in Nat
    OBVIOUS
  <2>. DEFINE num == Numeral[(n % base) + 1]
  <2>3. num \in Char
    BY <2>2, NumeralIs
  <2>4. d[n \div base] \in Seq(Char)
    BY <1>1, <2>2
  <2>5. d[n] = <<num>> \o IF n < base THEN <<>> ELSE d[n \div base]
    BY <1>1
  <2>. HIDE DEF num
  <2>6. <<num>> \in Seq(Char) /\ Len(<<num>>) = 1 /\ <<num>> \o <<>> = <<num>>
    BY <2>3
  <2>7. CASE n < base
    BY <2>5, <2>6, <2>7
  <2>8. CASE ~ (n < base)
    <3>1. d[n] = <<num>> \o d[n \div base]
      BY <2>5, <2>8
    <3>2. Len(<<num>> \o d[n \div base]) = Len(<<num>>) + Len(d[n \div base])
      BY <2>4, <2>6, ConcatProperties
    <3>. QED
      BY <2>6, <2>8, <3>1, <3>2
  <2>. QED
    BY <2>7, <2>8
<1>. HIDE DEF len
<1>. DEFINE A == {k \in Nat : \A n \in Nat : n < TenTo[k + 1] => len[n] <= k + 1}
<1>4. 0 \in A
  <2>1. TenTo[0 + 1] = 10
    BY TenToIs
  <2>2. \A n \in Nat : n < 10 => len[n] <= 1
    BY <1>3
  <2>. QED
    BY <2>1, <2>2
<1>5. ASSUME NEW k \in A PROVE k + 1 \in A
  <2>1. k \in Nat /\ k + 1 \in Nat /\ (k + 1) + 1 \in Nat
    OBVIOUS
  <2>2. \A n \in Nat : n < TenTo[k + 1] => len[n] <= k + 1
    OBVIOUS
  <2>3. ASSUME NEW n \in Nat, n < TenTo[(k + 1) + 1]
        PROVE  len[n] <= (k + 1) + 1
    <3>1. CASE n < base
      BY <1>3, <2>1, <3>1
    <3>2. CASE ~ (n < base)
      <4>. DEFINE q == n \div base
                  t == TenTo[k + 1]
      <4>1. q \in Nat /\ base * q <= n
        BY Division
      <4>2. t \in Nat /\ n < 10 * t
        BY <2>1, <2>3, TenToIs
      <4>3. q < t
        <5>. HIDE DEF q, t
        <5>1. 10 * q <= base * q
          BY <4>1
        <5>. QED
          BY <4>1, <4>2, <5>1
      <4>4. len[q] <= k + 1 /\ len[q] \in Nat
        BY <1>2, <2>2, <4>1, <4>3
      <4>5. len[n] = 1 + len[q]
        BY <1>3, <3>2
      <4>6. \A a \in Nat : a <= k + 1 => 1 + a <= (k + 1) + 1
        BY <2>1
      <4>. HIDE DEF q, A
      <4>. QED
        BY <4>4, <4>5, <4>6
    <3>. QED
      BY <3>1, <3>2
  <2>. QED
    BY <2>1, <2>3
<1>6. A = Nat
  <2>1. A \in SUBSET Nat
    OBVIOUS
  <2>. HIDE DEF A
  <2>. QED
    BY <1>4, <1>5, <2>1, Induction
<1>7. ASSUME NEW n \in Nat, NEW k \in Nat \ {0}, n < TenTo[k] PROVE Len(Digits(n, base)) <= k
  <2>1. k - 1 \in Nat /\ (k - 1) + 1 = k
    OBVIOUS
  <2>2. k - 1 \in A
    BY <1>6, <2>1
  <2>3. len[n] <= k
    BY <1>7, <2>1, <2>2
  <2>. QED
    BY <1>1, <2>3 DEF len
<1>8. \A n \in Nat : Digits(n, base) \in Seq(Char)
  BY <1>1
<1>. QED
  BY <1>7, <1>8

\* What kputnum() puts into its buffer fits, and is printable.
LEMMA KputnumFits ==
  ASSUME NEW base \in 10 .. 16, NEW num \in 0 .. Word - 1, NEW width \in Nat, NEW zero
  PROVE  /\ Kputnum(num, base, width, zero) \in Seq(Char)
         /\ Len(Kputnum(num, base, width, zero)) <= BufSize
<1>. DEFINE digits == Digits(num, base)
            short == MostOf(LeastOf(width, WidthMax) - Len(digits), 0)
            c == IF zero THEN "0" ELSE " "
            pad == [i \in 1 .. short |-> c]
<1>1. PICK k \in 1 .. BufSize : Word <= TenTo[k]
  BY PrintfAssumption
<1>2. BufSize \in Nat /\ num \in Nat /\ k \in Nat \ {0} /\ num < TenTo[k]
  BY <1>1, PrintfAssumption, TenToIs
<1>3. digits \in Seq(Char) /\ Len(digits) <= k
  <2>1. num \in Nat /\ k \in Nat \ {0} /\ num < TenTo[k]
    BY <1>2
  <2>2. /\ Digits(num, base) \in Seq(Char)
        /\ num < TenTo[k] => Len(Digits(num, base)) <= k
    BY <2>1, DigitsFew
  <2>. QED
    BY <2>1, <2>2
<1>4. Len(digits) \in Nat /\ Len(digits) <= BufSize
  <2>1. Len(digits) \in Nat
    BY <1>3, LenProperties
  <2>. HIDE DEF digits
  <2>. QED
    BY <1>2, <1>3, <2>1
<1>5. short \in Nat /\ Len(digits) + short <= BufSize
  <2>. HIDE DEF digits
  <2>. QED
    BY <1>2, <1>4 DEF MostOf, LeastOf, WidthMax
<1>6. c \in Char
  <2>1. Numeral[1] = "0" /\ 1 \in 1 .. 16
    BY DEF Numeral
  <2>2. "0" \in Char
    BY <2>1, NumeralIs
  <2>3. " " \in Char
    BY ConsoleAssumption
  <2>. QED
    BY <2>2, <2>3
<1>7. pad \in Seq(Char) /\ Len(pad) = short
  <2>. HIDE DEF short, c
  <2>1. pad \in [1 .. short -> Char]
    BY <1>6
  <2>. QED
    BY <1>5, <2>1
<1>8. Kputnum(num, base, width, zero) = digits \o pad
  BY DEF Kputnum
<1>. HIDE DEF digits, pad, short
<1>. QED
  BY <1>3, <1>4, <1>5, <1>7, <1>8, ConcatProperties

-----------------------------------------------------------------------------
(***************************************************************************)
(* The clock.                                                              *)
(***************************************************************************)
Pairs == [q : Nat, r : Nat]

\* A round of the division.
Round(n, d, k, prev) ==
  LET bit == PowerOf2[Bits - k]
      r == (2 * prev.r + ((n \div bit) % 2)) % PowerOf2[Bits]
  IN  IF r >= d THEN [q |-> prev.q + bit, r |-> r - d] ELSE [q |-> prev.q, r |-> r]

\* The loop of the division, as the function that its definition asks for.
LEMMA DivisionLoop ==
  ASSUME NEW n \in Nat, NEW d \in Nat
  PROVE  \E g \in [0 .. Bits -> Pairs] :
           /\ Udiv64(n, d) = g[Bits]
           /\ g[0] = [q |-> 0, r |-> 0]
           /\ \A k \in 1 .. Bits : g[k] = Round(n, d, k, g[k - 1])
<1>. DEFINE F == [k \in Nat |-> [v \in Pairs |-> IF k <= Bits THEN Round(n, d, k, v) ELSE v]]
            z == [q |-> 0, r |-> 0]
<1>1. Bits \in Nat /\ PowerOf2 \in [Nat -> Nat \ {0}]
  BY ConsoleAssumption, PowerOf2Is
<1>2. ASSUME NEW k \in 0 .. Bits, NEW v \in Pairs PROVE Round(n, d, k, v) \in Pairs
  <2>. DEFINE bit == PowerOf2[Bits - k]
              whole == PowerOf2[Bits]
              sum == 2 * v.r + ((n \div bit) % 2)
              r == sum % whole
  <2>1. bit \in Nat \ {0} /\ whole \in Nat \ {0}
    BY <1>1
  <2>2. v.q \in Nat /\ v.r \in Nat
    BY DEF Pairs
  <2>. HIDE DEF bit, whole
  <2>3. sum \in Nat
    <3>1. n \div bit \in Nat
      BY <2>1
    <3>2. (n \div bit) % 2 \in Nat
      BY <3>1
    <3>3. \A a, b \in Nat : 2 * a + b \in Nat
      OBVIOUS
    <3>. QED
      BY <2>2, <3>2, <3>3
  <2>. HIDE DEF sum
  <2>4. r \in Nat
    BY <2>1, <2>3
  <2>5. Round(n, d, k, v) = IF r >= d THEN [q |-> v.q + bit, r |-> r - d] ELSE [q |-> v.q, r |-> r]
    BY DEF Round, sum, bit, whole
  <2>. HIDE DEF r
  <2>. QED
    BY <2>1, <2>2, <2>4, <2>5 DEF Pairs
<1>3. StepsIn(F, Pairs) /\ z \in Pairs
  <2>1. \A k \in Nat : k <= Bits => k \in 0 .. Bits
    BY <1>1
  <2>. QED
    BY <1>2, <2>1 DEF StepsIn, Pairs
<1>4. PICK f : Recursive(f, Pairs, F, z)
  <2>. HIDE DEF F, z
  <2>. QED
    BY <1>3, Recursion
<1>. DEFINE g == [k \in 0 .. Bits |-> f[k]]
<1>5. f \in [Nat -> Pairs] /\ f[0] = z
  BY <1>4 DEF Recursive
<1>6. ASSUME NEW k \in 1 .. Bits PROVE f[k] = Round(n, d, k, f[k - 1])
  <2>1. k \in Nat \ {0} /\ k - 1 \in Nat /\ f[k - 1] \in Pairs /\ k <= Bits
    BY <1>1, <1>5
  <2>2. f[k] = F[k][f[k - 1]]
    <3>. HIDE DEF F
    <3>. QED
      BY <1>4, <2>1 DEF Recursive
  <2>. QED
    BY <2>1, <2>2
<1>7. /\ g \in [0 .. Bits -> Pairs] /\ g[0] = z
      /\ \A k \in 1 .. Bits : g[k] = Round(n, d, k, g[k - 1])
  <2>1. \A k \in 1 .. Bits : k \in 0 .. Bits /\ k - 1 \in 0 .. Bits
    BY <1>1
  <2>2. 0 \in 0 .. Bits
    BY <1>1
  <2>. HIDE DEF z
  <2>. QED
    BY <1>5, <1>6, <2>1, <2>2
<1>8. \A k \in 0 .. Bits : g[k] = IF k = 0 THEN z ELSE Round(n, d, k, g[k - 1])
  <2>1. \A k \in 0 .. Bits : k = 0 \/ k \in 1 .. Bits
    BY <1>1
  <2>. HIDE DEF g, z
  <2>. QED
    BY <1>7, <2>1
<1>. DEFINE e == CHOOSE e : e = [k \in 0 .. Bits |-> IF k = 0 THEN z ELSE Round(n, d, k, e[k - 1])]
<1>9. g = [k \in 0 .. Bits |-> IF k = 0 THEN z ELSE Round(n, d, k, g[k - 1])]
  <2>. HIDE DEF z
  <2>. QED
    BY <1>7, <1>8
<1>10. e = [k \in 0 .. Bits |-> IF k = 0 THEN z ELSE Round(n, d, k, e[k - 1])]
  <2>. HIDE DEF z, g
  <2>. QED
    BY <1>9
<1>11. Udiv64(n, d) = e[Bits]
  BY DEF Udiv64, Round
<1>12. e \in [0 .. Bits -> Pairs]
  <2>. HIDE DEF e
  <2>. DEFINE A == {k \in 0 .. Bits : e[k] \in Pairs}
  <2>1. 0 \in A
    BY <1>1, <1>3, <1>10
  <2>2. ASSUME NEW k \in 0 .. Bits - 1, k \in A PROVE k + 1 \in A
    <3>1. k + 1 \in 0 .. Bits /\ k + 1 # 0 /\ (k + 1) - 1 = k
      BY <1>1
    <3>2. e[k + 1] = Round(n, d, k + 1, e[k])
      BY <1>10, <3>1
    <3>. QED
      BY <1>2, <2>2, <3>1, <3>2
  <2>3. 0 .. Bits \subseteq A
    <3>. HIDE DEF A
    <3>. QED
      BY <1>1, <2>1, <2>2, InductionTo
  <2>. QED
    BY <1>10, <2>3
<1>13. e[0] = z /\ \A k \in 1 .. Bits : e[k] = Round(n, d, k, e[k - 1])
  <2>1. 0 \in 0 .. Bits /\ \A k \in 1 .. Bits : k \in 0 .. Bits /\ k # 0
    BY <1>1
  <2>. HIDE DEF e, z
  <2>. QED
    BY <1>10, <2>1
<1>. HIDE DEF e
<1>. QED
  BY <1>11, <1>12, <1>13

\* A division by twice as much loses the last bit of the quotient.
LEMMA Halves ==
  ASSUME NEW n \in Nat, NEW p \in Nat \ {0}
  PROVE  n \div p = 2 * (n \div (2 * p)) + ((n \div p) % 2)
<1>. DEFINE a == n \div (2 * p)
            c == n % (2 * p)
<1>1. 2 * p \in Nat \ {0}
  OBVIOUS
<1>2. a \in Nat /\ c \in 0 .. 2 * p - 1 /\ n = (2 * p) * a + c
  BY <1>1, Division
<1>. HIDE DEF a, c
<1>3. CASE c < p
  <2>1. n = p * (2 * a) + c /\ 2 * a \in Nat /\ c \in 0 .. p - 1
    BY <1>2, <1>3
  <2>2. n \div p = 2 * a
    BY <2>1, Remainder
  <2>3. (2 * a) % 2 = 0
    BY <1>2
  <2>. QED
    BY <1>2, <2>2, <2>3 DEF a
<1>4. CASE ~ (c < p)
  <2>1. n = p * (2 * a + 1) + (c - p) /\ 2 * a + 1 \in Nat /\ c - p \in 0 .. p - 1
    BY <1>2, <1>4
  <2>2. n \div p = 2 * a + 1
    BY <2>1, Remainder
  <2>3. (2 * a + 1) % 2 = 1
    BY <1>2
  <2>. QED
    BY <1>2, <2>2, <2>3 DEF a
<1>. QED
  BY <1>3, <1>4

\* Shifting and subtracting divides, if the divisor leaves the top bit free.
LEMMA Udiv64Divides ==
  ASSUME NEW n \in Nat, NEW d \in Nat
  PROVE  /\ Udiv64(n, d) \in Pairs
         /\ n < PowerOf2[Bits] /\ d > 0 /\ 2 * d <= PowerOf2[Bits]
              => Udiv64(n, d) = [q |-> n \div d, r |-> n % d]
<1>1. Bits \in Nat /\ PowerOf2 \in [Nat -> Nat \ {0}] /\ PowerOf2[0] = 1
  BY ConsoleAssumption, PowerOf2Is
<1>2. PICK g \in [0 .. Bits -> Pairs] :
        /\ Udiv64(n, d) = g[Bits]
        /\ g[0] = [q |-> 0, r |-> 0]
        /\ \A k \in 1 .. Bits : g[k] = Round(n, d, k, g[k - 1])
  BY DivisionLoop
<1>3. Udiv64(n, d) \in Pairs
  BY <1>1, <1>2
<1>4. ASSUME n < PowerOf2[Bits], d > 0, 2 * d <= PowerOf2[Bits]
      PROVE  Udiv64(n, d) = [q |-> n \div d, r |-> n % d]
  <2>. DEFINE Half(k) == \E x \in Nat : /\ n \div PowerOf2[Bits - k] = d * x + g[k].r
                                        /\ g[k].r < d
                                        /\ g[k].q = PowerOf2[Bits - k] * x
              A == {k \in 0 .. Bits : Half(k)}
  <2>1. 0 \in A
    <3>. DEFINE p == PowerOf2[Bits]
    <3>1. Bits - 0 = Bits /\ p \in Nat \ {0} /\ 0 \in 0 .. Bits
      BY <1>1
    <3>2. n \in 0 .. p - 1 /\ n = p * 0 + n
      BY <1>4, <3>1
    <3>3. n \div p = 0
      <4>. HIDE DEF p
      <4>. QED
        BY <3>1, <3>2, Remainder
    <3>4. g[0].q = 0 /\ g[0].r = 0
      BY <1>2
    <3>5. d * 0 + 0 = 0 /\ 0 < d /\ p * 0 = 0
      BY <1>4, <3>1
    <3>6. Half(0)
      <4>. WITNESS 0 \in Nat
      <4>. QED
        BY <3>1, <3>3, <3>4, <3>5
    <3>. QED
      BY <3>1, <3>6
  <2>2. ASSUME NEW k \in 0 .. Bits - 1, k \in A PROVE k + 1 \in A
    <3>. DEFINE p == PowerOf2[Bits - (k + 1)]
                whole == PowerOf2[Bits]
                b == (n \div p) % 2
                r == g[k].r
                q == g[k].q
    <3>1. k + 1 \in 0 .. Bits /\ k + 1 \in 1 .. Bits /\ (k + 1) - 1 = k /\ k \in 0 .. Bits
          /\ Bits - (k + 1) \in Nat /\ (Bits - (k + 1)) + 1 = Bits - k
      BY <1>1
    <3>2. p \in Nat \ {0} /\ PowerOf2[Bits - k] = 2 * p /\ whole \in Nat \ {0}
      BY <1>1, <3>1, PowerOf2Is
    <3>3. r \in Nat /\ q \in Nat
      BY <1>2, <3>1 DEF Pairs
    <3>4. PICK x \in Nat : n \div (2 * p) = d * x + r /\ r < d /\ q = (2 * p) * x
      BY <2>2, <3>2
    <3>5. b \in {0, 1} /\ n \div p = 2 * (d * x + r) + b
      <4>1. n \div p \in Nat
        BY <3>2
      <4>2. b \in {0, 1}
        BY <4>1
      <4>. QED
        BY <3>2, <3>4, <4>2, Halves
    <3>6. g[k + 1] = Round(n, d, k + 1, g[k])
      BY <1>2, <3>1
    <3>7. (2 * r + b) % whole = 2 * r + b
      <4>. HIDE DEF r, b, whole
      <4>1. 2 * r + b \in Nat /\ 2 * r + b < whole
        BY <1>4, <3>2, <3>3, <3>4, <3>5 DEF whole
      <4>. DEFINE s == 2 * r + b
      <4>2. s \in 0 .. whole - 1 /\ s = whole * 0 + s
        BY <3>2, <4>1
      <4>. HIDE DEF s
      <4>3. s % whole = s
        BY <3>2, <4>2, Remainder
      <4>. QED
        BY <4>3 DEF s
    <3>8. g[k + 1] = IF 2 * r + b >= d THEN [q |-> q + p, r |-> (2 * r + b) - d]
                     ELSE [q |-> q, r |-> 2 * r + b]
      BY <3>6, <3>7 DEF Round
    <3>9. Half(k + 1)
      <4>1. CASE 2 * r + b >= d
        <5>1. g[k + 1].q = q + p /\ g[k + 1].r = (2 * r + b) - d
          BY <3>8, <4>1
        <5>2. 2 * x + 1 \in Nat
          BY <3>4
        <5>3. n \div p = d * (2 * x + 1) + ((2 * r + b) - d)
          <6>. HIDE DEF r, b, p
          <6>. QED
            BY <3>3, <3>4, <3>5
        <5>4. (2 * r + b) - d < d /\ q + p = p * (2 * x + 1)
          <6>. HIDE DEF r, b, p, q
          <6>. QED
            BY <3>2, <3>3, <3>4, <3>5
        <5>. HIDE DEF r, b, p, q
        <5>. QED
          BY <5>1, <5>2, <5>3, <5>4 DEF p
      <4>2. CASE ~ (2 * r + b >= d)
        <5>1. g[k + 1].q = q /\ g[k + 1].r = 2 * r + b
          BY <3>8, <4>2
        <5>2. 2 * x \in Nat
          BY <3>4
        <5>3. n \div p = d * (2 * x) + (2 * r + b)
          <6>. HIDE DEF r, b, p
          <6>. QED
            BY <3>3, <3>4, <3>5
        <5>4. 2 * r + b < d /\ q = p * (2 * x)
          <6>. HIDE DEF r, b, p, q
          <6>. QED
            BY <3>2, <3>3, <3>4, <3>5, <4>2
        <5>. HIDE DEF r, b, p, q
        <5>. QED
          BY <5>1, <5>2, <5>3, <5>4 DEF p
      <4>. QED
        BY <4>1, <4>2
    <3>. HIDE DEF Half
    <3>. QED
      BY <3>1, <3>9
  <2>3. Bits \in A
    <3>1. Bits \in 0 .. Bits
      BY <1>1
    <3>. HIDE DEF A
    <3>2. 0 .. Bits \subseteq A
      BY <1>1, <2>1, <2>2, InductionTo
    <3>. QED
      BY <3>1, <3>2
  <2>4. PICK x \in Nat : n \div 1 = d * x + g[Bits].r /\ g[Bits].r < d /\ g[Bits].q = 1 * x
    <3>1. Bits - Bits = 0
      BY <1>1
    <3>. QED
      BY <1>1, <2>3, <3>1
  <2>5. g[Bits] \in Pairs
    BY <1>1, <1>2
  <2>6. n = d * x + g[Bits].r /\ g[Bits].r \in 0 .. d - 1 /\ d \in Nat \ {0}
    <3>1. n \div 1 = n
      OBVIOUS
    <3>2. g[Bits].r \in Nat
      BY <2>5 DEF Pairs
    <3>. QED
      BY <1>4, <2>4, <3>1, <3>2
  <2>7. n \div d = x /\ n % d = g[Bits].r
    BY <2>6, Remainder
  <2>8. g[Bits] = [q |-> x, r |-> g[Bits].r]
    BY <2>4, <2>5 DEF Pairs
  <2>. QED
    BY <1>2, <2>7, <2>8
<1>. QED
  BY <1>3, <1>4

Up == [sec : Nat, usec : Nat]
ClockSet == tsc \in Nat /\ tsc_boot \in Nat /\ tsc_boot <= tsc /\ tsc_hz \in Nat /\ tsc_hz < PowerOf2[Bits]

\* A quotient is not above what was divided.
LEMMA QuotientBelow ==
  ASSUME NEW m \in Nat \ {0}, NEW x \in Nat
  PROVE  x \div m \in Nat /\ x \div m <= x /\ (m >= 2 => 2 * (x \div m) <= x)
<1>. DEFINE q == x \div m
<1>1. q \in Nat /\ m * q <= x
  BY Division
<1>. HIDE DEF q
<1>2. 1 * q <= m * q /\ (m >= 2 => 2 * q <= m * q)
  BY <1>1
<1>. QED
  BY <1>1, <1>2 DEF q

LEMMA Sizes ==
  /\ Bits \in Nat /\ PowerOf2[Bits] \in Nat \ {0}
  /\ Scale \in Nat /\ 2 <= Scale /\ 2 * Scale <= PowerOf2[Bits]
<1>1. Bits \in Nat /\ Scale \in Nat /\ 2 <= Scale /\ 2 * Scale <= PowerOf2[Bits]
  BY ConsoleAssumption
<1>. QED
  BY <1>1, PowerOf2Is

\* md_uptime() is the time since the calibration.
LEMMA MdUptimeIs ==
  ASSUME ClockSet, NEW now \in Nat, tsc_boot <= now
  PROVE  /\ MdUptime(now) \in Up
         /\ now < PowerOf2[Bits] /\ tsc_hz >= Scale => MdUptime(now) = Uptime(now)
<1>. DEFINE past == now - tsc_boot
            cycles == Udiv64(tsc_hz, Scale).q
            us == Udiv64(past, cycles).q
            whole == PowerOf2[Bits]
<1>1. Scale \in Nat \ {0} /\ Scale >= 2 /\ 2 * Scale <= whole /\ whole \in Nat
  BY Sizes
<1>2. past \in Nat /\ past <= now /\ tsc_hz \in Nat /\ tsc_hz < whole
  BY DEF ClockSet
<1>3. cycles \in Nat
  <2>1. Udiv64(tsc_hz, Scale) \in Pairs
    BY <1>1, <1>2, Udiv64Divides
  <2>. QED
    BY <2>1 DEF Pairs
<1>4. us \in Nat
  <2>. HIDE DEF cycles, past
  <2>1. Udiv64(past, cycles) \in Pairs
    BY <1>2, <1>3, Udiv64Divides
  <2>. QED
    BY <2>1 DEF Pairs
<1>5. MdUptime(now) = [sec |-> Udiv64(us, Scale).q, usec |-> Udiv64(us, Scale).r]
  BY DEF MdUptime
<1>6. MdUptime(now) \in Up
  <2>. HIDE DEF us
  <2>1. Udiv64(us, Scale) \in Pairs
    BY <1>1, <1>4, Udiv64Divides
  <2>. QED
    BY <1>5, <2>1 DEF Pairs, Up
<1>7. ASSUME now < whole, tsc_hz >= Scale PROVE MdUptime(now) = Uptime(now)
  <2>. DEFINE c == tsc_hz \div Scale
              u == past \div c
  <2>1. cycles = c
    <3>1. Udiv64(tsc_hz, Scale) = [q |-> tsc_hz \div Scale, r |-> tsc_hz % Scale]
      BY <1>1, <1>2, Udiv64Divides
    <3>. QED
      BY <3>1
  <2>2. c \in Nat \ {0} /\ 2 * c <= whole
    <3>1. c \in Nat /\ 2 * c <= tsc_hz
      BY <1>1, <1>2, QuotientBelow
    <3>2. tsc_hz < Scale * c + Scale
      BY <1>1, <1>2, Division
    <3>. HIDE DEF c
    <3>3. c # 0
      <4>1. c = 0 => Scale * c + Scale = Scale
        BY <1>1
      <4>. QED
        BY <1>1, <1>2, <1>7, <3>2, <4>1
    <3>. QED
      BY <1>1, <1>2, <3>1, <3>3
  <2>3. us = u
    <3>. HIDE DEF c, past, cycles
    <3>1. past < PowerOf2[Bits]
      BY <1>1, <1>2, <1>7
    <3>2. Udiv64(past, c) = [q |-> past \div c, r |-> past % c]
      BY <1>2, <2>2, <3>1, Udiv64Divides
    <3>. QED
      BY <2>1, <3>2
  <2>4. u \in Nat /\ u < whole
    <3>. HIDE DEF c, past
    <3>1. u \in Nat /\ u <= past
      BY <1>2, <2>2, QuotientBelow
    <3>. HIDE DEF u
    <3>. QED
      BY <1>1, <1>2, <1>7, <3>1
  <2>5. Udiv64(u, Scale) = [q |-> u \div Scale, r |-> u % Scale]
    <3>. HIDE DEF u
    <3>. QED
      BY <1>1, <2>4, Udiv64Divides
  <2>6. Uptime(now) = [sec |-> u \div Scale, usec |-> u % Scale]
    BY DEF Uptime
  <2>. HIDE DEF u, us
  <2>. QED
    BY <1>5, <2>3, <2>5, <2>6
<1>. QED
  BY <1>6, <1>7

-----------------------------------------------------------------------------
(***************************************************************************)
(* klog(): a thread that is inside it has the CPU and keeps it, since      *)
(* interrupts are off.                                                     *)
(***************************************************************************)
Busy == {"on", "prefix", "put", "scroll", "cursor", "restore"}
Stamped == {"put", "scroll", "cursor", "restore"}
Stamp == [tsc : Nat, up : Up]

LogTypeOK ==
  /\ script \in [Thread -> Seq(Said)] /\ cur \in Thread /\ iflag \in BOOLEAN
  /\ pc \in [Thread -> Busy \union {"start", "out", "panic"}]
  /\ flags \in [Thread -> BOOLEAN]
  /\ stamp \in [Thread -> Stamp \union {None}]
  /\ lines \in Seq([said : Said, stamp : Stamp])
  /\ log_on \in BOOLEAN /\ use_fb \in BOOLEAN

Exclusive ==
  /\ \A t \in Thread : pc[t] \in Busy => t = cur /\ ~ iflag /\ script[t] # <<>>
  /\ pc[Boot] \in {"start", "panic"} => cur = Boot /\ ~ iflag /\ lines = <<>>
  /\ \A t \in Thread : pc[t] \in Stamped => stamp[t] \in Stamp

LogInv == LogTypeOK /\ Exclusive /\ ClockSet

LEMMA LogInit == Init => LogInv
<1>. SUFFICES ASSUME Init PROVE LogInv
  OBVIOUS
<1>1. Boot \in Thread /\ Scripts \subseteq [Thread -> Seq(Said)]
  BY ConsoleAssumption
<1>2. LogTypeOK
  <2>1. script \in [Thread -> Seq(Said)]
    BY <1>1 DEF Init
  <2>2. pc \in [Thread -> Busy \union {"start", "out", "panic"}]
    BY DEF Init
  <2>3. stamp \in [Thread -> Stamp \union {None}]
    BY DEF Init
  <2>4. lines \in Seq([said : Said, stamp : Stamp])
    BY DEF Init
  <2>. QED
    BY <1>1, <2>1, <2>2, <2>3, <2>4 DEF Init, LogTypeOK
<1>3. Exclusive
  BY <1>1 DEF Init, Exclusive, Busy, Stamped
<1>4. ClockSet
  BY Sizes DEF Init, ClockSet
<1>. QED
  BY <1>2, <1>3, <1>4 DEF LogInv

\* The first message of a thread that has one.
LEMMA SayingIs ==
  ASSUME NEW s \in Seq(Said), s # <<>>
  PROVE  Head(s) \in Said /\ Sayable(Head(s)) /\ Tail(s) \in Seq(Said)
<1>1. Head(s) \in Said /\ Tail(s) \in Seq(Said)
  BY HeadTailProperties
<1>2. \A msg \in Said : Sayable(msg)
  BY ConsoleAssumption
<1>. QED
  BY <1>1, <1>2

LEMMA LogStep == LogInv /\ [Next]_vars => LogInv'
<1>. SUFFICES ASSUME LogInv, [Next]_vars PROVE LogInv'
  OBVIOUS
<1>. USE DEF LogInv
<1>0. Boot \in Thread
  BY ConsoleAssumption
<1>1. CASE TscCalibrate
  <2>1. pc[Boot] = "start" /\ lines = <<>> /\ cur = Boot /\ ~ iflag
        /\ UNCHANGED <<script, cur, iflag, flags, stamp, lines, log_on, use_fb>>
    BY <1>1 DEF TscCalibrate, Exclusive
  <2>2. pc' = [pc EXCEPT ![Boot] = "panic"] \/ pc' = [pc EXCEPT ![Boot] = "out"]
    BY <1>1 DEF TscCalibrate
  <2>3. LogTypeOK'
    BY <1>0, <2>1, <2>2 DEF LogTypeOK
  <2>4. Exclusive'
    BY <1>0, <2>1, <2>2 DEF LogTypeOK, Exclusive, Busy, Stamped
  <2>5. ClockSet'
    <3>1. CASE UNCHANGED tscvars
      BY <3>1 DEF ClockSet, tscvars
    <3>2. CASE \E e \in Elapsed : /\ tsc_hz' = ((e * 1000) % PowerOf2[Bits]) \div 50
                                  /\ tsc' = e /\ tsc_boot' = e
      <4>1. PICK e \in Elapsed : /\ tsc_hz' = ((e * 1000) % PowerOf2[Bits]) \div 50
                                 /\ tsc' = e /\ tsc_boot' = e
        BY <3>2
      <4>2. e \in Nat /\ PowerOf2[Bits] \in Nat \ {0}
        BY ConsoleAssumption, Sizes
      <4>3. ASSUME NEW whole \in Nat \ {0}, NEW m \in Nat
            PROVE  (m % whole) \div 50 \in Nat /\ (m % whole) \div 50 < whole
        OBVIOUS
      <4>4. tsc_hz' \in Nat /\ tsc_hz' < PowerOf2[Bits]
        BY <4>1, <4>2, <4>3
      <4>. QED
        BY <4>1, <4>2, <4>4 DEF ClockSet
    <3>. QED
      BY <1>1, <3>1, <3>2 DEF TscCalibrate, CalMs
  <2>. QED
    BY <2>3, <2>4, <2>5
<1>2. CASE ConsFbInit
  <2>1. UNCHANGED <<script, cur, iflag, pc, flags, stamp, log_on, tscvars>>
        /\ use_fb' = TRUE /\ lines' = <<>> /\ pc[Boot] = "out"
    BY <1>2 DEF ConsFbInit
  <2>2. lines' \in Seq([said : Said, stamp : Stamp])
    BY <2>1
  <2>3. LogTypeOK'
    BY <2>1, <2>2 DEF LogTypeOK
  <2>4. Exclusive'
    BY <2>1 DEF Exclusive
  <2>. QED
    BY <2>1, <2>3, <2>4 DEF ClockSet, tscvars
<1>3. CASE Sti
  <2>1. UNCHANGED <<script, cur, pc, flags, stamp, lines, log_on, use_fb, tscvars>>
        /\ pc[Boot] = "out" /\ cur = Boot /\ iflag' = TRUE
    BY <1>3 DEF Sti
  <2>2. LogTypeOK'
    BY <2>1 DEF LogTypeOK
  <2>3. \A t \in Thread : pc[t] \notin Busy
    BY <2>1 DEF Exclusive, Busy
  <2>4. Exclusive'
    BY <2>1, <2>3 DEF Exclusive
  <2>. QED
    BY <2>1, <2>2, <2>4 DEF ClockSet, tscvars
<1>4. CASE Tick
  <2>1. UNCHANGED <<script, iflag, pc, flags, stamp, lines, log_on, use_fb, tscvars>>
        /\ iflag /\ cur' \in Thread
    BY <1>4 DEF Tick
  <2>2. LogTypeOK'
    BY <2>1 DEF LogTypeOK
  <2>3. Exclusive'
    BY <2>1 DEF Exclusive
  <2>. QED
    BY <2>1, <2>2, <2>3 DEF ClockSet, tscvars
<1>5. ASSUME NEW t \in Thread, t = cur, KlogStep(t) PROVE LogInv'
  <2>. USE <1>5
  <2>1. CASE Klog(t)
    <3>1. UNCHANGED <<script, cur, stamp, lines, log_on, use_fb, tscvars>>
          /\ pc[t] = "out" /\ script[t] # <<>> /\ iflag' = FALSE
          /\ flags' = [flags EXCEPT ![t] = iflag] /\ pc' = [pc EXCEPT ![t] = "on"]
      BY <2>1 DEF Klog
    <3>2. LogTypeOK'
      BY <3>1 DEF LogTypeOK, Busy
    <3>3. \A u \in Thread : u # t => pc[u] \notin Busy /\ pc'[u] = pc[u]
      BY <3>1 DEF Exclusive, LogTypeOK
    <3>4. pc'[t] = "on"
      BY <3>1 DEF LogTypeOK
    <3>5. Exclusive'
      BY <1>0, <3>1, <3>3, <3>4 DEF Exclusive, Busy, Stamped
    <3>. QED
      BY <3>1, <3>2, <3>5 DEF ClockSet, tscvars
  <2>2. CASE pc[t] \in Busy /\ pc' = [pc EXCEPT ![t] = pc'[t]] /\ pc'[t] \in Busy
             /\ UNCHANGED <<script, cur, iflag, flags, stamp, lines, use_fb, tscvars>>
             /\ log_on' \in BOOLEAN /\ (pc'[t] \in Stamped => pc[t] \in Stamped)
    <3>. USE <2>2
    <3>1. LogTypeOK'
      BY DEF LogTypeOK
    <3>2. \A u \in Thread : u # t => pc'[u] = pc[u]
      BY DEF LogTypeOK
    <3>3. Exclusive'
      BY <1>0, <3>2 DEF Exclusive, Busy
    <3>. QED
      BY <3>1, <3>3 DEF ClockSet, tscvars
  <2>3. CASE KlogPrefix(t)
    <3>1. UNCHANGED <<script, cur, iflag, flags, lines, log_on, use_fb, tsc_hz, tsc_boot>>
          /\ pc[t] = "prefix" /\ pc' = [pc EXCEPT ![t] = "put"]
          /\ tsc' = tsc + Saying(t).pause
          /\ stamp' = [stamp EXCEPT ![t] = [tsc |-> tsc', up |-> MdUptime(tsc')]]
      BY <2>3 DEF KlogPrefix
    <3>2. Saying(t).pause \in Nat
      <4>1. script[t] \in Seq(Said) /\ script[t] # <<>>
        BY <3>1 DEF LogTypeOK, Exclusive, Busy
      <4>. QED
        BY <4>1, SayingIs DEF Saying, Sayable
    <3>3. tsc' \in Nat /\ tsc <= tsc' /\ tsc_boot <= tsc'
      BY <3>1, <3>2 DEF ClockSet
    <3>4. [tsc |-> tsc', up |-> MdUptime(tsc')] \in Stamp
      <4>1. MdUptime(tsc') \in Up
        BY <3>3, MdUptimeIs
      <4>. QED
        BY <3>3, <4>1 DEF Stamp
    <3>5. LogTypeOK'
      BY <3>1, <3>4 DEF LogTypeOK, Busy
    <3>6. \A u \in Thread : u # t => pc'[u] = pc[u] /\ stamp'[u] = stamp[u]
      BY <3>1 DEF LogTypeOK
    <3>7. pc'[t] = "put" /\ stamp'[t] \in Stamp
      BY <3>1, <3>4 DEF LogTypeOK
    <3>8. Exclusive'
      BY <1>0, <3>1, <3>6, <3>7 DEF Exclusive, Busy, Stamped
    <3>9. ClockSet'
      BY <3>1, <3>3 DEF ClockSet
    <3>. QED
      BY <3>5, <3>8, <3>9
  <2>4. CASE StiRestore(t)
    <3>1. UNCHANGED <<cur, flags, stamp, log_on, use_fb, tscvars>>
          /\ pc[t] = "restore" /\ pc' = [pc EXCEPT ![t] = "out"] /\ iflag' = flags[t]
          /\ lines' = Append(lines, [said |-> Saying(t), stamp |-> stamp[t]])
          /\ script' = [script EXCEPT ![t] = Tail(@)]
      BY <2>4 DEF StiRestore
    <3>2. script[t] \in Seq(Said) /\ script[t] # <<>> /\ stamp[t] \in Stamp
      BY <3>1 DEF LogTypeOK, Exclusive, Busy, Stamped
    <3>3. Saying(t) \in Said /\ Tail(script[t]) \in Seq(Said)
      BY <3>2, SayingIs DEF Saying
    <3>4. lines' \in Seq([said : Said, stamp : Stamp])
      BY <3>1, <3>2, <3>3 DEF LogTypeOK
    <3>5. LogTypeOK'
      BY <3>1, <3>3, <3>4 DEF LogTypeOK
    <3>6. \A u \in Thread : u # t => pc[u] \notin Busy /\ pc'[u] = pc[u]
      BY <3>1 DEF Exclusive, LogTypeOK
    <3>7. pc'[t] = "out"
      BY <3>1 DEF LogTypeOK
    <3>8. Exclusive'
      BY <1>0, <3>1, <3>6, <3>7 DEF Exclusive, Busy, Stamped
    <3>. QED
      BY <3>1, <3>5, <3>8 DEF ClockSet, tscvars
  <2>5. CASE ConsLogOn(t) \/ Kputc(t) \/ KputcScroll(t) \/ VgaSetcursor(t) \/ ConsLogOff(t)
    <3>1. UNCHANGED <<script, cur, iflag, flags, stamp, lines, use_fb, tscvars>>
      BY <2>5 DEF ConsLogOn, Kputc, KputcScroll, VgaSetcursor, ConsLogOff
    <3>2. log_on' \in BOOLEAN
      BY <2>5 DEF ConsLogOn, Kputc, KputcScroll, VgaSetcursor, ConsLogOff, LogTypeOK
    <3>3. /\ pc[t] \in Busy
          /\ pc' = [pc EXCEPT ![t] = "prefix"] \/ pc[t] \in Stamped
          /\ \E x \in Busy : pc' = [pc EXCEPT ![t] = x]
      BY <2>5 DEF ConsLogOn, Kputc, KputcScroll, VgaSetcursor, ConsLogOff, Busy, Stamped
    <3>4. pc' = [pc EXCEPT ![t] = pc'[t]] /\ pc'[t] \in Busy
          /\ (pc'[t] \in Stamped => pc[t] \in Stamped)
      <4>1. \A x \in Busy : pc' = [pc EXCEPT ![t] = x] => pc'[t] = x
        BY DEF LogTypeOK
      <4>2. pc' = [pc EXCEPT ![t] = pc'[t]] /\ pc'[t] \in Busy
        BY <3>3, <4>1
      <4>3. pc' = [pc EXCEPT ![t] = "prefix"] => pc'[t] = "prefix"
        BY DEF LogTypeOK
      <4>. QED
        BY <3>3, <4>2, <4>3 DEF Stamped
    <3>. QED
      BY <2>2, <3>1, <3>2, <3>3, <3>4
  <2>. QED
    BY <2>1, <2>3, <2>4, <2>5 DEF KlogStep
<1>6. CASE UNCHANGED vars
  BY <1>6 DEF vars, cpuvars, tscvars, LogTypeOK, Exclusive, ClockSet
<1>7. cur \in Thread
  BY DEF LogTypeOK
<1>. QED
  BY <1>1, <1>2, <1>3, <1>4, <1>5, <1>6, <1>7 DEF Next

(* Every state of the log is of its type, at most one thread is inside it   *)
(* and the clock is set.                                                    *)
THEOREM LogSafe == Spec => []LogInv
<1>. QED
  BY LogInit, LogStep, PTL DEF Spec

-----------------------------------------------------------------------------
(***************************************************************************)
(* BufferHolds: the number of every directive of every message fits in     *)
(* the buffer of kputnum().                                                *)
(***************************************************************************)
\* There is an argument for each directive.
LEMMA ArgumentThere ==
  ASSUME NEW msg, Sayable(msg), NEW i \in DOMAIN msg.pieces, Takes(msg.pieces[i])
  PROVE  ArgOf(msg, i) \in [n : Int, s : Seq(Char), c : Char]
<1>. DEFINE before == {j \in 1 .. i - 1 : Takes(msg.pieces[j])}
            all == Directives(msg.pieces)
            len == Len(msg.args)
            Piece == [text : Seq(Char), letter : STRING, width : Nat, zero : BOOLEAN]
            Arg == [n : Int, s : Seq(Char), c : Char]
<1>1. msg.pieces \in Seq(Piece) /\ msg.args \in Seq(Arg) /\ Cardinality(all) <= len
  BY DEF Sayable
<1>2. len \in Nat /\ Len(msg.pieces) \in Nat /\ DOMAIN msg.pieces = 1 .. Len(msg.pieces)
  <2>. HIDE DEF Piece, Arg
  <2>. QED
    BY <1>1, LenProperties
<1>3. i \in 1 .. Len(msg.pieces)
  BY <1>2
<1>4. before \subseteq all /\ i \in all /\ i \notin before
  BY <1>2, <1>3 DEF Directives, Takes
<1>5. IsFiniteSet(all) /\ IsFiniteSet(before)
  <2>1. IsFiniteSet(1 .. Len(msg.pieces))
    <3>. DEFINE l == Len(msg.pieces)
    <3>1. 1 \in Int /\ l \in Int
      BY <1>2
    <3>. HIDE DEF l
    <3>2. IsFiniteSet(1 .. l)
      BY <3>1, FS_Interval
    <3>. QED
      BY <3>2 DEF l
  <2>2. all \subseteq 1 .. Len(msg.pieces)
    BY <1>2 DEF Directives
  <2>. HIDE DEF all, before
  <2>. QED
    BY <1>4, <2>1, <2>2, FS_Subset
<1>6. Cardinality(before) \in Nat /\ Cardinality(before) + 1 <= Cardinality(all)
  <2>. HIDE DEF all, before
  <2>1. before \union {i} \subseteq all
    BY <1>4
  <2>2. Cardinality(before \union {i}) = Cardinality(before) + 1
    BY <1>4, <1>5, FS_AddElement
  <2>3. Cardinality(before \union {i}) <= Cardinality(all)
    BY <1>5, <2>1, FS_Subset
  <2>. QED
    BY <1>5, <2>2, <2>3, FS_CardinalityType
<1>7. 1 + Cardinality(before) \in 1 .. len
  <2>1. Cardinality(all) \in Nat
    BY <1>5, FS_CardinalityType
  <2>. HIDE DEF all, before, len
  <2>. QED
    BY <1>1, <1>2, <1>6, <2>1
<1>8. ArgOf(msg, i) = msg.args[1 + Cardinality(before)]
  BY DEF ArgOf
<1>9. msg.args[1 + Cardinality(before)] \in Arg
  <2>. HIDE DEF before, Arg
  <2>. QED
    BY <1>1, <1>7, ElementOfSeq
<1>. QED
  BY <1>8, <1>9

LEMMA MagnitudeIs ==
  ASSUME NEW letter, NEW n \in Int
  PROVE  Magnitude(letter, n) \in 0 .. Word - 1 /\ n % Word \in 0 .. Word - 1
<1>1. Word \in Nat \ {0}
  BY PrintfAssumption
<1>2. 0 - n \in Int /\ n % Word \in 0 .. Word - 1 /\ (0 - n) % Word \in 0 .. Word - 1
  BY <1>1
<1>. QED
  BY <1>2 DEF Magnitude

LEMMA BufferFromInv == LogInv => BufferHolds
<1>1. SUFFICES ASSUME LogInv, NEW t \in Prefixing, NEW i \in DOMAIN Saying(t).pieces,
                      Saying(t).pieces[i].letter \in {"d", "u", "x"}
               PROVE  Len(Kputnum(Magnitude(Saying(t).pieces[i].letter, ArgOf(Saying(t), i).n),
                                  Base(Saying(t).pieces[i].letter), Saying(t).pieces[i].width,
                                  Saying(t).pieces[i].zero)) <= BufSize
  BY DEF BufferHolds
<1>. DEFINE msg == Saying(t)
            piece == msg.pieces[i]
<1>2. Sayable(msg)
  <2>1. t \in Thread /\ script[t] \in Seq(Said) /\ script[t] # <<>>
    BY <1>1 DEF Prefixing, LogInv, LogTypeOK, Exclusive, Busy
  <2>. QED
    BY <2>1, SayingIs DEF Saying
<1>3. piece.width \in Nat
  <2>. DEFINE Piece == [text : Seq(Char), letter : STRING, width : Nat, zero : BOOLEAN]
  <2>1. msg.pieces \in Seq(Piece)
    BY <1>2 DEF Sayable
  <2>. HIDE DEF msg
  <2>2. piece \in Piece
    <3>. HIDE DEF Piece
    <3>1. DOMAIN msg.pieces = 1 .. Len(msg.pieces)
      BY <2>1, LenProperties
    <3>2. i \in 1 .. Len(msg.pieces)
      BY <1>1, <3>1 DEF msg
    <3>. QED
      BY <2>1, <3>2, ElementOfSeq
  <2>. QED
    BY <2>2
<1>. HIDE DEF msg
<1>4. ArgOf(msg, i).n \in Int
  <2>1. Takes(msg.pieces[i])
    BY <1>1 DEF Takes, msg
  <2>2. ArgOf(msg, i) \in [n : Int, s : Seq(Char), c : Char]
    BY <1>1, <1>2, <2>1, ArgumentThere DEF msg
  <2>. QED
    BY <2>2
<1>5. Base(piece.letter) \in 10 .. 16
  BY DEF Base
<1>6. Magnitude(piece.letter, ArgOf(msg, i).n) \in 0 .. Word - 1
  BY <1>4, MagnitudeIs
<1>. HIDE DEF piece
<1>7. Len(Kputnum(Magnitude(piece.letter, ArgOf(msg, i).n), Base(piece.letter),
                  piece.width, piece.zero)) <= BufSize
  BY <1>3, <1>5, <1>6, KputnumFits
<1>. QED
  BY <1>7 DEF piece, msg

(* No field of a message, however wide, is put past the end of the buffer   *)
(* of kputnum(), for every word, buffer and message (subr_prf.c:28-44).     *)
THEOREM BufferSafe == Spec => []BufferHolds
<1>. QED
  BY LogSafe, BufferFromInv, PTL

-----------------------------------------------------------------------------
(***************************************************************************)
(* StampsRight, for as long as the counter has not wrapped.                *)
(***************************************************************************)
Unwrapped == tsc < PowerOf2[Bits]

\* A stamp that was read since the calibration, and right.
Dated(s) == /\ tsc_boot <= s.tsc /\ s.tsc <= tsc
            /\ tsc_hz >= Scale => s.up = Uptime(s.tsc)

StampInv ==
  /\ \A t \in Thread : pc[t] \in Stamped => Dated(stamp[t])
  /\ \A i \in DOMAIN lines : Dated(lines[i].stamp)
  /\ \A i \in DOMAIN lines : i > 1 => lines[i].stamp.tsc >= lines[i - 1].stamp.tsc
  /\ \A t \in Thread, i \in DOMAIN lines :
       pc[t] \in Stamped => lines[i].stamp.tsc <= stamp[t].tsc

LEMMA LinesAre ==
  ASSUME NEW l \in Seq([said : Said, stamp : Stamp]), NEW i \in DOMAIN l
  PROVE  l[i].said \in Said /\ l[i].stamp \in Stamp
<1>. DEFINE Line == [said : Said, stamp : Stamp]
<1>1. l[i] \in Line
  <2>. HIDE DEF Line
  <2>1. l \in Seq(Line)
    BY DEF Line
  <2>2. DOMAIN l = 1 .. Len(l)
    BY <2>1, LenProperties
  <2>. QED
    BY <2>1, <2>2, ElementOfSeq
<1>. QED
  BY <1>1

LEMMA StampInit == Init => StampInv
<1>. SUFFICES ASSUME Init PROVE StampInv
  OBVIOUS
<1>1. lines = <<>> /\ \A t \in Thread : pc[t] \notin Stamped
  BY DEF Init, Stamped
<1>2. DOMAIN lines = {}
  BY <1>1
<1>. QED
  BY <1>1, <1>2 DEF StampInv

\* A step of the log that leaves the clock and the lines alone.
LEMMA StampKept ==
  ASSUME StampInv, LogTypeOK, UNCHANGED <<stamp, lines, tscvars>>,
         \A t \in Thread : pc'[t] \in Stamped => pc[t] \in Stamped
  PROVE  StampInv'
<1>1. \A s : Dated(s) => Dated(s)'
  BY DEF Dated, Uptime, tscvars
<1>2. (\A t \in Thread : pc[t] \in Stamped => Dated(stamp[t]))'
  BY <1>1 DEF StampInv
<1>3. (\A i \in DOMAIN lines : Dated(lines[i].stamp))'
  BY <1>1 DEF StampInv
<1>. QED
  BY <1>2, <1>3 DEF StampInv

LEMMA StampStep == LogInv /\ StampInv /\ [Next]_vars /\ Unwrapped' => StampInv'
<1>. SUFFICES ASSUME LogInv, StampInv, [Next]_vars, Unwrapped' PROVE StampInv'
  OBVIOUS
<1>. USE DEF LogInv
<1>0. Boot \in Thread /\ LogTypeOK
  BY ConsoleAssumption
<1>1. CASE TscCalibrate
  <2>1. lines' = <<>> /\ pc[Boot] = "start" /\ cur = Boot
    BY <1>1 DEF TscCalibrate, Exclusive
  <2>2. \A t \in Thread : pc'[t] \notin Stamped
    <3>1. pc' = [pc EXCEPT ![Boot] = "panic"] \/ pc' = [pc EXCEPT ![Boot] = "out"]
      BY <1>1 DEF TscCalibrate
    <3>2. \A t \in Thread : pc[t] \notin Stamped
      BY <2>1 DEF Exclusive, Busy, Stamped
    <3>. QED
      BY <3>1, <3>2 DEF Stamped, LogTypeOK
  <2>3. DOMAIN lines' = {}
    BY <2>1
  <2>. QED
    BY <2>2, <2>3 DEF StampInv
<1>2. CASE ConsFbInit
  <2>1. UNCHANGED <<pc, stamp, tscvars>> /\ lines' = <<>>
    BY <1>2 DEF ConsFbInit
  <2>2. DOMAIN lines' = {}
    BY <2>1
  <2>3. \A s : Dated(s) => Dated(s)'
    BY <2>1 DEF Dated, Uptime, tscvars
  <2>4. (\A t \in Thread : pc[t] \in Stamped => Dated(stamp[t]))'
    BY <2>1, <2>3 DEF StampInv
  <2>. QED
    BY <2>2, <2>4 DEF StampInv
<1>3. CASE Sti
  <2>1. UNCHANGED <<pc, stamp, lines, tscvars>>
    BY <1>3 DEF Sti
  <2>. QED
    BY <1>0, <2>1, StampKept
<1>4. CASE Tick
  <2>1. UNCHANGED <<pc, stamp, lines, tscvars>>
    BY <1>4 DEF Tick
  <2>. QED
    BY <1>0, <2>1, StampKept
<1>5. ASSUME NEW t \in Thread, t = cur, KlogStep(t) PROVE StampInv'
  <2>. USE <1>5
  <2>0. \A u \in Thread : u # t => pc[u] \notin Busy
    BY DEF Exclusive
  <2>1. CASE KlogPrefix(t)
    <3>1. UNCHANGED <<lines, tsc_hz, tsc_boot>>
          /\ pc[t] = "prefix" /\ pc' = [pc EXCEPT ![t] = "put"]
          /\ tsc' = tsc + Saying(t).pause
          /\ stamp' = [stamp EXCEPT ![t] = [tsc |-> tsc', up |-> MdUptime(tsc')]]
      BY <2>1 DEF KlogPrefix
    <3>2. Saying(t).pause \in Nat
      <4>1. script[t] \in Seq(Said) /\ script[t] # <<>>
        BY <3>1 DEF LogTypeOK, Exclusive, Busy
      <4>. QED
        BY <4>1, SayingIs DEF Saying, Sayable
    <3>3. tsc' \in Nat /\ tsc <= tsc' /\ tsc_boot <= tsc' /\ tsc_boot \in Nat /\ tsc \in Nat
      BY <3>1, <3>2 DEF ClockSet
    <3>4. tsc_hz >= Scale => MdUptime(tsc') = Uptime(tsc')
      BY <3>3, MdUptimeIs DEF Unwrapped
    <3>5. stamp'[t] = [tsc |-> tsc', up |-> MdUptime(tsc')]
      BY <3>1 DEF LogTypeOK
    <3>6. \A u \in Thread : u # t => pc'[u] \notin Stamped
      BY <2>0, <3>1 DEF LogTypeOK, Busy, Stamped
    <3>7. \A i \in DOMAIN lines : lines[i].stamp \in Stamp
      BY LinesAre DEF LogTypeOK
    <3>8. \A s \in Stamp : Dated(s) => Dated(s)' /\ s.tsc <= tsc'
      BY <3>1, <3>3 DEF Dated, Uptime, Stamp
    <3>9. (\A u \in Thread : pc[u] \in Stamped => Dated(stamp[u]))'
      <4>1. Dated(stamp[t])'
        <5>1. stamp'[t].tsc = tsc' /\ stamp'[t].up = MdUptime(tsc')
          BY <3>5
        <5>2. Uptime(stamp[t].tsc)' = Uptime(tsc')
          BY <3>1, <5>1 DEF Uptime
        <5>3. tsc' <= tsc'
          BY <3>3
        <5>. QED
          BY <3>1, <3>3, <3>4, <5>1, <5>2, <5>3 DEF Dated
      <4>. QED
        BY <3>6, <4>1
    <3>10. (\A i \in DOMAIN lines : Dated(lines[i].stamp))'
      BY <3>1, <3>7, <3>8 DEF StampInv
    <3>11. \A i \in DOMAIN lines : lines[i].stamp.tsc <= stamp'[t].tsc
      BY <3>5, <3>7, <3>8 DEF StampInv
    <3>. QED
      BY <3>1, <3>6, <3>9, <3>10, <3>11 DEF StampInv
  <2>2. CASE StiRestore(t)
    <3>. DEFINE line == [said |-> Saying(t), stamp |-> stamp[t]]
                Line == [said : Said, stamp : Stamp]
    <3>1. UNCHANGED <<stamp, tscvars>> /\ pc[t] = "restore"
          /\ pc' = [pc EXCEPT ![t] = "out"] /\ lines' = Append(lines, line)
      BY <2>2 DEF StiRestore
    <3>2. \A u \in Thread : pc'[u] \notin Stamped
      BY <2>0, <3>1 DEF LogTypeOK, Busy, Stamped
    <3>3. line \in Line /\ lines \in Seq(Line)
      <4>1. script[t] \in Seq(Said) /\ script[t] # <<>> /\ stamp[t] \in Stamp
        BY <3>1 DEF LogTypeOK, Exclusive, Busy, Stamped
      <4>2. Saying(t) \in Said
        BY <4>1, SayingIs DEF Saying
      <4>. QED
        BY <4>1, <4>2 DEF LogTypeOK
    <3>4. line.stamp = stamp[t] /\ Dated(stamp[t])
          /\ \A i \in DOMAIN lines : lines[i].stamp.tsc <= stamp[t].tsc
      BY <3>1 DEF StampInv, Stamped
    <3>. HIDE DEF line, Line
    <3>5. /\ Len(lines) \in Nat /\ DOMAIN lines = 1 .. Len(lines)
          /\ DOMAIN lines' = 1 .. Len(lines) + 1
          /\ \A i \in 1 .. Len(lines) : lines'[i] = lines[i]
          /\ lines'[Len(lines) + 1] = line
      <4>1. Len(lines) \in Nat /\ DOMAIN lines = 1 .. Len(lines)
        BY <3>3, LenProperties
      <4>2. lines' \in Seq(Line) /\ Len(lines') = Len(lines) + 1
        BY <3>1, <3>3, AppendProperties
      <4>3. DOMAIN lines' = 1 .. Len(lines')
        BY <4>2, LenProperties
      <4>. QED
        BY <3>1, <3>3, <4>1, <4>2, <4>3, AppendProperties
    <3>6. \A s : Dated(s) => Dated(s)'
      BY <3>1 DEF Dated, Uptime, tscvars
    <3>7. \A i \in 1 .. Len(lines) + 1 : i \in 1 .. Len(lines) \/ i = Len(lines) + 1
      BY <3>5
    <3>8. (\A i \in DOMAIN lines : Dated(lines[i].stamp))'
      BY <3>4, <3>5, <3>6, <3>7 DEF StampInv
    <3>9. (\A i \in DOMAIN lines : i > 1 => lines[i].stamp.tsc >= lines[i - 1].stamp.tsc)'
      <4>1. SUFFICES ASSUME NEW i \in 1 .. Len(lines) + 1, i > 1
                     PROVE  lines'[i].stamp.tsc >= lines'[i - 1].stamp.tsc
        BY <3>5
      <4>2. i - 1 \in 1 .. Len(lines) /\ lines'[i - 1] = lines[i - 1]
        BY <3>5, <4>1
      <4>3. CASE i \in 1 .. Len(lines)
        BY <3>5, <4>1, <4>2, <4>3 DEF StampInv
      <4>4. CASE i = Len(lines) + 1
        <5>1. lines[i - 1].stamp.tsc <= stamp[t].tsc
          BY <3>4, <3>5, <4>2
        <5>2. lines'[i].stamp = stamp[t]
          BY <3>4, <3>5, <4>4
        <5>3. lines[i - 1].stamp.tsc \in Nat /\ stamp[t].tsc \in Nat
          <6>1. lines[i - 1].stamp \in Stamp
            BY <3>3, <3>5, <4>2, LinesAre DEF Line
          <6>2. stamp[t] \in Stamp
            BY <3>3 DEF Line, line
          <6>. QED
            BY <6>1, <6>2 DEF Stamp
        <5>. QED
          BY <4>2, <5>1, <5>2, <5>3
      <4>. QED
        BY <3>7, <4>3, <4>4
    <3>. QED
      BY <3>2, <3>8, <3>9 DEF StampInv
  <2>3. CASE Klog(t) \/ ConsLogOn(t) \/ Kputc(t) \/ KputcScroll(t) \/ VgaSetcursor(t)
             \/ ConsLogOff(t)
    <3>1. UNCHANGED <<stamp, lines, tscvars>>
      BY <2>3 DEF Klog, ConsLogOn, Kputc, KputcScroll, VgaSetcursor, ConsLogOff
    <3>2. \A u \in Thread : u # t => pc'[u] = pc[u]
      BY <2>3 DEF Klog, ConsLogOn, Kputc, KputcScroll, VgaSetcursor, ConsLogOff, LogTypeOK
    <3>3. pc[t] \in Stamped \/ pc' = [pc EXCEPT ![t] = "on"] \/ pc' = [pc EXCEPT ![t] = "prefix"]
      BY <2>3 DEF Klog, ConsLogOn, Kputc, KputcScroll, VgaSetcursor, ConsLogOff, Stamped
    <3>4. pc'[t] \in Stamped => pc[t] \in Stamped
      BY <3>3 DEF LogTypeOK, Stamped
    <3>. QED
      BY <1>0, <3>1, <3>2, <3>4, StampKept
  <2>. QED
    BY <2>1, <2>2, <2>3 DEF KlogStep
<1>6. CASE UNCHANGED vars
  BY <1>0, <1>6, StampKept DEF vars, cpuvars
<1>7. cur \in Thread
  BY DEF LogTypeOK
<1>. QED
  BY <1>1, <1>2, <1>3, <1>4, <1>5, <1>6, <1>7 DEF Next

LEMMA StampsFromInv == StampInv => StampsRight
BY DEF StampInv, StampsRight, Dated

(* For as long as the counter has not wrapped, the stamp of every line is   *)
(* the time since the calibration and no line is older than the one above   *)
(* (tsc.c:37-57, 91-102; subr_log.c:53).                                    *)
THEOREM StampsSafe == Spec /\ []Unwrapped => []StampsRight
<1>1. Init /\ Unwrapped => StampInv
  BY StampInit
<1>2. LogInv /\ StampInv /\ Unwrapped /\ Unwrapped' /\ [Next]_vars => StampInv'
  BY StampStep
<1>. QED
  BY LogSafe, StampsFromInv, <1>1, <1>2, PTL DEF Spec

-----------------------------------------------------------------------------
(***************************************************************************)
(* kvprintf() puts printable characters, if there is an argument for each  *)
(* "%" of the format.                                                      *)
(***************************************************************************)
LEMMA Characters ==
  /\ "NUL" \notin Char /\ "beyond" \notin Char /\ "\n" \notin Char
  /\ "%" \in Char /\ "-" \in Char /\ "x" \in Char /\ " " \in Char /\ "0" \in Char
  /\ \A c : Decimal(c) => c \in Char /\ ValueOf(c) \in Nat
<1>1. /\ "NUL" \notin Char /\ "beyond" \notin Char /\ "\n" \notin Char
      /\ "%" \in Char /\ "-" \in Char /\ "x" \in Char /\ " " \in Char
  <2>1. {"%", "-", "x", " "} \subseteq Char
    BY ConsoleAssumption, Zenon
  <2>2. {"\n", "NUL", "beyond"} \intersect Char = {}
    BY ConsoleAssumption, Zenon
  <2>. QED
    BY <2>1, <2>2
<1>2. ASSUME NEW c, Decimal(c) PROVE c \in Char /\ ValueOf(c) \in Nat
  <2>1. PICK p \in 1 .. 10 : Numeral[p] = c
    BY <1>2 DEF Decimal
  <2>2. p \in 1 .. 16
    OBVIOUS
  <2>3. ValueOf(c) + 1 \in 1 .. 16 /\ ValueOf(c) \in Int
    <3>. DEFINE v == CHOOSE i \in 1 .. 16 : Numeral[i] = c
    <3>1. \E i \in 1 .. 16 : Numeral[i] = c
      BY <2>1, <2>2
    <3>2. v \in 1 .. 16
      <4>. HIDE DEF Numeral
      <4>. QED
        BY <3>1
    <3>3. ValueOf(c) = v - 1
      BY DEF ValueOf
    <3>. HIDE DEF v
    <3>. QED
      BY <3>2, <3>3
  <2>. QED
    BY <2>1, <2>2, <2>3, NumeralIs
<1>3. "0" \in Char
  <2>1. Numeral[1] = "0" /\ 1 \in 1 .. 16
    BY DEF Numeral
  <2>. QED
    BY <2>1, NumeralIs
<1>. QED
  BY <1>1, <1>2, <1>3

LEMMA CharAtIs ==
  ASSUME NEW fmt \in Seq(Char), NEW i \in Nat \ {0}
  PROVE  /\ i <= Len(fmt) => CharAt(fmt, i) = fmt[i] /\ fmt[i] \in Char
         /\ i = Len(fmt) + 1 => CharAt(fmt, i) = "NUL"
         /\ i > Len(fmt) + 1 => CharAt(fmt, i) = "beyond"
         /\ CharAt(fmt, i) \in Char => i <= Len(fmt)
         /\ CharAt(fmt, i) = "NUL" => i = Len(fmt) + 1
<1>1. Len(fmt) \in Nat
  BY LenProperties
<1>2. i <= Len(fmt) => fmt[i] \in Char
  BY <1>1, ElementOfSeq
<1>3. "NUL" \notin Char /\ "beyond" \notin Char /\ "NUL" # "beyond"
  BY Characters
<1>. QED
  BY <1>1, <1>2, <1>3 DEF CharAt

\* The width that is read from the digits, as its definition asks for.
Widths(fmt, first, past) ==
  CHOOSE w : w = [j \in first - 1 .. past - 1 |->
               IF j = first - 1 THEN 0
               ELSE LET v == w[j - 1] IN IF v < 1000 THEN v * 10 + ValueOf(fmt[j]) ELSE v]

LEMMA WidthIs ==
  ASSUME NEW fmt, NEW first \in Nat \ {0}, NEW past \in Nat, first <= past,
         \A j \in first .. past - 1 : Decimal(fmt[j])
  PROVE  Widths(fmt, first, past)[past - 1] \in Nat
<1>. DEFINE width == Widths(fmt, first, past)
            D == first - 1 .. past - 1
            next(j, v) == IF v < 1000 THEN v * 10 + ValueOf(fmt[j]) ELSE v
            F == [k \in Nat |-> [v \in Nat |->
                    IF first - 1 + k \in first .. past - 1 THEN next(first - 1 + k, v) ELSE v]]
<1>1. \A j \in first .. past - 1, v \in Nat : next(j, v) \in Nat
  <2>1. SUFFICES ASSUME NEW j \in first .. past - 1, NEW v \in Nat PROVE next(j, v) \in Nat
    OBVIOUS
  <2>2. ValueOf(fmt[j]) \in Nat
    BY Characters
  <2>. QED
    BY <2>2
<1>2. StepsIn(F, Nat)
  <2>. HIDE DEF next
  <2>1. \A k, v \in Nat :
          (IF first - 1 + k \in first .. past - 1 THEN next(first - 1 + k, v) ELSE v) \in Nat
    BY <1>1
  <2>. QED
    BY <2>1 DEF StepsIn
<1>3. PICK f : Recursive(f, Nat, F, 0)
  <2>. HIDE DEF F
  <2>. QED
    BY <1>2, Recursion
<1>4. f \in [Nat -> Nat] /\ f[0] = 0 /\ \A k \in Nat \ {0} : f[k] = F[k][f[k - 1]]
  <2>. HIDE DEF F
  <2>. QED
    BY <1>3 DEF Recursive
<1>. DEFINE g == [j \in D |-> f[j - (first - 1)]]
<1>5. ASSUME NEW j \in D PROVE g[j] = IF j = first - 1 THEN 0 ELSE next(j, g[j - 1])
  <2>1. CASE j = first - 1
    BY <1>4, <2>1
  <2>2. CASE j # first - 1
    <3>. DEFINE k == j - (first - 1)
    <3>1. /\ j \in first .. past - 1 /\ k \in Nat \ {0} /\ k \in Nat /\ first - 1 + k = j
          /\ k - 1 \in Nat /\ j - 1 \in D /\ (j - 1) - (first - 1) = k - 1
      BY <2>2
    <3>2. g[j] = f[k] /\ g[j - 1] = f[k - 1] /\ f[k - 1] \in Nat
      BY <1>4, <3>1
    <3>3. f[k] = F[k][f[k - 1]]
      BY <1>4, <3>1
    <3>. HIDE DEF k, g, next, D
    <3>. QED
      BY <2>2, <3>1, <3>2, <3>3
  <2>. QED
    BY <2>1, <2>2
<1>6. g = [j \in D |-> IF j = first - 1 THEN 0 ELSE next(j, g[j - 1])]
  <2>. HIDE DEF next
  <2>. QED
    BY <1>5
<1>7. width = [j \in D |-> IF j = first - 1 THEN 0 ELSE next(j, width[j - 1])]
  <2>1. width = CHOOSE w : w = [j \in D |-> IF j = first - 1 THEN 0 ELSE next(j, w[j - 1])]
    BY DEF Widths
  <2>. HIDE DEF g, next, D, width
  <2>2. \E w : w = [j \in D |-> IF j = first - 1 THEN 0 ELSE next(j, w[j - 1])]
    BY <1>6
  <2>. QED
    BY <2>1, <2>2
<1>. HIDE DEF width
<1>8. \A k \in 0 .. past - first : width[first - 1 + k] \in Nat
  <2>. DEFINE A == {k \in 0 .. past - first : width[first - 1 + k] \in Nat}
  <2>1. 0 \in A
    <3>1. first - 1 + 0 = first - 1 /\ first - 1 \in D /\ 0 \in 0 .. past - first
      OBVIOUS
    <3>2. width[first - 1] = 0
      BY <1>7, <3>1
    <3>. QED
      BY <3>1, <3>2
  <2>2. ASSUME NEW k \in 0 .. (past - first) - 1, k \in A PROVE k + 1 \in A
    <3>. DEFINE j == first - 1 + (k + 1)
    <3>1. j \in D /\ j # first - 1 /\ j - 1 = first - 1 + k /\ k + 1 \in 0 .. past - first
          /\ j \in first .. past - 1
      OBVIOUS
    <3>2. width[j - 1] \in Nat
      BY <2>2, <3>1
    <3>. HIDE DEF next, D
    <3>3. width[j] = next(j, width[j - 1])
      BY <1>7, <3>1
    <3>4. width[j] \in Nat
      <4>. HIDE DEF j
      <4>. QED
        BY <1>1, <3>1, <3>2, <3>3
    <3>. QED
      BY <3>1, <3>4
  <2>3. 0 .. past - first \subseteq A
    <3>1. past - first \in Nat
      OBVIOUS
    <3>. HIDE DEF A
    <3>. QED
      BY <2>1, <2>2, <3>1, InductionTo
  <2>. QED
    BY <2>3
<1>9. past - first \in 0 .. past - first /\ first - 1 + (past - first) = past - 1
  OBVIOUS
<1>. QED
  BY <1>8, <1>9 DEF width

\* A directive has a width, and its letter behind the "%", at the NUL at last.
LEMMA DirectiveIs ==
  ASSUME NEW fmt \in Seq(Char), NEW i \in 1 .. Len(fmt)
  PROVE  /\ Directive(fmt, i).width \in Nat
         /\ Directive(fmt, i).letter \in i + 1 .. Len(fmt) + 1
<1>. DEFINE zero == CharAt(fmt, i + 1) = "0"
            first == IF zero THEN i + 2 ELSE i + 1
            len == Len(fmt)
            Ends(j) == /\ ~ Decimal(CharAt(fmt, j))
                       /\ \A k \in first .. j - 1 : Decimal(CharAt(fmt, k))
            past == CHOOSE j \in first .. len + 2 : Ends(j)
            width == Widths(fmt, first, past)
<1>1. len \in Nat
  BY LenProperties
<1>2. first \in i + 1 .. len + 1
  <2>1. zero => i + 1 <= len
    <3>1. "0" \in Char
      BY Characters
    <3>2. i + 1 \in Nat \ {0}
      BY <1>1
    <3>. QED
      BY <3>1, <3>2, CharAtIs
  <2>. HIDE DEF zero
  <2>. QED
    BY <1>1, <2>1
<1>. HIDE DEF first
<1>3. ~ Decimal(CharAt(fmt, len + 1))
  <2>1. CharAt(fmt, len + 1) = "NUL"
    BY <1>1, CharAtIs
  <2>. QED
    BY <2>1, Characters
<1>4. \E j \in first .. len + 2 : Ends(j)
  <2>. DEFINE S == {j \in first .. len + 1 : ~ Decimal(CharAt(fmt, j))}
  <2>1. S \in SUBSET (0 .. len + 1) /\ len + 1 \in S /\ len + 1 \in Nat
    BY <1>1, <1>2, <1>3
  <2>2. PICK j \in S : \A k \in S : j <= k
    <3>. HIDE DEF S
    <3>. QED
      BY <2>1, LeastExists
  <2>3. j \in first .. len + 2 /\ ~ Decimal(CharAt(fmt, j))
    BY <1>1, <1>2
  <2>4. \A k \in first .. j - 1 : Decimal(CharAt(fmt, k))
    <3>1. SUFFICES ASSUME NEW k \in first .. j - 1, ~ Decimal(CharAt(fmt, k)) PROVE FALSE
      OBVIOUS
    <3>2. k \in first .. len + 1 /\ k < j
      BY <1>1, <1>2, <2>2
    <3>3. k \in S
      BY <3>1, <3>2
    <3>. HIDE DEF S
    <3>. QED
      BY <1>2, <2>2, <2>3, <3>2, <3>3
  <2>. QED
    BY <2>3, <2>4
<1>5. past \in first .. len + 2 /\ Ends(past)
  <2>. HIDE DEF Ends
  <2>. QED
    BY <1>4
<1>. HIDE DEF past
<1>6. past \in first .. len + 1
  <2>1. CASE past = len + 2
    <3>1. len + 1 \in first .. past - 1
      BY <1>1, <1>2, <2>1
    <3>. QED
      BY <1>3, <1>5, <3>1
  <2>. QED
    BY <1>1, <1>2, <1>5, <2>1
<1>7. width[past - 1] \in Nat
  <2>1. first \in Nat \ {0} /\ past \in Nat /\ first <= past
    BY <1>1, <1>2, <1>6
  <2>2. \A j \in first .. past - 1 : Decimal(fmt[j])
    <3>1. SUFFICES ASSUME NEW j \in first .. past - 1 PROVE Decimal(fmt[j])
      OBVIOUS
    <3>2. j <= len /\ j \in Nat \ {0}
      BY <1>1, <1>2, <1>6
    <3>3. CharAt(fmt, j) = fmt[j]
      BY <3>2, CharAtIs
    <3>. QED
      BY <1>5, <3>3
  <2>. QED
    BY <2>1, <2>2, WidthIs
<1>. DEFINE letter == IF CharAt(fmt, past) = "l" THEN past + 1 ELSE past
<1>8. letter \in i + 1 .. len + 1
  <2>1. CharAt(fmt, past) = "l" => past # len + 1
    <3>1. past = len + 1 => CharAt(fmt, past) = "NUL"
      BY <1>1, CharAtIs
    <3>. QED
      BY <3>1
  <2>. QED
    BY <1>1, <1>2, <1>6, <2>1
<1>9. Directive(fmt, i).width = width[past - 1] /\ Directive(fmt, i).letter = letter
  BY DEF Directive, Widths, past, first
<1>. QED
  BY <1>7, <1>8, <1>9

Arguments == [n : Int, s : Seq(Char), c : Char]

LEMMA ReverseIs ==
  ASSUME NEW s \in Seq(Char)
  PROVE  Reverse(s) \in Seq(Char)
<1>1. Len(s) \in Nat
  BY LenProperties
<1>2. \A i \in 1 .. Len(s) : s[(Len(s) - i) + 1] \in Char
  <2>1. \A i \in 1 .. Len(s) : (Len(s) - i) + 1 \in 1 .. Len(s)
    BY <1>1
  <2>. QED
    BY <2>1, ElementOfSeq
<1>3. Reverse(s) \in [1 .. Len(s) -> Char]
  BY <1>2 DEF Reverse
<1>. QED
  BY <1>1, <1>3

\* What a directive puts is printable; it takes one argument at most.
LEMMA ConvertedIs ==
  ASSUME NEW letter \in Char, NEW dir, dir.width \in Nat, NEW arg \in Arguments
  PROVE  /\ Converted(letter, dir, arg).took \in {0, 1}
         /\ Converted(letter, dir, arg).out \in Seq(Char)
<1>. DEFINE one == Converted(letter, dir, arg)
            sign == IF letter \in {"d", "i"} /\ arg.n < 0 THEN <<"-">> ELSE <<>>
            num == Kputnum(Magnitude(letter, arg.n), Base(letter), dir.width, dir.zero)
            ptr == Kputnum(arg.n % Word, 16, 0, FALSE)
<1>1. arg.n \in Int /\ arg.s \in Seq(Char) /\ arg.c \in Char
  BY DEF Arguments
<1>2. \A c \in Char : <<c>> \in Seq(Char)
  OBVIOUS
<1>3. \A s, u \in Seq(Char) : s \o u \in Seq(Char)
  BY ConcatProperties
<1>4. sign \in Seq(Char)
  <2>1. <<"-">> \in Seq(Char)
    BY <1>2, Characters
  <2>2. <<>> \in Seq(Char)
    OBVIOUS
  <2>. QED
    BY <2>1, <2>2
<1>5. Reverse(num) \in Seq(Char)
  <2>1. Base(letter) \in 10 .. 16
    BY DEF Base
  <2>2. Magnitude(letter, arg.n) \in 0 .. Word - 1
    BY <1>1, MagnitudeIs
  <2>3. num \in Seq(Char)
    BY <2>1, <2>2, KputnumFits
  <2>. QED
    BY <2>3, ReverseIs
<1>6. Reverse(ptr) \in Seq(Char)
  <2>1. arg.n % Word \in 0 .. Word - 1
    BY <1>1, MagnitudeIs
  <2>. DEFINE rest == arg.n % Word
  <2>. HIDE DEF rest
  <2>2. rest \in 0 .. Word - 1
    BY <2>1 DEF rest
  <2>3. 16 \in 10 .. 16 /\ 0 \in Nat
    OBVIOUS
  <2>4. Kputnum(rest, 16, 0, FALSE) \in Seq(Char)
    BY <2>2, <2>3, KputnumFits
  <2>5. ptr \in Seq(Char)
    BY <2>4 DEF rest
  <2>. QED
    BY <2>5, ReverseIs
<1>7. <<"0", "x">> \in Seq(Char) /\ <<"%">> \in Seq(Char) /\ <<"%", letter>> \in Seq(Char)
  <2>1. \A a, b \in Char : <<a, b>> \in Seq(Char)
    OBVIOUS
  <2>. QED
    BY <1>2, <2>1, Characters
<1>8. CASE letter \in {"d", "i", "u", "x"}
  <2>1. one = [took |-> 1, out |-> sign \o Reverse(num)]
    BY <1>8 DEF Converted
  <2>. HIDE DEF sign, num
  <2>. QED
    BY <1>3, <1>4, <1>5, <2>1
<1>9. CASE letter = "p"
  <2>1. one = [took |-> 1, out |-> <<"0", "x">> \o Reverse(ptr)]
    BY <1>9 DEF Converted
  <2>. HIDE DEF ptr
  <2>. QED
    BY <1>3, <1>6, <1>7, <2>1
<1>10. CASE letter = "s"
  <2>1. one = [took |-> 1, out |-> arg.s]
    BY <1>10 DEF Converted
  <2>. QED
    BY <1>1, <2>1
<1>11. CASE letter = "c"
  <2>1. one = [took |-> 1, out |-> <<arg.c>>]
    BY <1>11 DEF Converted
  <2>. QED
    BY <1>1, <2>1
<1>12. CASE letter = "%"
  <2>1. one = [took |-> 0, out |-> <<"%">>]
    BY <1>12 DEF Converted
  <2>. QED
    BY <1>7, <2>1
<1>13. CASE letter \notin {"d", "i", "u", "x", "p", "s", "c", "%"}
  <2>1. one = [took |-> 0, out |-> <<"%", letter>>]
    BY <1>13 DEF Converted
  <2>. QED
    BY <1>7, <2>1
<1>. QED
  BY <1>8, <1>9, <1>10, <1>11, <1>12, <1>13

\* A round of the loop of kvprintf().
KvRound(fmt, args, prev) ==
  LET c == CharAt(fmt, prev.at)
      dir == Directive(fmt, prev.at)
      one == Converted(CharAt(fmt, dir.letter), dir, args[prev.k])
  IN  CASE c = "NUL" \/ (c = "%" /\ Truncated(fmt, dir)) -> prev
        [] c = "beyond" -> [prev EXCEPT !.at = Len(fmt) + 1, !.out = Append(@, c)]
        [] c \notin {"NUL", "beyond", "%"} ->
             [prev EXCEPT !.at = @ + 1, !.out = Append(@, c)]
        [] OTHER -> [at |-> dir.letter + 1, k |-> prev.k + one.took,
                     out |-> prev.out \o one.out]

\* In the format, with no more arguments taken than there were "%" so far.
Reading(fmt) ==
  {st \in [at : 1 .. Len(fmt) + 1, k : Nat \ {0}, out : Seq(Char)] :
     st.k - 1 <= Cardinality({j \in Percents(fmt) : j < st.at})}

LEMMA ReadingIs ==
  ASSUME NEW fmt, NEW a \in 1 .. Len(fmt) + 1, NEW n \in Nat \ {0}, NEW o \in Seq(Char),
         n - 1 <= Cardinality({j \in Percents(fmt) : j < a})
  PROVE  [at |-> a, k |-> n, out |-> o] \in Reading(fmt)
<1>. DEFINE st == [at |-> a, k |-> n, out |-> o]
<1>1. st \in [at : 1 .. Len(fmt) + 1, k : Nat \ {0}, out : Seq(Char)]
  OBVIOUS
<1>2. st.at = a /\ st.k = n
  OBVIOUS
<1>. HIDE DEF st
<1>3. st \in Reading(fmt)
  BY <1>1, <1>2 DEF Reading
<1>. QED
  BY <1>3 DEF st

LEMMA KvRoundReads ==
  ASSUME NEW fmt \in Seq(Char), NEW args \in Seq(Arguments),
         Cardinality(Percents(fmt)) <= Len(args), NEW st \in Reading(fmt)
  PROVE  KvRound(fmt, args, st) \in Reading(fmt)
<1>. DEFINE len == Len(fmt)
            Before(i) == {j \in Percents(fmt) : j < i}
            c == CharAt(fmt, st.at)
            dir == Directive(fmt, st.at)
            letter == CharAt(fmt, dir.letter)
            one == Converted(letter, dir, args[st.k])
<1>1. len \in Nat /\ DOMAIN fmt = 1 .. len /\ Len(args) \in Nat
  BY LenProperties
<1>2. st.at \in 1 .. len + 1 /\ st.k \in Nat \ {0} /\ st.out \in Seq(Char)
      /\ st.k - 1 <= Cardinality(Before(st.at))
  BY DEF Reading
<1>3. IsFiniteSet(Percents(fmt)) /\ \A i : IsFiniteSet(Before(i))
  <2>1. IsFiniteSet(1 .. len)
    <3>. HIDE DEF len
    <3>. QED
      BY <1>1, FS_Interval
  <2>2. Percents(fmt) \subseteq 1 .. len /\ \A i : Before(i) \subseteq Percents(fmt)
    BY <1>1 DEF Percents
  <2>. HIDE DEF len, Before
  <2>. QED
    BY <2>1, <2>2, FS_Subset
<1>4. \A i : Cardinality(Before(i)) \in Nat
  BY <1>3, FS_CardinalityType
<1>5. CASE c = "NUL" \/ (c = "%" /\ Truncated(fmt, dir))
  BY <1>5 DEF KvRound
<1>6. CASE ~ (c = "NUL" \/ (c = "%" /\ Truncated(fmt, dir))) /\ c # "%"
  <2>1. c \in Char /\ st.at <= len
    <3>1. st.at \in Nat \ {0}
      BY <1>1, <1>2
    <3>. QED
      BY <1>1, <1>2, <1>6, <3>1, CharAtIs
  <2>2. c # "beyond" /\ c # "NUL"
    BY <2>1, Characters
  <2>3. KvRound(fmt, args, st) = [st EXCEPT !.at = @ + 1, !.out = Append(@, c)]
    BY <1>6, <2>2 DEF KvRound
  <2>4. st \in [at : 1 .. Len(fmt) + 1, k : Nat \ {0}, out : Seq(Char)]
    BY DEF Reading
  <2>5. KvRound(fmt, args, st) = [at |-> st.at + 1, k |-> st.k, out |-> Append(st.out, c)]
    <3>. HIDE DEF c
    <3>. QED
      BY <2>3, <2>4
  <2>6. Append(st.out, c) \in Seq(Char) /\ st.at + 1 \in 1 .. len + 1
    <3>. HIDE DEF c
    <3>. QED
      BY <1>1, <1>2, <2>1, AppendProperties
  <2>7. st.k - 1 <= Cardinality(Before(st.at + 1))
    <3>1. Before(st.at) \subseteq Before(st.at + 1)
      BY <1>1, <1>2 DEF Percents
    <3>. HIDE DEF Before
    <3>2. Cardinality(Before(st.at)) <= Cardinality(Before(st.at + 1))
      BY <1>3, <3>1, FS_Subset
    <3>. QED
      BY <1>2, <1>4, <3>2
  <2>. HIDE DEF c
  <2>. QED
    BY <1>2, <2>5, <2>6, <2>7, ReadingIs
<1>7. CASE c = "%" /\ ~ Truncated(fmt, dir)
  <2>1. st.at \in 1 .. len /\ fmt[st.at] = "%" /\ st.at \in Percents(fmt)
    <3>1. st.at \in Nat \ {0}
      BY <1>1, <1>2
    <3>2. st.at <= len /\ fmt[st.at] = c
      BY <1>1, <1>2, <1>7, <3>1, CharAtIs, Characters
    <3>. QED
      BY <1>1, <1>2, <1>7, <3>2 DEF Percents
  <2>2. dir.width \in Nat /\ dir.letter \in st.at + 1 .. len + 1
    BY <2>1, DirectiveIs
  <2>. HIDE DEF dir
  <2>3. dir.letter <= len /\ letter \in Char /\ dir.letter \in Nat
    <3>1. dir.letter \in Nat \ {0} /\ CharAt(fmt, dir.letter) # "NUL"
      BY <1>1, <1>7, <2>1, <2>2 DEF Truncated
    <3>. QED
      BY <1>1, <2>2, <3>1, CharAtIs
  <2>4. Cardinality(Before(st.at)) + 1 <= Cardinality(Before(dir.letter + 1))
        /\ Cardinality(Before(st.at)) + 1 <= Cardinality(Percents(fmt))
    <3>1. /\ Before(st.at) \union {st.at} \subseteq Before(dir.letter + 1)
          /\ Before(st.at) \union {st.at} \subseteq Percents(fmt)
          /\ st.at \notin Before(st.at)
      BY <1>1, <2>1, <2>2 DEF Percents
    <3>. HIDE DEF Before
    <3>2. Cardinality(Before(st.at) \union {st.at}) = Cardinality(Before(st.at)) + 1
      BY <1>3, <3>1, FS_AddElement
    <3>. QED
      BY <1>3, <3>1, <3>2, FS_Subset
  <2>5. args[st.k] \in Arguments
    <3>1. Cardinality(Percents(fmt)) \in Nat
      BY <1>3, FS_CardinalityType
    <3>2. st.k \in 1 .. Len(args)
      <4>. HIDE DEF Before
      <4>. QED
        BY <1>1, <1>2, <1>4, <2>4, <3>1
    <3>. QED
      BY <3>2, ElementOfSeq
  <2>6. one.took \in {0, 1} /\ one.out \in Seq(Char)
    <3>. HIDE DEF letter
    <3>. QED
      BY <2>2, <2>3, <2>5, ConvertedIs
  <2>7. c # "NUL" /\ c # "beyond"
    BY <1>7
  <2>8. KvRound(fmt, args, st) = [at |-> dir.letter + 1, k |-> st.k + one.took,
                                  out |-> st.out \o one.out]
    BY <1>7, <2>7 DEF KvRound, dir
  <2>. HIDE DEF one
  <2>9. st.out \o one.out \in Seq(Char)
    BY <1>2, <2>6, ConcatProperties
  <2>10. dir.letter + 1 \in 1 .. len + 1
    BY <1>1, <2>1, <2>2, <2>3
  <2>11. st.k + one.took \in Nat \ {0}
    BY <1>2, <2>6
  <2>12. (st.k + one.took) - 1 <= Cardinality(Before(dir.letter + 1))
    <3>1. Cardinality(Before(st.at)) \in Nat /\ Cardinality(Before(dir.letter + 1)) \in Nat
      BY <1>4
    <3>. HIDE DEF Before
    <3>. QED
      BY <1>2, <2>4, <2>6, <3>1
  <2>. QED
    BY <2>8, <2>9, <2>10, <2>11, <2>12, ReadingIs
<1>. QED
  BY <1>5, <1>6, <1>7

LEMMA KvprintfIs ==
  ASSUME NEW fmt \in Seq(Char), NEW args \in Seq(Arguments),
         Cardinality(Percents(fmt)) <= Len(args)
  PROVE  Kvprintf(fmt, args) \in Seq(Char)
<1>. DEFINE S == Reading(fmt)
            x == [at |-> 1, k |-> 1, out |-> <<>>]
            F == [n \in Nat |-> [v \in S |-> KvRound(fmt, args, v)]]
<1>1. Len(fmt) \in Nat /\ DOMAIN fmt = 1 .. Len(fmt)
  BY LenProperties
<1>2. x \in S
  <2>1. {j \in Percents(fmt) : j < 1} = {}
    BY <1>1 DEF Percents
  <2>2. Cardinality({j \in Percents(fmt) : j < 1}) = 0
    BY <2>1, FS_EmptySet
  <2>3. 1 \in 1 .. Len(fmt) + 1 /\ 1 \in Nat \ {0} /\ <<>> \in Seq(Char)
    BY <1>1
  <2>4. 1 - 1 <= Cardinality({j \in Percents(fmt) : j < 1})
    BY <2>2
  <2>. QED
    BY <2>3, <2>4, ReadingIs
<1>3. StepsIn(F, S)
  <2>1. \A v \in S : KvRound(fmt, args, v) \in S
    BY KvRoundReads
  <2>. HIDE DEF S
  <2>. QED
    BY <2>1 DEF StepsIn
<1>4. PICK f : Recursive(f, S, F, x)
  <2>. HIDE DEF F, S, x
  <2>. QED
    BY <1>2, <1>3, Recursion
<1>5. f \in [Nat -> S] /\ f[0] = x
  <2>. HIDE DEF F, S, x
  <2>. QED
    BY <1>4 DEF Recursive
<1>6. \A n \in Nat \ {0} : f[n] = KvRound(fmt, args, f[n - 1])
  <2>1. SUFFICES ASSUME NEW n \in Nat \ {0} PROVE f[n] = KvRound(fmt, args, f[n - 1])
    OBVIOUS
  <2>2. n \in Nat /\ n - 1 \in Nat /\ f[n - 1] \in S
    <3>. HIDE DEF S
    <3>. QED
      BY <1>5
  <2>3. f[n] = F[n][f[n - 1]]
    <3>. HIDE DEF F, S, x
    <3>. QED
      BY <1>4 DEF Recursive
  <2>. HIDE DEF S
  <2>. QED
    BY <2>2, <2>3
<1>. DEFINE e == CHOOSE e : e = [n \in Nat |-> IF n = 0 THEN x ELSE KvRound(fmt, args, e[n - 1])]
<1>7. f = [n \in Nat |-> IF n = 0 THEN x ELSE KvRound(fmt, args, f[n - 1])]
  <2>1. \A n \in Nat : f[n] = IF n = 0 THEN x ELSE KvRound(fmt, args, f[n - 1])
    <3>. HIDE DEF x
    <3>. QED
      BY <1>5, <1>6
  <2>. HIDE DEF x, S
  <2>. QED
    BY <1>5, <2>1
<1>8. e = [n \in Nat |-> IF n = 0 THEN x ELSE KvRound(fmt, args, e[n - 1])]
  <2>. HIDE DEF x
  <2>. QED
    BY <1>7
<1>9. Kvprintf(fmt, args) = e[Len(fmt) + 1].out
  BY DEF Kvprintf, KvRound
<1>. HIDE DEF e
<1>10. \A n \in Nat : e[n] \in S
  <2>. DEFINE A == {n \in Nat : e[n] \in S}
  <2>1. 0 \in A
    BY <1>2, <1>8
  <2>2. ASSUME NEW n \in A PROVE n + 1 \in A
    <3>1. e[n + 1] = KvRound(fmt, args, e[n])
      <4>1. n + 1 \in Nat /\ n + 1 # 0 /\ (n + 1) - 1 = n
        OBVIOUS
      <4>. HIDE DEF x
      <4>. QED
        BY <1>8, <4>1
    <3>2. e[n] \in S /\ n + 1 \in Nat
      OBVIOUS
    <3>. QED
      BY <3>1, <3>2, KvRoundReads
  <2>3. A \in SUBSET Nat
    OBVIOUS
  <2>4. A = Nat
    <3>. HIDE DEF A
    <3>. QED
      BY <2>1, <2>2, <2>3, Induction
  <2>. HIDE DEF S
  <2>. QED
    BY <2>4
<1>11. e[Len(fmt) + 1] \in S
  BY <1>1, <1>10
<1>. QED
  BY <1>9, <1>11 DEF Reading

-----------------------------------------------------------------------------
(***************************************************************************)
(* ShowsLog on the text console.  The log is written on a sheet of rows;   *)
(* the screen shows its end.                                               *)
(***************************************************************************)
\* The last row, and a sheet with one more character on it.
Row(W) == W[Len(W)]
Sheets == {W \in Seq(Seq(Char)) : W # <<>> /\ Len(Row(W)) < Cols}
Adds(W, c, W2) ==
  /\ Len(W2) = Len(W) + IF Len(Row(W)) + 1 = Cols THEN 1 ELSE 0
  /\ \A k \in 1 .. Len(W) - 1 : W2[k] = W[k]
  /\ W2[Len(W)] = Append(Row(W), c)
  /\ Len(Row(W)) + 1 = Cols => W2[Len(W) + 1] = <<>>

\* A text on rows.
Wrap(text) ==
  [k \in 1 .. Len(text) \div Cols + 1 |->
     SubSeq(text, (k - 1) * Cols + 1, LeastOf(k * Cols, Len(text)))]

LEMMA ScreenSizes == Cols \in Nat \ {0} /\ Rows \in Nat \ {0}
BY ConsoleAssumption

LEMMA WrapIs ==
  ASSUME NEW s \in Seq(Char)
  PROVE  /\ Wrap(s) \in Sheets
         /\ Len(Wrap(s)) = Len(s) \div Cols + 1
         /\ Row(Wrap(s)) = SubSeq(s, (Len(s) \div Cols) * Cols + 1, Len(s))
         /\ Len(Row(Wrap(s))) = Len(s) % Cols
         /\ \A k \in 1 .. Len(s) \div Cols :
              Wrap(s)[k] = SubSeq(s, (k - 1) * Cols + 1, k * Cols) /\ k * Cols <= Len(s)
<1>. DEFINE len == Len(s)
            q == len \div Cols
            r == len % Cols
            m == q * Cols
            W == Wrap(s)
<1>1. len \in Nat /\ Cols \in Nat \ {0} /\ \A i \in 1 .. len : s[i] \in Char
  BY LenProperties, ElementOfSeq, ScreenSizes
<1>2. q \in Nat /\ r \in 0 .. Cols - 1 /\ len = Cols * q + r
  <2>. HIDE DEF len
  <2>. QED
    BY <1>1, Division
<1>. HIDE DEF q, r
<1>3. m \in Nat /\ len = m + r /\ (q + 1) * Cols = m + Cols
  BY <1>1, <1>2
<1>4. \A k \in 1 .. q : (k - 1) * Cols \in Nat /\ k * Cols \in Nat /\ k * Cols <= m
  <2>1. SUFFICES ASSUME NEW k \in 1 .. q
                 PROVE (k - 1) * Cols \in Nat /\ k * Cols \in Nat /\ k * Cols <= m
    OBVIOUS
  <2>2. k \in Nat /\ k - 1 \in Nat /\ q - k \in Nat
    BY <1>2
  <2>3. (q - k) * Cols \in Nat /\ (k - 1) * Cols \in Nat /\ k * Cols \in Nat
    BY <1>1, <2>2
  <2>4. q * Cols = k * Cols + (q - k) * Cols
    BY <1>1, <1>2, <2>2
  <2>. QED
    BY <1>3, <2>3, <2>4
<1>. HIDE DEF m
<1>5. W = [k \in 1 .. q + 1 |-> SubSeq(s, (k - 1) * Cols + 1, LeastOf(k * Cols, len))]
  BY DEF Wrap, q
<1>6. \A k \in 1 .. q : W[k] = SubSeq(s, (k - 1) * Cols + 1, k * Cols) /\ k * Cols <= len
  <2>1. SUFFICES ASSUME NEW k \in 1 .. q
                 PROVE  W[k] = SubSeq(s, (k - 1) * Cols + 1, k * Cols) /\ k * Cols <= len
    OBVIOUS
  <2>2. k * Cols <= len /\ k * Cols \in Nat
    BY <1>2, <1>3, <1>4
  <2>3. LeastOf(k * Cols, len) = k * Cols
    BY <1>1, <2>2 DEF LeastOf
  <2>4. k \in 1 .. q + 1
    BY <1>2
  <2>. QED
    BY <1>5, <2>2, <2>3, <2>4
<1>7. W[q + 1] = SubSeq(s, m + 1, len)
  <2>1. LeastOf((q + 1) * Cols, len) = len
    BY <1>1, <1>2, <1>3 DEF LeastOf
  <2>2. q + 1 \in 1 .. q + 1 /\ (q + 1) - 1 = q
    BY <1>2
  <2>3. W[q + 1] = SubSeq(s, q * Cols + 1, LeastOf((q + 1) * Cols, len))
    BY <1>5, <2>2
  <2>. QED
    BY <2>1, <2>3 DEF m
<1>8. \A a, b \in Nat : b <= len => SubSeq(s, a + 1, b) \in Seq(Char)
  <2>1. SUFFICES ASSUME NEW a \in Nat, NEW b \in Nat, b <= len PROVE SubSeq(s, a + 1, b) \in Seq(Char)
    OBVIOUS
  <2>2. a + 1 \in Int /\ b \in Int /\ \A i \in a + 1 .. b : i \in 1 .. len
    BY <1>1, <2>1
  <2>3. \A i \in a + 1 .. b : s[i] \in Char
    BY <1>1, <2>2
  <2>. QED
    BY <2>2, <2>3, SubSeqProperties
<1>9. Len(SubSeq(s, m + 1, len)) = r
  <2>1. m + 1 \in Int /\ len \in Int /\ \A i \in m + 1 .. len : i \in 1 .. len
    BY <1>1, <1>3
  <2>2. \A i \in m + 1 .. len : s[i] \in Char
    BY <1>1, <2>1
  <2>3. Len(SubSeq(s, m + 1, len)) = IF m + 1 <= len THEN len - (m + 1) + 1 ELSE 0
    <3>. HIDE DEF len
    <3>. QED
      BY <2>1, <2>2, SubSeqProperties
  <2>. HIDE DEF len
  <2>. QED
    BY <1>1, <1>2, <1>3, <2>3
<1>10. W \in Seq(Seq(Char)) /\ Len(W) = q + 1 /\ W # <<>>
  <2>1. \A k \in 1 .. q + 1 : k \in 1 .. q \/ k = q + 1
    BY <1>2
  <2>2. \A k \in 1 .. q + 1 : W[k] \in Seq(Char)
    <3>1. W[q + 1] \in Seq(Char)
      <4>1. len <= len
        BY <1>1
      <4>. HIDE DEF W
      <4>. QED
        BY <1>1, <1>3, <1>7, <1>8, <4>1
    <3>2. ASSUME NEW k \in 1 .. q PROVE W[k] \in Seq(Char)
      <4>. DEFINE a == (k - 1) * Cols
                  b == k * Cols
      <4>1. a \in Nat /\ b \in Nat /\ b <= len /\ W[k] = SubSeq(s, a + 1, b)
        BY <1>4, <1>6
      <4>. HIDE DEF a, b, W
      <4>. QED
        BY <1>8, <4>1
    <3>. QED
      BY <2>1, <3>1, <3>2
  <2>. DEFINE S == Seq(Char)
  <2>3. \A k \in 1 .. q + 1 : W[k] \in S
    BY <2>2
  <2>. HIDE DEF S
  <2>4. W \in [1 .. q + 1 -> S]
    BY <1>5, <2>3
  <2>5. q + 1 \in Nat
    BY <1>2
  <2>. HIDE DEF W
  <2>6. W \in Seq(S) /\ Len(W) = q + 1
    BY <2>4, <2>5
  <2>7. W # <<>>
    BY <1>2, <2>6
  <2>. QED
    BY <2>6, <2>7 DEF S
<1>11. Row(W) = SubSeq(s, m + 1, len)
  BY <1>7, <1>10 DEF Row
<1>12. W \in Sheets
  <2>. HIDE DEF W
  <2>1. Len(Row(W)) = r
    BY <1>9, <1>11
  <2>. QED
    BY <1>1, <1>2, <1>10, <2>1 DEF Sheets
<1>. QED
  BY <1>6, <1>9, <1>10, <1>11, <1>12 DEF q, r, m

\* Another character of a text goes to the end of its last row.
LEMMA WrapAdds ==
  ASSUME NEW s \in Seq(Char), NEW c \in Char
  PROVE  Adds(Wrap(s), c, Wrap(Append(s, c)))
<1>. DEFINE s2 == Append(s, c)
            len == Len(s)
            q == len \div Cols
            r == len % Cols
            m == q * Cols
            W == Wrap(s)
            W2 == Wrap(s2)
            q2 == (len + 1) \div Cols
<1>1. /\ len \in Nat /\ Cols \in Nat \ {0} /\ s2 \in Seq(Char) /\ Len(s2) = len + 1
      /\ \A i \in 1 .. len : s2[i] = s[i] /\ s[i] \in Char
      /\ s2[len + 1] = c
  BY LenProperties, ElementOfSeq, AppendProperties, ScreenSizes
<1>2. q \in Nat /\ r \in 0 .. Cols - 1 /\ len = Cols * q + r
  <2>. HIDE DEF len
  <2>. QED
    BY <1>1, Division
<1>3. m \in Nat /\ len = m + r /\ (q + 1) * Cols = m + Cols
  <2>. HIDE DEF q, r, len
  <2>. QED
    BY <1>1, <1>2
<1>4. /\ Len(W) = q + 1 /\ Row(W) = SubSeq(s, m + 1, len) /\ Len(Row(W)) = r
      /\ \A k \in 1 .. q : W[k] = SubSeq(s, (k - 1) * Cols + 1, k * Cols) /\ k * Cols <= len
  <2>. HIDE DEF W
  <2>. QED
    BY WrapIs DEF W
<1>. HIDE DEF s2
<1>5. /\ Len(W2) = q2 + 1 /\ Row(W2) = SubSeq(s2, q2 * Cols + 1, len + 1)
      /\ Len(Row(W2)) = (len + 1) % Cols
      /\ \A k \in 1 .. q2 : W2[k] = SubSeq(s2, (k - 1) * Cols + 1, k * Cols)
  BY <1>1, WrapIs
<1>6. (r + 1 < Cols => q2 = q) /\ (r + 1 = Cols => q2 = q + 1 /\ (len + 1) % Cols = 0)
  <2>. HIDE DEF q, r, len
  <2>1. CASE r + 1 < Cols
    <3>1. r + 1 \in 0 .. Cols - 1 /\ len + 1 = Cols * q + (r + 1)
      BY <1>1, <1>2, <2>1
    <3>2. (Cols * q + (r + 1)) \div Cols = q
      BY <1>1, <1>2, <3>1, Remainder
    <3>. QED
      BY <2>1, <3>1, <3>2
  <2>2. CASE r + 1 = Cols
    <3>1. 0 \in 0 .. Cols - 1 /\ len + 1 = Cols * (q + 1) + 0 /\ q + 1 \in Nat
      BY <1>1, <1>2, <2>2
    <3>2. (Cols * (q + 1) + 0) \div Cols = q + 1 /\ (Cols * (q + 1) + 0) % Cols = 0
      BY <1>1, <3>1, Remainder
    <3>. DEFINE x == Cols * (q + 1) + 0
    <3>3. len + 1 = x /\ x \div Cols = q + 1 /\ x % Cols = 0
      BY <3>1, <3>2
    <3>. HIDE DEF x
    <3>4. q2 = q + 1 /\ (len + 1) % Cols = 0
      BY <3>3
    <3>5. ~ (r + 1 < Cols)
      BY <1>1, <1>2, <2>2
    <3>. QED
      BY <3>4, <3>5
  <2>. QED
    BY <2>1, <2>2
<1>. HIDE DEF q, r, m, q2, W, W2
<1>7. r + 1 < Cols \/ r + 1 = Cols
  BY <1>1, <1>2
\* The rows before the last one have not changed.
<1>8. ASSUME NEW a \in Nat, NEW b \in Nat, b <= len PROVE SubSeq(s2, a + 1, b) = SubSeq(s, a + 1, b)
  <2>. DEFINE u == SubSeq(s2, a + 1, b)
              v == SubSeq(s, a + 1, b)
              n == b - (a + 1) + 1
  <2>1. a + 1 \in Int /\ b \in Int /\ \A i \in a + 1 .. b : i \in 1 .. len
    BY <1>1, <1>8
  <2>2. \A i \in a + 1 .. b : s2[i] = s[i] /\ s[i] \in Char /\ s2[i] \in Char
    BY <1>1, <2>1
  <2>3. /\ u \in Seq(Char) /\ Len(u) = (IF a + 1 <= b THEN n ELSE 0)
        /\ \A i \in 1 .. n : u[i] = s2[a + 1 + i - 1]
    BY <2>1, <2>2, SubSeqProperties
  <2>4. /\ v \in Seq(Char) /\ Len(v) = (IF a + 1 <= b THEN n ELSE 0)
        /\ \A i \in 1 .. n : v[i] = s[a + 1 + i - 1]
    BY <2>1, <2>2, SubSeqProperties
  <2>. HIDE DEF u, v
  <2>5. \A i \in 1 .. Len(u) : i \in 1 .. n /\ a + 1 + i - 1 \in a + 1 .. b
    BY <2>1, <2>3
  <2>6. \A i \in 1 .. Len(u) : u[i] = v[i]
    BY <2>2, <2>3, <2>4, <2>5
  <2>7. u = v
    BY <2>3, <2>4, <2>6, SeqEqual
  <2>. QED
    BY <2>7 DEF u, v
<1>9. \A k \in 1 .. q : W2[k] = W[k]
  <2>1. SUFFICES ASSUME NEW k \in 1 .. q PROVE W2[k] = W[k]
    OBVIOUS
  <2>2. k \in 1 .. q2
    BY <1>2, <1>6, <1>7
  <2>. DEFINE a == (k - 1) * Cols
              b == k * Cols
  <2>3. a \in Nat /\ b \in Nat
    <3>1. k \in Nat /\ k - 1 \in Nat
      BY <1>2
    <3>. QED
      BY <1>1, <3>1
  <2>4. W2[k] = SubSeq(s2, a + 1, b) /\ W[k] = SubSeq(s, a + 1, b) /\ b <= len
    BY <1>4, <1>5, <2>2
  <2>. HIDE DEF a, b
  <2>. QED
    BY <1>8, <2>3, <2>4
\* The character is at the end of the last row.
<1>10. SubSeq(s2, m + 1, len + 1) = Append(SubSeq(s, m + 1, len), c)
  <2>. DEFINE u == SubSeq(s2, m + 1, len + 1)
              v == SubSeq(s, m + 1, len)
              w == Append(v, c)
  <2>1. m + 1 \in Int /\ len \in Int /\ len + 1 \in Int
        /\ (\A i \in m + 1 .. len : i \in 1 .. len)
        /\ (\A i \in m + 1 .. len + 1 : i \in 1 .. len \/ i = len + 1)
    BY <1>1, <1>3
  <2>2. (\A i \in m + 1 .. len : s[i] \in Char) /\ (\A i \in m + 1 .. len + 1 : s2[i] \in Char)
    BY <1>1, <2>1
  <2>3. /\ u \in Seq(Char) /\ Len(u) = (IF m + 1 <= len + 1 THEN (len + 1) - (m + 1) + 1 ELSE 0)
        /\ \A i \in 1 .. (len + 1) - (m + 1) + 1 : u[i] = s2[m + 1 + i - 1]
    <3>. HIDE DEF len
    <3>. QED
      BY <2>1, <2>2, SubSeqProperties
  <2>4. /\ v \in Seq(Char) /\ Len(v) = (IF m + 1 <= len THEN len - (m + 1) + 1 ELSE 0)
        /\ \A i \in 1 .. len - (m + 1) + 1 : v[i] = s[m + 1 + i - 1]
    <3>. HIDE DEF len
    <3>. QED
      BY <2>1, <2>2, SubSeqProperties
  <2>5. Len(u) = r + 1 /\ Len(v) = r
    <3>. HIDE DEF u, v, len
    <3>. QED
      BY <1>1, <1>2, <1>3, <2>3, <2>4
  <2>6. /\ w \in Seq(Char) /\ Len(w) = r + 1 /\ w[r + 1] = c
        /\ \A i \in 1 .. r : w[i] = v[i]
    <3>. HIDE DEF v
    <3>. QED
      BY <2>4, <2>5, AppendProperties
  <2>. HIDE DEF u, v, w
  <2>7. \A i \in 1 .. r + 1 : u[i] = s2[m + i]
    <3>1. SUFFICES ASSUME NEW i \in 1 .. r + 1 PROVE u[i] = s2[m + i]
      OBVIOUS
    <3>. HIDE DEF len
    <3>2. i \in 1 .. (len + 1) - (m + 1) + 1 /\ m + 1 + i - 1 = m + i
      BY <1>1, <1>2, <1>3
    <3>. QED
      BY <2>3, <3>2
  <2>8. \A i \in 1 .. r : v[i] = s[m + i] /\ m + i \in 1 .. len
    <3>1. SUFFICES ASSUME NEW i \in 1 .. r PROVE v[i] = s[m + i] /\ m + i \in 1 .. len
      OBVIOUS
    <3>. HIDE DEF len
    <3>2. i \in 1 .. len - (m + 1) + 1 /\ m + 1 + i - 1 = m + i /\ m + i \in 1 .. len
      BY <1>1, <1>2, <1>3
    <3>. QED
      BY <2>4, <3>2
  <2>9. \A i \in 1 .. r + 1 : u[i] = w[i]
    <3>1. SUFFICES ASSUME NEW i \in 1 .. r + 1 PROVE u[i] = w[i]
      OBVIOUS
    <3>2. CASE i \in 1 .. r
      BY <1>1, <2>6, <2>7, <2>8, <3>2
    <3>3. CASE i = r + 1
      <4>1. m + (r + 1) = len + 1
        <5>. HIDE DEF len
        <5>. QED
          BY <1>1, <1>2, <1>3
      <4>. QED
        BY <1>1, <2>6, <2>7, <3>3, <4>1
    <3>4. i \in 1 .. r \/ i = r + 1
      BY <1>2
    <3>. QED
      BY <3>2, <3>3, <3>4
  <2>10. u = w
    BY <2>3, <2>5, <2>6, <2>9, SeqEqual
  <2>. QED
    BY <2>10 DEF u, v, w
<1>11. W2[q + 1] = SubSeq(s2, m + 1, len + 1)
  <2>1. CASE r + 1 < Cols
    BY <1>5, <1>6, <2>1 DEF Row, m
  <2>2. CASE r + 1 = Cols
    <3>1. q + 1 \in 1 .. q2 /\ (q + 1) - 1 = q
      BY <1>2, <1>6, <2>2
    <3>2. W2[q + 1] = SubSeq(s2, q * Cols + 1, (q + 1) * Cols)
      BY <1>5, <3>1
    <3>3. (q + 1) * Cols = len + 1
      BY <1>1, <1>2, <1>3, <2>2
    <3>. QED
      BY <3>2, <3>3 DEF m
  <2>. QED
    BY <1>7, <2>1, <2>2
<1>12. r + 1 = Cols => W2[(q + 1) + 1] = <<>>
  <2>1. SUFFICES ASSUME r + 1 = Cols PROVE W2[(q + 1) + 1] = <<>>
    OBVIOUS
  <2>2. Row(W2) = W2[(q + 1) + 1] /\ Len(Row(W2)) = 0
    BY <1>5, <1>6, <2>1 DEF Row
  <2>3. Row(W2) \in Seq(Char)
    <3>1. W2 \in Sheets
      BY <1>1, WrapIs DEF W2
    <3>2. W2 \in Seq(Seq(Char)) /\ Len(W2) \in 1 .. Len(W2)
      BY <1>2, <1>5, <1>6, <1>7, <3>1 DEF Sheets
    <3>. QED
      BY <3>2, ElementOfSeq DEF Row
  <2>. QED
    BY <2>2, <2>3, EmptySeq
<1>13. Len(W2) = Len(W) + IF r + 1 = Cols THEN 1 ELSE 0
  BY <1>1, <1>2, <1>4, <1>5, <1>6, <1>7
<1>14. Len(W) - 1 = q
  BY <1>2, <1>4
<1>15. Adds(W, c, W2)
  BY <1>4, <1>9, <1>10, <1>11, <1>12, <1>13, <1>14 DEF Adds
<1>. QED
  BY <1>15 DEF W, W2, s2

\* The cell of the sheet W at a row and a column.
Shown(W, i, c) ==
  IF i \in 1 .. Len(W) /\ c < Len(W[i]) THEN [attr |-> AttrLog, ch |-> W[i][c + 1]] ELSE Blank

\* The cells g show the end of W, its last row in a row of the screen.
Shows(W, g, row, col) ==
  /\ row \in Nat /\ Len(W) - 1 - row \in Nat
  /\ Len(W) - 1 - row = 0 \/ row >= Rows - 1
  /\ col = Len(Row(W))
  /\ DOMAIN g = 0 .. Cols * Rows - 1
  /\ \A r \in 0 .. Rows - 1, c \in 0 .. Cols - 1 :
       g[r * Cols + c] = Shown(W, Len(W) - row + r, c)

LEMMA CellIndex ==
  ASSUME NEW r \in 0 .. Rows - 1, NEW c \in 0 .. Cols - 1
  PROVE  /\ r * Cols + c \in 0 .. Cols * Rows - 1
         /\ r < Rows - 1 => r * Cols + c < Cols * (Rows - 1)
         /\ r = Rows - 1 => ~ (r * Cols + c < Cols * (Rows - 1))
         /\ (r * Cols + c) + Cols = (r + 1) * Cols + c
         /\ \A r2 \in 0 .. Rows - 1, c2 \in 0 .. Cols - 1 :
              r * Cols + c = r2 * Cols + c2 => r = r2 /\ c = c2
<1>. USE ScreenSizes
<1>1. r \in Nat /\ c \in Nat /\ r * Cols \in Nat
  OBVIOUS
<1>2. Cols * (Rows - 1) = Cols * Rows - Cols /\ Cols * Rows \in Nat
  OBVIOUS
<1>3. r * Cols <= Cols * (Rows - 1) /\ (r < Rows - 1 => r * Cols + Cols <= Cols * (Rows - 1))
  <2>1. Rows - 1 - r \in Nat
    OBVIOUS
  <2>2. Cols * (Rows - 1) = r * Cols + (Rows - 1 - r) * Cols
    BY <1>1
  <2>3. (Rows - 1 - r) * Cols \in Nat
    BY <2>1
  <2>4. r < Rows - 1 => (Rows - 1 - r) * Cols >= Cols
    <3>1. r < Rows - 1 => Rows - 2 - r \in Nat
      BY <1>1
    <3>2. r < Rows - 1 => (Rows - 2 - r) * Cols \in Nat
      BY <3>1
    <3>3. (Rows - 1 - r) * Cols = (Rows - 2 - r) * Cols + Cols
      BY <1>1
    <3>. QED
      BY <3>2, <3>3
  <2>. QED
    BY <1>1, <2>2, <2>3, <2>4
<1>4. ASSUME NEW r2 \in 0 .. Rows - 1, NEW c2 \in 0 .. Cols - 1, r * Cols + c = r2 * Cols + c2
      PROVE  r = r2 /\ c = c2
  <2>1. r2 \in Nat /\ r * Cols + c = Cols * r + c /\ r2 * Cols + c2 = Cols * r2 + c2
    BY <1>1
  <2>2. (Cols * r + c) % Cols = c /\ (Cols * r + c) \div Cols = r
    BY <1>1, Remainder
  <2>3. (Cols * r2 + c2) % Cols = c2 /\ (Cols * r2 + c2) \div Cols = r2
    BY <2>1, Remainder
  <2>. QED
    BY <1>4, <2>1, <2>2, <2>3
<1>5. r = Rows - 1 => r * Cols = Cols * (Rows - 1)
  BY <1>1
<1>6. (r * Cols + c) + Cols = (r + 1) * Cols + c
  BY <1>1
<1>. QED
  BY <1>1, <1>2, <1>3, <1>4, <1>5, <1>6

LEMMA SheetIs ==
  ASSUME NEW W \in Sheets
  PROVE  /\ Len(W) \in Nat \ {0} /\ Row(W) \in Seq(Char) /\ Len(Row(W)) \in 0 .. Cols - 1
         /\ \A k \in 1 .. Len(W) : W[k] \in Seq(Char)
<1>. DEFINE S == Seq(Char)
<1>1. W \in Seq(S) /\ W # <<>> /\ Len(Row(W)) < Cols
  BY DEF Sheets
<1>. HIDE DEF S
<1>2. Len(W) \in Nat \ {0} /\ \A k \in 1 .. Len(W) : W[k] \in S
  BY <1>1, EmptySeq, ElementOfSeq
<1>3. Row(W) \in S
  BY <1>2 DEF Row
<1>4. Len(Row(W)) \in Nat
  BY <1>3, LenProperties DEF S
<1>. QED
  BY <1>1, <1>2, <1>3, <1>4, ScreenSizes DEF S

\* A character is put where the screen shows the end of the last row.
LEMMA PutShows ==
  ASSUME NEW W \in Sheets, NEW W2 \in Sheets, NEW ch \in Char, Adds(W, ch, W2), NEW g,
         NEW row \in 0 .. Rows - 1, NEW col, Shows(W, g, row, col)
  PROVE  /\ col \in 0 .. Cols - 1
         /\ Shows(W2, [g EXCEPT ![row * Cols + col] = [attr |-> AttrLog, ch |-> ch]],
                  IF col + 1 = Cols THEN row + 1 ELSE row,
                  IF col + 1 = Cols THEN 0 ELSE col + 1)
<1>. DEFINE cell == [attr |-> AttrLog, ch |-> ch]
            g2 == [g EXCEPT ![row * Cols + col] = cell]
            row2 == IF col + 1 = Cols THEN row + 1 ELSE row
            col2 == IF col + 1 = Cols THEN 0 ELSE col + 1
            n == Len(W)
            last == Row(W)
<1>1. n \in Nat \ {0} /\ last \in Seq(Char) /\ Len(last) \in 0 .. Cols - 1 /\ last = W[n]
      /\ \A k \in 1 .. n : W[k] \in Seq(Char)
  BY SheetIs DEF Row
<1>2. Len(W2) \in Nat \ {0} /\ Row(W2) = W2[Len(W2)]
  BY SheetIs DEF Row
<1>3. /\ Len(W2) = n + (IF Len(last) + 1 = Cols THEN 1 ELSE 0)
      /\ \A k \in 1 .. n - 1 : W2[k] = W[k]
      /\ W2[n] = Append(last, ch)
      /\ Len(last) + 1 = Cols => W2[n + 1] = <<>>
  BY DEF Adds
<1>4. Cols \in Nat \ {0} /\ Rows \in Nat \ {0}
  BY ScreenSizes
<1>5. /\ row \in Nat /\ n - 1 - row \in Nat /\ (n - 1 - row = 0 \/ row >= Rows - 1)
      /\ col = Len(last) /\ DOMAIN g = 0 .. Cols * Rows - 1
      /\ \A r \in 0 .. Rows - 1, c \in 0 .. Cols - 1 : g[r * Cols + c] = Shown(W, n - row + r, c)
  BY DEF Shows
<1>6. Len(Append(last, ch)) = Len(last) + 1 /\ Append(last, ch)[Len(last) + 1] = ch
      /\ \A i \in 1 .. Len(last) : Append(last, ch)[i] = last[i]
  BY <1>1, AppendProperties
<1>. HIDE DEF n, last, cell
<1>7. Len(W2) - 1 - row2 = n - 1 - row /\ row2 \in Nat /\ Len(W2) - row2 = n - row
  BY <1>1, <1>3, <1>4, <1>5
<1>8. Len(W2) - 1 - row2 = 0 \/ row2 >= Rows - 1
  BY <1>4, <1>5, <1>7
<1>9. col2 = Len(Row(W2))
  <2>1. CASE Len(last) + 1 = Cols
    BY <1>1, <1>2, <1>3, <1>5, <2>1
  <2>2. CASE Len(last) + 1 # Cols
    BY <1>1, <1>2, <1>3, <1>5, <1>6, <2>2
  <2>. QED
    BY <2>1, <2>2
<1>10. DOMAIN g2 = 0 .. Cols * Rows - 1
  BY <1>5
<1>11. ASSUME NEW r \in 0 .. Rows - 1, NEW c \in 0 .. Cols - 1
       PROVE  g2[r * Cols + c] = Shown(W2, n - row + r, c)
  <2>. DEFINE i == n - row + r
  <2>1. r * Cols + c \in DOMAIN g
    BY <1>5, CellIndex
  <2>2. col \in 0 .. Cols - 1 /\ row \in 0 .. Rows - 1 /\ i \in Nat \ {0} /\ (r = row <=> i = n)
    BY <1>1, <1>4, <1>5
  <2>3. CASE r = row /\ c = col
    <3>1. g2[r * Cols + c] = cell
      BY <2>1, <2>3
    <3>2. i = n /\ n \in 1 .. Len(W2) /\ c < Len(W2[n]) /\ W2[n][c + 1] = ch
      BY <1>1, <1>2, <1>3, <1>5, <1>6, <2>2, <2>3
    <3>. HIDE DEF i
    <3>3. Shown(W2, i, c) = cell
      BY <3>2 DEF Shown, cell
    <3>. QED
      BY <3>1, <3>3 DEF i
  <2>4. CASE ~ (r = row /\ c = col)
    <3>1. r * Cols + c # row * Cols + col
      BY <2>2, <2>4, CellIndex
    <3>2. g2[r * Cols + c] = Shown(W, i, c)
      BY <1>5, <2>1, <3>1
    <3>. HIDE DEF i, g2
    <3>3. Shown(W, i, c) = Shown(W2, i, c)
      <4>1. CASE i < n
        <5>1. i \in 1 .. n - 1 /\ i \in 1 .. n
          BY <1>1, <2>2, <4>1
        <5>2. Len(W2) >= n
          BY <1>1, <1>2, <1>3
        <5>3. i \in 1 .. Len(W2)
          BY <1>1, <1>2, <5>1, <5>2
        <5>4. W2[i] = W[i]
          BY <1>3, <5>1
        <5>. QED
          BY <5>1, <5>3, <5>4 DEF Shown, n
      <4>2. CASE i = n
        <5>1. i \in 1 .. Len(W) /\ i \in 1 .. Len(W2) /\ W[i] = last /\ W2[i] = Append(last, ch)
          BY <1>1, <1>2, <1>3, <4>2 DEF n
        <5>2. c # Len(last)
          BY <1>5, <2>2, <2>4, <4>2
        <5>3. CASE c < Len(last)
          <6>1. c < Len(Append(last, ch)) /\ c + 1 \in 1 .. Len(last)
            BY <1>1, <1>6, <5>3
          <6>2. Append(last, ch)[c + 1] = last[c + 1]
            BY <1>6, <6>1
          <6>. QED
            BY <5>1, <5>3, <6>1, <6>2 DEF Shown
        <5>4. CASE c > Len(last)
          <6>1. ~ (c < Len(last)) /\ ~ (c < Len(Append(last, ch)))
            BY <1>1, <1>6, <5>4
          <6>. QED
            BY <5>1, <6>1 DEF Shown
        <5>. QED
          BY <1>1, <5>2, <5>3, <5>4
      <4>3. CASE i > n
        <5>1. i \notin 1 .. Len(W)
          BY <1>1, <2>2, <4>3 DEF n
        <5>2. i \in 1 .. Len(W2) => ~ (c < Len(W2[i]))
          <6>1. i \in 1 .. Len(W2) => Len(last) + 1 = Cols /\ i = n + 1
            BY <1>1, <1>2, <1>3, <2>2, <4>3
          <6>2. Len(<<>>) = 0 /\ ~ (c < 0)
            OBVIOUS
          <6>. QED
            BY <1>3, <6>1, <6>2
        <5>. QED
          BY <5>1, <5>2 DEF Shown
      <4>. QED
        BY <1>1, <2>2, <4>1, <4>2, <4>3
    <3>. QED
      BY <3>2, <3>3 DEF i
  <2>. QED
    BY <2>3, <2>4
<1>12. Len(W2) - 1 - row2 \in Nat
  BY <1>5, <1>7
<1>13. \A r \in 0 .. Rows - 1, c \in 0 .. Cols - 1 :
         g2[r * Cols + c] = Shown(W2, Len(W2) - row2 + r, c)
  <2>. HIDE DEF g2, row2
  <2>. QED
    BY <1>7, <1>11
<1>14. Shows(W2, g2, row2, col2)
  <2>. HIDE DEF g2, row2, col2
  <2>. QED
    BY <1>7, <1>8, <1>9, <1>10, <1>12, <1>13 DEF Shows
<1>15. col \in 0 .. Cols - 1
  BY <1>1, <1>5
<1>. QED
  BY <1>14, <1>15 DEF cell

\* A sheet with an empty row below it.
LEMMA NewLine ==
  ASSUME NEW W \in Sheets
  PROVE  /\ Append(W, <<>>) \in Sheets /\ Len(Append(W, <<>>)) = Len(W) + 1
         /\ Append(W, <<>>)[Len(W) + 1] = <<>> /\ Row(Append(W, <<>>)) = <<>>
         /\ \A k \in 1 .. Len(W) : Append(W, <<>>)[k] = W[k]
<1>. DEFINE W2 == Append(W, <<>>)
            S == Seq(Char)
<1>1. Len(W) \in Nat \ {0}
  BY SheetIs
<1>2. /\ W2 \in Seq(S) /\ W2 # <<>> /\ Len(W2) = Len(W) + 1
      /\ W2[Len(W) + 1] = <<>> /\ \A k \in 1 .. Len(W) : W2[k] = W[k]
  <2>1. <<>> \in S /\ W \in Seq(S)
    BY DEF Sheets
  <2>. HIDE DEF S
  <2>. QED
    BY <2>1, AppendProperties
<1>. HIDE DEF W2
<1>3. Row(W2) = <<>> /\ Len(<<>>) = 0
  BY <1>2 DEF Row
<1>4. W2 \in Sheets
  <2>1. Len(Row(W2)) < Cols
    BY <1>3, ScreenSizes
  <2>. QED
    BY <1>2, <2>1 DEF Sheets
<1>. QED
  BY <1>2, <1>3, <1>4 DEF W2

\* A new line is an empty row.
LEMMA LineShows ==
  ASSUME NEW W \in Sheets, NEW g, NEW row \in 0 .. Rows - 1, NEW col, Shows(W, g, row, col)
  PROVE  /\ Append(W, <<>>) \in Sheets
         /\ Shows(Append(W, <<>>), g, row + 1, 0)
<1>. DEFINE W2 == Append(W, <<>>)
            n == Len(W)
<1>1. n \in Nat \ {0} /\ \A k \in 1 .. n : W[k] \in Seq(Char)
  BY SheetIs
<1>2. /\ W2 \in Sheets /\ Len(W2) = n + 1 /\ W2[n + 1] = <<>> /\ Row(W2) = <<>>
      /\ \A k \in 1 .. n : W2[k] = W[k]
  BY NewLine
<1>. HIDE DEF W2
<1>3. Row(W2) = <<>> /\ Len(<<>>) = 0
  BY <1>2
<1>4. Cols \in Nat \ {0} /\ Rows \in Nat \ {0}
  BY ScreenSizes
<1>5. /\ row \in Nat /\ n - 1 - row \in Nat /\ (n - 1 - row = 0 \/ row >= Rows - 1)
      /\ DOMAIN g = 0 .. Cols * Rows - 1
      /\ \A r \in 0 .. Rows - 1, c \in 0 .. Cols - 1 : g[r * Cols + c] = Shown(W, n - row + r, c)
  BY DEF Shows
<1>6. ASSUME NEW i \in Nat \ {0}, NEW c \in 0 .. Cols - 1 PROVE Shown(W, i, c) = Shown(W2, i, c)
  <2>1. CASE i \in 1 .. n
    <3>1. i \in 1 .. Len(W2) /\ W2[i] = W[i] /\ i \in 1 .. Len(W)
      BY <1>1, <1>2, <2>1
    <3>. QED
      BY <3>1 DEF Shown
  <2>2. CASE i = n + 1
    <3>1. ~ (c < Len(W2[i])) /\ i \notin 1 .. Len(W)
      BY <1>1, <1>2, <1>3, <2>2
    <3>. QED
      BY <3>1 DEF Shown
  <2>3. CASE i > n + 1
    <3>1. i \notin 1 .. Len(W) /\ i \notin 1 .. Len(W2)
      BY <1>1, <1>2, <2>3
    <3>. QED
      BY <3>1 DEF Shown
  <2>. QED
    BY <1>1, <2>1, <2>2, <2>3
<1>7. Len(W2) - 1 - (row + 1) = n - 1 - row /\ row + 1 \in Nat /\ Len(W2) - (row + 1) = n - row
      /\ (n - 1 - row = 0 \/ row + 1 >= Rows - 1)
  BY <1>1, <1>2, <1>4, <1>5
<1>8. \A r \in 0 .. Rows - 1, c \in 0 .. Cols - 1 :
        g[r * Cols + c] = Shown(W2, Len(W2) - (row + 1) + r, c)
  <2>1. \A r \in 0 .. Rows - 1 : n - row + r \in Nat \ {0}
    BY <1>1, <1>4, <1>5
  <2>. HIDE DEF n
  <2>. QED
    BY <1>5, <1>6, <1>7, <2>1
<1>9. Shows(W2, g, row + 1, 0)
  <2>1. Len(W2) - 1 - (row + 1) \in Nat
    BY <1>5, <1>7
  <2>2. Len(W2) - 1 - (row + 1) = 0 \/ row + 1 >= Rows - 1
    BY <1>7
  <2>. HIDE DEF n
  <2>. QED
    BY <1>3, <1>5, <1>7, <1>8, <2>1, <2>2 DEF Shows
<1>. QED
  BY <1>2, <1>9 DEF W2

\* Below the screen, the screen is moved up.
LEMMA ScrollShows ==
  ASSUME NEW W \in Sheets, NEW g, Shows(W, g, Rows, 0)
  PROVE  Shows(W, [i \in DOMAIN g |-> IF i < Cols * (Rows - 1) THEN g[i + Cols] ELSE Blank],
               Rows - 1, 0)
<1>. DEFINE g2 == [i \in DOMAIN g |-> IF i < Cols * (Rows - 1) THEN g[i + Cols] ELSE Blank]
            n == Len(W)
<1>1. n \in Nat \ {0} /\ Cols \in Nat \ {0} /\ Rows \in Nat \ {0}
  BY SheetIs, ScreenSizes
<1>2. /\ n - 1 - Rows \in Nat /\ 0 = Len(Row(W)) /\ DOMAIN g = 0 .. Cols * Rows - 1
      /\ \A r \in 0 .. Rows - 1, c \in 0 .. Cols - 1 : g[r * Cols + c] = Shown(W, n - Rows + r, c)
  BY DEF Shows
<1>3. ASSUME NEW r \in 0 .. Rows - 1, NEW c \in 0 .. Cols - 1
      PROVE  g2[r * Cols + c] = Shown(W, n - (Rows - 1) + r, c)
  <2>. DEFINE k == r * Cols + c
  <2>1. /\ k \in DOMAIN g
        /\ r < Rows - 1 => k < Cols * (Rows - 1)
        /\ r = Rows - 1 => ~ (k < Cols * (Rows - 1))
        /\ k + Cols = (r + 1) * Cols + c
    BY <1>2, CellIndex
  <2>2. g2[k] = IF k < Cols * (Rows - 1) THEN g[k + Cols] ELSE Blank
    BY <2>1
  <2>. HIDE DEF k, g2
  <2>3. CASE r < Rows - 1
    <3>1. r + 1 \in 0 .. Rows - 1 /\ n - Rows + (r + 1) = n - (Rows - 1) + r
      BY <1>1, <2>3
    <3>2. g[(r + 1) * Cols + c] = Shown(W, n - Rows + (r + 1), c)
      BY <1>2, <3>1
    <3>. QED
      BY <2>1, <2>2, <2>3, <3>1, <3>2 DEF k
  <2>4. CASE r = Rows - 1
    <3>1. n - (Rows - 1) + r = n
      BY <1>1, <2>4
    <3>2. ~ (c < Len(W[n]))
      BY <1>2 DEF Row
    <3>3. Shown(W, n, c) = Blank
      BY <3>2 DEF Shown
    <3>. QED
      BY <2>1, <2>2, <2>4, <3>1, <3>3 DEF k
  <2>. QED
    BY <1>1, <2>3, <2>4
<1>4. DOMAIN g2 = 0 .. Cols * Rows - 1
  BY <1>2
<1>5. Rows - 1 \in Nat /\ n - 1 - (Rows - 1) \in Nat /\ Rows - 1 >= Rows - 1
  BY <1>1, <1>2
<1>. HIDE DEF g2
<1>6. Shows(W, g2, Rows - 1, 0)
  BY <1>2, <1>3, <1>4, <1>5 DEF Shows
<1>. QED
  BY <1>6 DEF g2

\* A sheet below other rows.
LEMMA Pasted ==
  ASSUME NEW A \in Seq(Seq(Char)), NEW V \in Sheets
  PROVE  /\ A \o V \in Sheets /\ Len(A \o V) = Len(A) + Len(V) /\ Row(A \o V) = Row(V)
         /\ \A k \in 1 .. Len(A) : (A \o V)[k] = A[k]
         /\ \A k \in 1 .. Len(V) : (A \o V)[Len(A) + k] = V[k]
<1>. DEFINE S == Seq(Char)
            a == Len(A)
            U == A \o V
<1>0. V \in Seq(S) /\ A \in Seq(S) /\ Len(V) \in Nat \ {0} /\ Len(Row(V)) < Cols
  BY SheetIs DEF Sheets
<1>1. /\ U \in Seq(S) /\ Len(U) = a + Len(V) /\ a \in Nat
      /\ \A k \in 1 .. a + Len(V) : U[k] = IF k <= a THEN A[k] ELSE V[k - a]
  <2>. HIDE DEF S
  <2>. QED
    BY <1>0, ConcatProperties, LenProperties
<1>. HIDE DEF U, S
<1>2. \A k \in 1 .. a : U[k] = A[k]
  BY <1>0, <1>1
<1>3. ASSUME NEW k \in 1 .. Len(V) PROVE U[a + k] = V[k]
  <2>1. a + k \in 1 .. a + Len(V) /\ ~ (a + k <= a) /\ (a + k) - a = k
    BY <1>0, <1>1
  <2>. QED
    BY <1>1, <2>1
<1>4. Row(U) = Row(V)
  BY <1>0, <1>1, <1>3 DEF Row
<1>5. U # <<>>
  BY <1>0, <1>1
<1>6. U \in Sheets
  BY <1>0, <1>1, <1>4, <1>5 DEF Sheets, S
<1>. QED
  BY <1>1, <1>2, <1>3, <1>4, <1>6 DEF U

\* What is above a sheet does not matter to a character that is put on it.
LEMMA AddsBelow ==
  ASSUME NEW A \in Seq(Seq(Char)), NEW W \in Sheets, NEW W2 \in Sheets, NEW c \in Char,
         Adds(W, c, W2)
  PROVE  /\ A \o W \in Sheets /\ A \o W2 \in Sheets
         /\ Adds(A \o W, c, A \o W2)
<1>. DEFINE S == Seq(Char)
            a == Len(A)
            n == Len(W)
<1>1. a \in Nat /\ n \in Nat \ {0} /\ Len(W2) \in Nat \ {0}
  <2>. HIDE DEF S
  <2>1. a \in Nat
    BY LenProperties
  <2>. QED
    BY <2>1, SheetIs
<1>. DEFINE B == A \o W
            B2 == A \o W2
<1>3. /\ B \in Sheets /\ Len(B) = a + n /\ Row(B) = Row(W)
      /\ \A k \in 1 .. a : B[k] = A[k]
      /\ \A k \in 1 .. n : B[a + k] = W[k]
  BY Pasted
<1>4. /\ B2 \in Sheets /\ Len(B2) = a + Len(W2) /\ Row(B2) = Row(W2)
      /\ \A k \in 1 .. a : B2[k] = A[k]
      /\ \A k \in 1 .. Len(W2) : B2[a + k] = W2[k]
  BY Pasted
<1>. HIDE DEF B, B2
<1>5. /\ Len(W2) = n + (IF Len(Row(W)) + 1 = Cols THEN 1 ELSE 0)
      /\ \A k \in 1 .. n - 1 : W2[k] = W[k]
      /\ W2[n] = Append(Row(W), c)
      /\ Len(Row(W)) + 1 = Cols => W2[n + 1] = <<>>
  BY DEF Adds
<1>6. Len(B2) = Len(B) + IF Len(Row(B)) + 1 = Cols THEN 1 ELSE 0
  <2>. DEFINE x == IF Len(Row(W)) + 1 = Cols THEN 1 ELSE 0
  <2>1. x \in Nat
    OBVIOUS
  <2>2. Len(W2) = n + x /\ x = IF Len(Row(B)) + 1 = Cols THEN 1 ELSE 0
    BY <1>3, <1>5
  <2>. HIDE DEF x
  <2>3. Len(B2) = Len(B) + x
    <3>1. Len(B2) = a + Len(W2) /\ Len(B) = a + n
      BY <1>3, <1>4
    <3>. HIDE DEF a, n
    <3>. QED
      BY <1>1, <2>1, <2>2, <3>1
  <2>. QED
    BY <2>2, <2>3
<1>7. \A k \in 1 .. Len(B) - 1 : B2[k] = B[k]
  <2>1. SUFFICES ASSUME NEW k \in 1 .. (a + n) - 1 PROVE B2[k] = B[k]
    BY <1>3
  <2>2. CASE k <= a
    <3>1. k \in 1 .. a
      BY <1>1, <2>2
    <3>. QED
      BY <1>3, <1>4, <3>1
  <2>3. CASE k > a
    <3>. DEFINE j == k - a
    <3>1. j \in 1 .. n - 1 /\ j \in 1 .. n /\ a + j = k
      BY <1>1, <2>3
    <3>2. j \in 1 .. Len(W2)
      BY <1>1, <1>5, <3>1
    <3>. HIDE DEF j
    <3>. QED
      BY <1>3, <1>4, <1>5, <3>1, <3>2
  <2>. QED
    BY <1>1, <2>2, <2>3
<1>8. B2[Len(B)] = Append(Row(B), c)
  <2>1. n \in 1 .. Len(W2)
    BY <1>1, <1>5
  <2>. QED
    BY <1>3, <1>4, <1>5, <2>1
<1>9. Len(Row(B)) + 1 = Cols => B2[Len(B) + 1] = <<>>
  <2>1. Len(Row(W)) + 1 = Cols => n + 1 \in 1 .. Len(W2) /\ a + (n + 1) = (a + n) + 1
    BY <1>1, <1>5
  <2>. QED
    BY <1>3, <1>4, <1>5, <2>1
<1>. QED
  BY <1>3, <1>4, <1>6, <1>7, <1>8, <1>9 DEF Adds, B, B2

\* A line of the log is printable.
LEMMA RenderedIs ==
  ASSUME NEW e, e.said \in Said, e.stamp \in Stamp
  PROVE  Rendered(e) \in Seq(Char)
<1>. DEFINE msg == e.said
            up == e.stamp.up
            blank == " "
            number(n) == [n |-> n, s |-> <<>>, c |-> blank]
            string(s) == [n |-> 0, s |-> s, c |-> blank]
<1>1. Sayable(msg) /\ up.sec \in Nat /\ up.usec \in Nat
  <2>1. \A m \in Said : Sayable(m)
    BY ConsoleAssumption
  <2>. QED
    BY <2>1 DEF Stamp, Up
<1>2. /\ StampFmt \in Seq(Char) /\ Cardinality(Percents(StampFmt)) <= 2
      /\ LevelFmt \in Seq(Char) /\ Cardinality(Percents(LevelFmt)) <= 3
      /\ FacFmt \in Seq(Char) /\ Cardinality(Percents(FacFmt)) <= 1
  BY ConsoleAssumption
<1>0. blank \in Char /\ <<>> \in Seq(Char)
  <2>1. blank \in Char
    BY Characters, Zenon
  <2>2. <<>> \in Seq(Char)
    OBVIOUS
  <2>. QED
    BY <2>1, <2>2
<1>. HIDE DEF blank
<1>3. \A n \in Nat : number(n) \in Arguments
  <2>1. SUFFICES ASSUME NEW n \in Nat PROVE number(n) \in Arguments
    OBVIOUS
  <2>. QED
    BY <1>0 DEF Arguments
<1>4. \A s \in Seq(Char) : string(s) \in Arguments
  <2>1. SUFFICES ASSUME NEW s \in Seq(Char) PROVE string(s) \in Arguments
    OBVIOUS
  <2>. QED
    BY <1>0 DEF Arguments
<1>5. Kvprintf(Format(msg), msg.args) \in Seq(Char)
  <2>1. /\ Format(msg) \in Seq(Char) /\ msg.args \in Seq(Arguments)
        /\ Cardinality(Percents(Format(msg))) <= Len(msg.args)
    BY <1>1 DEF Sayable, Arguments
  <2>. QED
    BY <2>1, KvprintfIs
<1>6. Kvprintf(StampFmt, <<number(up.sec), number(up.usec)>>) \in Seq(Char)
  <2>. DEFINE args == <<number(up.sec), number(up.usec)>>
  <2>1. args \in Seq(Arguments) /\ Len(args) = 2
    <3>1. number(up.sec) \in Arguments /\ number(up.usec) \in Arguments
      BY <1>1, <1>3
    <3>. HIDE DEF number
    <3>. QED
      BY <3>1
  <2>. HIDE DEF args
  <2>2. Cardinality(Percents(StampFmt)) <= Len(args)
    BY <1>2, <2>1
  <2>3. Kvprintf(StampFmt, args) \in Seq(Char)
    BY <1>2, <2>1, <2>2, KvprintfIs
  <2>. QED
    BY <2>3 DEF args
<1>7. msg.level # None =>
        Kvprintf(LevelFmt, <<string(msg.level), number(up.sec), number(up.usec)>>) \in Seq(Char)
  <2>. DEFINE args == <<string(msg.level), number(up.sec), number(up.usec)>>
  <2>1. msg.level # None => args \in Seq(Arguments) /\ Len(args) = 3
    <3>1. number(up.sec) \in Arguments /\ number(up.usec) \in Arguments
      BY <1>1, <1>3
    <3>2. msg.level # None => string(msg.level) \in Arguments
      BY <1>1, <1>4 DEF Sayable
    <3>. HIDE DEF number, string
    <3>. QED
      BY <3>1, <3>2
  <2>. HIDE DEF args
  <2>2. msg.level # None => Cardinality(Percents(LevelFmt)) <= Len(args)
    BY <1>2, <2>1
  <2>3. msg.level # None => Kvprintf(LevelFmt, args) \in Seq(Char)
    BY <1>2, <2>1, <2>2, KvprintfIs
  <2>. QED
    BY <2>3 DEF args
<1>8. msg.fac # None => Kvprintf(FacFmt, <<string(msg.fac)>>) \in Seq(Char)
  <2>. DEFINE args == <<string(msg.fac)>>
  <2>1. msg.fac # None => args \in Seq(Arguments) /\ Len(args) = 1
    <3>1. msg.fac # None => string(msg.fac) \in Arguments
      BY <1>1, <1>4 DEF Sayable
    <3>. HIDE DEF string
    <3>. QED
      BY <3>1
  <2>. HIDE DEF args
  <2>2. msg.fac # None => Cardinality(Percents(FacFmt)) <= Len(args)
    BY <1>2, <2>1
  <2>3. msg.fac # None => Kvprintf(FacFmt, args) \in Seq(Char)
    BY <1>2, <2>1, <2>2, KvprintfIs
  <2>. QED
    BY <2>3 DEF args
<1>. DEFINE first == IF msg.level = None
                     THEN Kvprintf(StampFmt, <<number(up.sec), number(up.usec)>>)
                     ELSE Kvprintf(LevelFmt, <<string(msg.level), number(up.sec), number(up.usec)>>)
            second == IF msg.fac = None THEN <<>> ELSE Kvprintf(FacFmt, <<string(msg.fac)>>)
<1>9. Prefix(msg, up) = first \o second
  BY DEF Prefix, blank
<1>10. first \in Seq(Char) /\ second \in Seq(Char)
  <2>1. <<>> \in Seq(Char)
    OBVIOUS
  <2>. HIDE DEF number, string
  <2>. QED
    BY <1>6, <1>7, <1>8, <2>1
<1>11. Rendered(e) = Prefix(msg, up) \o Kvprintf(Format(msg), msg.args)
  BY DEF Rendered
<1>. HIDE DEF first, second
<1>12. Prefix(msg, up) \in Seq(Char)
  BY <1>9, <1>10, ConcatProperties
<1>. HIDE DEF msg, up
<1>. QED
  BY <1>5, <1>11, <1>12, ConcatProperties

\* Of a text and its newline, what is left after n characters.
Rest(u, n) == SubSeq(u \o <<"\n">>, n + 1, Len(u) + 1)

LEMMA RestIs ==
  ASSUME NEW u \in Seq(Char), NEW n \in 0 .. Len(u)
  PROVE  /\ Rest(u, n) # <<>> /\ Len(Rest(u, n)) = Len(u) + 1 - n
         /\ Rest(u, 0) = u \o <<"\n">> /\ Rest(u, Len(u) + 1) = <<>>
         /\ Head(Rest(u, n)) = (IF n < Len(u) THEN u[n + 1] ELSE "\n")
         /\ Tail(Rest(u, n)) = Rest(u, n + 1)
         /\ n < Len(u) => u[n + 1] \in Char
         /\ SubSeq(u, 1, n) \in Seq(Char)
         /\ n < Len(u) => SubSeq(u, 1, n + 1) = Append(SubSeq(u, 1, n), u[n + 1])
<1>. DEFINE S == Char \union {"\n"}
            full == u \o <<"\n">>
            len == Len(u)
            s == Rest(u, n)
<1>1. len \in Nat /\ \A i \in 1 .. len : u[i] \in Char
  BY LenProperties, ElementOfSeq
<1>2. /\ full \in Seq(S) /\ Len(full) = len + 1 /\ full[len + 1] = "\n"
      /\ \A i \in 1 .. len : full[i] = u[i]
      /\ \A i \in 1 .. len + 1 : full[i] \in S
  <2>1. u \in Seq(S) /\ <<"\n">> \in Seq(S) /\ Len(<<"\n">>) = 1 /\ <<"\n">>[1] = "\n"
    BY SeqMonotonic
  <2>. HIDE DEF S
  <2>2. /\ full \in Seq(S) /\ Len(full) = Len(u) + 1
        /\ \A i \in 1 .. Len(u) + 1 : full[i] = IF i <= Len(u) THEN u[i] ELSE <<"\n">>[i - Len(u)]
    BY <2>1, ConcatProperties
  <2>. HIDE DEF full
  <2>3. \A i \in 1 .. len + 1 : full[i] \in S
    BY <2>2, ElementOfSeq
  <2>4. full[len + 1] = "\n"
    BY <1>1, <2>1, <2>2
  <2>5. \A i \in 1 .. len : full[i] = u[i]
    BY <1>1, <2>2
  <2>. QED
    BY <2>2, <2>3, <2>4, <2>5
<1>. HIDE DEF full, S
<1>3. Rest(u, n) = SubSeq(full, n + 1, len + 1) /\ Rest(u, n + 1) = SubSeq(full, (n + 1) + 1, len + 1)
      /\ Rest(u, 0) = SubSeq(full, 1, len + 1) /\ Rest(u, len + 1) = SubSeq(full, (len + 1) + 1, len + 1)
  BY DEF Rest, full
<1>4. Rest(u, n) \in Seq(S) /\ Len(Rest(u, n)) = len + 1 - n /\ Rest(u, n) # <<>>
  <2>1. n + 1 \in Int /\ len + 1 \in Int /\ \A i \in n + 1 .. len + 1 : i \in 1 .. len + 1
    BY <1>1
  <2>2. \A i \in n + 1 .. len + 1 : full[i] \in S
    BY <1>2, <2>1
  <2>3. /\ SubSeq(full, n + 1, len + 1) \in Seq(S)
        /\ Len(SubSeq(full, n + 1, len + 1)) = IF n + 1 <= len + 1 THEN (len + 1) - (n + 1) + 1 ELSE 0
    <3>. HIDE DEF len
    <3>. QED
      BY <2>1, <2>2, SubSeqProperties
  <2>. DEFINE rest == Rest(u, n)
  <2>4. rest \in Seq(S) /\ Len(rest) = IF n + 1 <= len + 1 THEN (len + 1) - (n + 1) + 1 ELSE 0
    BY <1>3, <2>3
  <2>5. n \in 0 .. len
    OBVIOUS
  <2>. HIDE DEF rest, len
  <2>6. Len(rest) = len + 1 - n /\ len + 1 - n > 0
    BY <1>1, <2>4, <2>5
  <2>7. rest # <<>>
    BY <2>6
  <2>. QED
    BY <2>4, <2>6, <2>7 DEF rest, len
<1>5. Rest(u, len + 1) = <<>>
  <2>1. len + 1 < (len + 1) + 1 /\ (len + 1) + 1 \in Int /\ len + 1 \in Int
    BY <1>1
  <2>. QED
    BY <1>3, <2>1, SubSeqEmpty
<1>6. Rest(u, 0) = full
  <2>1. Len(full) \in 0 .. Len(full)
    BY <1>1, <1>2
  <2>2. SubSeq(full, 1, Len(full)) = Restrict(full, 1 .. Len(full))
    BY <1>2, <2>1, SubSeqRestrict
  <2>3. full = [i \in 1 .. Len(full) |-> full[i]]
    BY <1>2, LenProperties
  <2>4. Restrict(full, 1 .. Len(full)) = full
    BY <2>3 DEF Restrict
  <2>. QED
    BY <1>2, <1>3, <2>2, <2>4
<1>7. Head(Rest(u, n)) = full[n + 1] /\ Tail(Rest(u, n)) = Rest(u, n + 1)
  <2>1. n + 1 \in 1 .. Len(full) /\ len + 1 \in n + 1 .. Len(full)
    BY <1>1, <1>2
  <2>2. Head(SubSeq(full, n + 1, len + 1)) = full[n + 1]
        /\ Tail(SubSeq(full, n + 1, len + 1)) = SubSeq(full, (n + 1) + 1, len + 1)
    BY <1>2, <2>1, HeadTailOfSubSeq
  <2>. QED
    BY <1>3, <2>2
<1>8. full[n + 1] = (IF n < len THEN u[n + 1] ELSE "\n") /\ (n < len => u[n + 1] \in Char)
  BY <1>1, <1>2
<1>9. ASSUME NEW k \in 0 .. len
      PROVE  /\ SubSeq(u, 1, k) \in Seq(Char) /\ Len(SubSeq(u, 1, k)) = k
             /\ \A i \in 1 .. k : SubSeq(u, 1, k)[i] = u[i]
  <2>1. 1 \in Int /\ k \in Int /\ k - 1 + 1 = k /\ \A i \in 1 .. k : i \in 1 .. len
    BY <1>1
  <2>2. \A i \in 1 .. k : u[i] \in Char
    BY <1>1, <2>1
  <2>3. /\ SubSeq(u, 1, k) \in Seq(Char)
        /\ Len(SubSeq(u, 1, k)) = IF 1 <= k THEN k - 1 + 1 ELSE 0
        /\ \A i \in 1 .. k - 1 + 1 : SubSeq(u, 1, k)[i] = u[1 + i - 1]
    <3>. HIDE DEF len
    <3>. QED
      BY <2>1, <2>2, SubSeqProperties
  <2>4. Len(SubSeq(u, 1, k)) = k
    BY <1>1, <2>3
  <2>5. \A i \in 1 .. k : 1 + i - 1 = i
    BY <1>1
  <2>. QED
    BY <2>1, <2>3, <2>4, <2>5
<1>10. n < len => SubSeq(u, 1, n + 1) = Append(SubSeq(u, 1, n), u[n + 1])
  <2>1. SUFFICES ASSUME n < len PROVE SubSeq(u, 1, n + 1) = Append(SubSeq(u, 1, n), u[n + 1])
    OBVIOUS
  <2>2. n \in 0 .. len /\ n + 1 \in 0 .. len /\ n \in Nat
    BY <1>1, <2>1
  <2>. DEFINE v == SubSeq(u, 1, n)
              w == SubSeq(u, 1, n + 1)
  <2>3. v \in Seq(Char) /\ Len(v) = n /\ \A i \in 1 .. n : v[i] = u[i]
    BY <1>9, <2>2
  <2>4. w \in Seq(Char) /\ Len(w) = n + 1 /\ \A i \in 1 .. n + 1 : w[i] = u[i]
    BY <1>9, <2>2
  <2>. HIDE DEF v, w
  <2>. DEFINE x == Append(v, u[n + 1])
  <2>5. x \in Seq(Char) /\ Len(x) = n + 1 /\ x[n + 1] = u[n + 1] /\ \A i \in 1 .. n : x[i] = v[i]
    BY <1>8, <2>1, <2>3, AppendProperties
  <2>. HIDE DEF x
  <2>6. \A i \in 1 .. n + 1 : i \in 1 .. n \/ i = n + 1
    BY <2>2
  <2>7. \A i \in 1 .. n + 1 : w[i] = x[i]
    BY <2>3, <2>4, <2>5, <2>6
  <2>8. w = x
    BY <2>4, <2>5, <2>7, SeqEqual
  <2>. QED
    BY <2>8 DEF v, w, x
<1>11. SubSeq(u, 1, n) \in Seq(Char)
  BY <1>9
<1>. QED
  BY <1>4, <1>5, <1>6, <1>7, <1>8, <1>10, <1>11 DEF full

-----------------------------------------------------------------------------
(***************************************************************************)
(* The running thread has put a part of its line on the sheet, below the   *)
(* finished lines; the screen shows the end of it, and the cursor of the   *)
(* hardware is where the next character goes when none is being put.       *)
(***************************************************************************)
\* The line of a thread that is stamped.
TextOf(t) == Rendered([said |-> Saying(t), stamp |-> stamp[t]])

\* The sheet of a text with n characters of it, or of its newline, put.
Sheet(u, n) == IF n > Len(u) THEN Append(Wrap(u), <<>>) ELSE Wrap(SubSeq(u, 1, n))

OnScreen(W) == Shows(W, vga, vga_row, vga_col)
Fresh == Wrapped(Cols) \o << <<>> >>
Put(n) == /\ todo[cur] = Rest(TextOf(cur), n)
          /\ OnScreen(Wrapped(Cols) \o Sheet(TextOf(cur), n))

Cursors ==
  /\ vga_row \in 0 .. Rows /\ (vga_row = Rows => vga_col = 0 /\ pc[cur] = "scroll")
  /\ pc[cur] \notin {"scroll", "cursor"} => crtc = vga_row * Cols + vga_col
Screen ==
  /\ Cursors /\ DOMAIN todo = Thread
  /\ pc[cur] \in {"prefix", "put", "scroll", "cursor"} => log_on
  /\ pc[cur] \notin Stamped => OnScreen(Fresh)
  /\ pc[cur] \in Stamped => \E n \in 0 .. Len(TextOf(cur)) + 1 : Put(n)
  /\ pc[cur] = "restore" => Put(Len(TextOf(cur)) + 1)
TextInv == ~ use_fb => Screen

LEMMA EmptySheet == << <<>> >> \in Sheets /\ Row(<< <<>> >>) = <<>> /\ Len(<< <<>> >>) = 1
<1>. DEFINE W == << <<>> >>
            S == Seq(Char)
<1>1. W \in Seq(S) /\ W # <<>> /\ Len(W) = 1 /\ W[1] = <<>> /\ Len(<<>>) = 0
  <2>1. <<>> \in S
    OBVIOUS
  <2>. HIDE DEF S
  <2>. QED
    BY <2>1
<1>. HIDE DEF W
<1>2. Row(W) = <<>>
  BY <1>1 DEF Row
<1>. QED
  BY <1>1, <1>2, ScreenSizes DEF Sheets, W

LEMMA WholeText ==
  ASSUME NEW u \in Seq(Char)
  PROVE  SubSeq(u, 1, Len(u)) = u /\ SubSeq(u, 1, 0) = <<>>
<1>1. Len(u) \in 0 .. Len(u) /\ u = [i \in 1 .. Len(u) |-> u[i]]
  BY LenProperties
<1>2. SubSeq(u, 1, Len(u)) = Restrict(u, 1 .. Len(u))
  BY <1>1, SubSeqRestrict
<1>3. Restrict(u, 1 .. Len(u)) = u
  BY <1>1 DEF Restrict
<1>4. SubSeq(u, 1, 0) = <<>>
  BY SubSeqEmpty
<1>. QED
  BY <1>2, <1>3, <1>4

LEMMA SheetGrows ==
  ASSUME NEW u \in Seq(Char), NEW n \in 0 .. Len(u) + 1
  PROVE  /\ Sheet(u, n) \in Sheets
         /\ Sheet(u, 0) = << <<>> >>
         /\ n < Len(u) => u[n + 1] \in Char /\ Adds(Sheet(u, n), u[n + 1], Sheet(u, n + 1))
         /\ n = Len(u) => Sheet(u, n + 1) = Append(Sheet(u, n), <<>>)
         /\ n = Len(u) + 1 => Sheet(u, n) = Append(Wrap(u), <<>>)
<1>. DEFINE len == Len(u)
<1>1. len \in Nat
  BY LenProperties
<1>2. \A k \in 0 .. len : Sheet(u, k) = Wrap(SubSeq(u, 1, k)) /\ SubSeq(u, 1, k) \in Seq(Char)
                          /\ Sheet(u, k) \in Sheets
  <2>1. SUFFICES ASSUME NEW k \in 0 .. len
                 PROVE  /\ Sheet(u, k) = Wrap(SubSeq(u, 1, k)) /\ SubSeq(u, 1, k) \in Seq(Char)
                        /\ Sheet(u, k) \in Sheets
    OBVIOUS
  <2>2. ~ (k > len)
    BY <1>1
  <2>3. SubSeq(u, 1, k) \in Seq(Char)
    BY RestIs
  <2>4. Sheet(u, k) = Wrap(SubSeq(u, 1, k))
    BY <2>2 DEF Sheet
  <2>. QED
    BY <2>3, <2>4, WrapIs
<1>3. Wrap(u) \in Sheets /\ Sheet(u, len + 1) = Append(Wrap(u), <<>>)
  <2>1. len + 1 > len
    BY <1>1
  <2>. QED
    BY <2>1, WrapIs DEF Sheet
<1>4. Sheet(u, n) \in Sheets
  <2>1. n \in 0 .. len \/ n = len + 1
    BY <1>1
  <2>2. Append(Wrap(u), <<>>) \in Sheets
    BY <1>3, NewLine
  <2>. QED
    BY <1>2, <1>3, <2>1, <2>2
<1>5. Sheet(u, 0) = << <<>> >>
  <2>0. 0 \in 0 .. len /\ SubSeq(u, 1, 0) = <<>> /\ <<>> \in Seq(Char)
    BY <1>1, WholeText
  <2>1. Sheet(u, 0) = Wrap(<<>>) /\ <<>> \in Seq(Char)
    BY <1>2, <2>0
  <2>. DEFINE W == Wrap(<<>>)
  <2>2. W \in Sheets /\ Len(W) = Len(<<>>) \div Cols + 1 /\ Len(Row(W)) = Len(<<>>) % Cols
    BY <2>1, WrapIs
  <2>3. Len(<<>>) = 0 /\ 0 \div Cols = 0 /\ 0 % Cols = 0
    <3>1. (Cols * 0 + 0) % Cols = 0 /\ (Cols * 0 + 0) \div Cols = 0
      BY ScreenSizes, Remainder
    <3>2. Cols * 0 + 0 = 0
      BY ScreenSizes
    <3>. QED
      BY <3>1, <3>2
  <2>. HIDE DEF W
  <2>4. Len(W) = 1 /\ Len(Row(W)) = 0 /\ Row(W) \in Seq(Char) /\ W \in Seq(Seq(Char))
    BY <2>2, <2>3, SheetIs DEF Sheets
  <2>5. Row(W) = <<>>
    BY <2>4, EmptySeq
  <2>. DEFINE S == Seq(Char)
              V == << <<>> >>
  <2>6. V \in Seq(S) /\ Len(V) = 1 /\ V[1] = <<>>
    BY EmptySheet DEF Sheets
  <2>7. W \in Seq(S) /\ Len(W) = 1 /\ W[1] = <<>>
    BY <2>4, <2>5 DEF Row
  <2>. HIDE DEF S, V
  <2>8. \A i \in 1 .. 1 : W[i] = V[i]
    BY <2>6, <2>7
  <2>9. W = V
    BY <2>6, <2>7, <2>8, SeqEqual
  <2>. QED
    BY <2>1, <2>9 DEF W, V
<1>6. n < len => u[n + 1] \in Char /\ Adds(Sheet(u, n), u[n + 1], Sheet(u, n + 1))
  <2>1. SUFFICES ASSUME n < len
                 PROVE  u[n + 1] \in Char /\ Adds(Sheet(u, n), u[n + 1], Sheet(u, n + 1))
    OBVIOUS
  <2>2. n \in 0 .. len /\ n + 1 \in 0 .. len
    BY <1>1, <2>1
  <2>3. u[n + 1] \in Char /\ SubSeq(u, 1, n + 1) = Append(SubSeq(u, 1, n), u[n + 1])
    BY <2>1, <2>2, RestIs
  <2>4. SubSeq(u, 1, n) \in Seq(Char) /\ Sheet(u, n) = Wrap(SubSeq(u, 1, n))
        /\ Sheet(u, n + 1) = Wrap(SubSeq(u, 1, n + 1))
    BY <1>2, <2>2
  <2>. QED
    BY <2>3, <2>4, WrapAdds
<1>7. n = len => Sheet(u, n + 1) = Append(Sheet(u, n), <<>>)
  <2>0. len \in 0 .. len /\ SubSeq(u, 1, len) = u
    BY <1>1, WholeText
  <2>1. Sheet(u, len) = Wrap(u)
    BY <1>2, <2>0
  <2>. QED
    BY <1>3, <2>1
<1>. QED
  BY <1>3, <1>4, <1>5, <1>6, <1>7

\* The rows of each line.
Pages(l) == [i \in DOMAIN l |-> Wrap(Rendered(l[i]))]
Lines == Seq([said : Said, stamp : Stamp])

LEMMA PagesAre ==
  ASSUME NEW l \in Lines
  PROVE  /\ Pages(l) \in Seq(Seq(Seq(Char)))
         /\ \A e \in [said : Said, stamp : Stamp] :
              Pages(Append(l, e)) = Append(Pages(l), Wrap(Rendered(e)))
<1>. DEFINE S == Seq(Seq(Char))
            Line == [said : Said, stamp : Stamp]
<1>1. ASSUME NEW e, e.said \in Said, e.stamp \in Stamp PROVE Wrap(Rendered(e)) \in S
  BY <1>1, RenderedIs, WrapIs DEF Sheets
<1>2. ASSUME NEW k \in Lines PROVE Pages(k) \in Seq(S) /\ Len(Pages(k)) = Len(k)
  <2>1. Len(k) \in Nat /\ DOMAIN k = 1 .. Len(k)
    <3>. HIDE DEF Line
    <3>. QED
      BY LenProperties DEF Lines, Line
  <2>2. \A i \in 1 .. Len(k) : Wrap(Rendered(k[i])) \in S
    BY <1>1, <2>1, LinesAre DEF Lines
  <2>. HIDE DEF S
  <2>3. Pages(k) = [i \in 1 .. Len(k) |-> Wrap(Rendered(k[i]))]
    BY <2>1 DEF Pages
  <2>4. Pages(k) \in [1 .. Len(k) -> S]
    BY <2>2, <2>3
  <2>. QED
    BY <2>1, <2>4, IsASeq, LenProperties
<1>3. ASSUME NEW e \in Line PROVE Pages(Append(l, e)) = Append(Pages(l), Wrap(Rendered(e)))
  <2>. DEFINE n == Len(l)
              k == Append(l, e)
              P == Pages(k)
              Q == Append(Pages(l), Wrap(Rendered(e)))
  <2>1. /\ k \in Lines /\ Len(k) = n + 1 /\ k[n + 1] = e /\ n \in Nat
        /\ \A i \in 1 .. n : k[i] = l[i]
    <3>. HIDE DEF Line
    <3>. QED
      BY AppendProperties, LenProperties DEF Lines, Line
  <2>2. P \in Seq(S) /\ Len(P) = n + 1 /\ DOMAIN k = 1 .. n + 1 /\ DOMAIN l = 1 .. n
    <3>. HIDE DEF Line
    <3>. QED
      BY <1>2, <2>1, LenProperties DEF Lines, Line
  <2>3. \A i \in 1 .. n + 1 : P[i] = Wrap(Rendered(k[i]))
    <3>. HIDE DEF k
    <3>. QED
      BY <2>2 DEF Pages
  <2>4. Pages(l) \in Seq(S) /\ Len(Pages(l)) = n /\ Wrap(Rendered(e)) \in S
    <3>1. e.said \in Said /\ e.stamp \in Stamp
      OBVIOUS
    <3>. HIDE DEF S, Line
    <3>. QED
      BY <1>1, <1>2, <3>1
  <2>. HIDE DEF S, k, P
  <2>5. /\ Q \in Seq(S) /\ Len(Q) = n + 1 /\ Q[n + 1] = Wrap(Rendered(e))
        /\ \A i \in 1 .. n : Q[i] = Pages(l)[i]
    BY <2>4, AppendProperties
  <2>6. \A i \in 1 .. n : Pages(l)[i] = Wrap(Rendered(l[i]))
    BY <2>2 DEF Pages
  <2>. HIDE DEF Q
  <2>7. \A i \in 1 .. n + 1 : P[i] = Q[i]
    BY <2>1, <2>3, <2>5, <2>6
  <2>8. P = Q
    BY <2>2, <2>5, <2>7, SeqEqual
  <2>. QED
    BY <2>8 DEF P, Q, k
<1>. QED
  BY <1>2, <1>3

LEMMA WrappedIs ==
  /\ Wrapped(Cols) = FlattenSeq(Pages(lines))
  /\ lines \in Lines => Wrapped(Cols) \in Seq(Seq(Char))
<1>1. Wrapped(Cols) = FlattenSeq(Pages(lines))
  BY DEF Wrapped, Pages, Wrap
<1>. QED
  BY <1>1, PagesAre, FlattenAppend

\* Between two lines: the sheet of any line before its first character.
LEMMA FreshIs ==
  ASSUME LogTypeOK, NEW u \in Seq(Char)
  PROVE  /\ Wrapped(Cols) \in Seq(Seq(Char)) /\ Fresh = Wrapped(Cols) \o Sheet(u, 0)
         /\ Fresh \in Sheets /\ Len(Fresh) = Len(Wrapped(Cols)) + 1 /\ Row(Fresh) = <<>>
         /\ \A k \in 1 .. Len(Wrapped(Cols)) : Fresh[k] = Wrapped(Cols)[k]
<1>1. Wrapped(Cols) \in Seq(Seq(Char))
  BY WrappedIs DEF LogTypeOK, Lines
<1>2. 0 \in 0 .. Len(u) + 1
  BY LenProperties
<1>3. Sheet(u, 0) = << <<>> >>
  BY <1>2, SheetGrows
<1>. QED
  BY <1>1, <1>3, EmptySheet, Pasted DEF Fresh

LEMMA TextInit == Init => TextInv
<1>. SUFFICES ASSUME Init PROVE Screen
  BY DEF TextInv
<1>. DEFINE W == << <<>> >>
<1>1. Cols \in Nat \ {0} /\ Rows \in Nat \ {0}
  BY ScreenSizes
<1>2. vga_row = 0 /\ vga_col = 0 /\ crtc = 0 /\ vga = [i \in 0 .. Cols * Rows - 1 |-> Blank]
  BY DEF Init, VgaInit
<1>3. pc[cur] \notin Busy
  BY ConsoleAssumption DEF Init, Busy
<1>4. Fresh = W
  <2>1. lines = <<>> /\ Pages(<<>>) = <<>> /\ FlattenSeq(<<>>) = <<>>
    BY DEF Init, Pages, FlattenSeq
  <2>2. Wrapped(Cols) = <<>>
    BY <2>1, WrappedIs
  <2>3. W \in Seq(Seq(Char))
    BY EmptySheet DEF Sheets
  <2>. QED
    BY <2>2, <2>3, ConcatEmptySeq DEF Fresh
<1>5. Row(W) = <<>> /\ Len(W) = 1 /\ Len(<<>>) = 0 /\ W[1] = <<>>
  BY EmptySheet
<1>. HIDE DEF W
<1>6. ASSUME NEW r \in 0 .. Rows - 1, NEW c \in 0 .. Cols - 1
      PROVE  vga[r * Cols + c] = Shown(W, Len(W) - vga_row + r, c)
  <2>1. vga[r * Cols + c] = Blank
    BY <1>2, CellIndex
  <2>2. ~ (1 - 0 + r \in 1 .. 1 /\ c < Len(W[1 - 0 + r]))
    <3>1. 1 - 0 + r \in 1 .. 1 => 1 - 0 + r = 1
      BY <1>1
    <3>2. ~ (c < 0)
      BY <1>1
    <3>. QED
      BY <1>5, <3>1, <3>2
  <2>. QED
    BY <1>2, <1>5, <2>1, <2>2 DEF Shown
<1>7. OnScreen(Fresh)
  <2>1. vga_row \in Nat /\ Len(W) - 1 - vga_row = 0 /\ vga_col = Len(Row(W))
    BY <1>2, <1>5
  <2>2. DOMAIN vga = 0 .. Cols * Rows - 1
    BY <1>2
  <2>3. Len(W) - 1 - vga_row \in Nat
    BY <2>1
  <2>. QED
    BY <1>4, <1>6, <2>1, <2>2, <2>3 DEF OnScreen, Shows
<1>8. Cursors
  BY <1>1, <1>2 DEF Cursors
<1>9. DOMAIN todo = Thread
  BY DEF Init
<1>. QED
  BY <1>3, <1>7, <1>8, <1>9 DEF Screen, Busy, Stamped

\* A step that is not about the screen.
LEMMA Quiet ==
  ASSUME Screen, UNCHANGED <<lines, todo, vgavars>>, pc[cur] \notin Stamped, pc'[cur'] \notin Stamped,
         pc'[cur'] = "prefix" => log_on'
  PROVE  Screen'
<1>1. UNCHANGED <<vga, vga_row, vga_col, crtc>>
  BY DEF vgavars
<1>2. pc[cur] \notin {"scroll", "cursor", "put", "restore"}
      /\ pc'[cur'] \notin {"scroll", "cursor", "put", "restore"}
  BY DEF Stamped
<1>3. Cursors'
  BY <1>1, <1>2 DEF Screen, Cursors
<1>4. Fresh' = Fresh
  BY DEF Fresh, Wrapped
<1>5. OnScreen(Fresh)'
  BY <1>1, <1>4 DEF Screen, OnScreen
<1>. QED
  BY <1>2, <1>3, <1>5 DEF Screen, Stamped

\* The text of the thread that is putting its line.
LEMMA TextIs ==
  ASSUME LogInv, pc[cur] \in Stamped
  PROVE  /\ TextOf(cur) \in Seq(Char) /\ Saying(cur) \in Said /\ stamp[cur] \in Stamp
         /\ Wrapped(Cols) \in Seq(Seq(Char))
<1>1. cur \in Thread /\ script[cur] \in Seq(Said) /\ script[cur] # <<>> /\ stamp[cur] \in Stamp
  BY DEF LogInv, LogTypeOK, Exclusive, Busy, Stamped
<1>2. Saying(cur) \in Said
  BY <1>1, SayingIs DEF Saying
<1>3. TextOf(cur) \in Seq(Char)
  BY <1>1, <1>2, RenderedIs DEF TextOf
<1>4. Wrapped(Cols) \in Seq(Seq(Char))
  BY WrappedIs DEF LogInv, LogTypeOK, Lines
<1>. QED
  BY <1>1, <1>2, <1>3, <1>4

\* While it is being put the text and the lines above it stay.
LEMMA TextKept ==
  ASSUME UNCHANGED <<script, cur, stamp, lines>>
  PROVE  TextOf(cur)' = TextOf(cur) /\ Wrapped(Cols)' = Wrapped(Cols)
BY DEF TextOf, Saying, Wrapped

\* What Screen says of the next state.
LEMMA ScreenNext ==
  ASSUME NEW n \in 0 .. Len(TextOf(cur)') + 1, pc'[cur'] \in Stamped, Cursors', DOMAIN todo' = Thread,
         pc'[cur'] \in {"put", "scroll", "cursor"} => log_on',
         todo'[cur'] = Rest(TextOf(cur)', n),
         Shows(Wrapped(Cols)' \o Sheet(TextOf(cur)', n), vga', vga_row', vga_col'),
         pc'[cur'] = "restore" => n = Len(TextOf(cur)') + 1
  PROVE  Screen'
BY DEF Screen, Put, OnScreen, Stamped

LEMMA ScreenNow ==
  ASSUME LogInv, Screen, pc[cur] \in Stamped
  PROVE  \E n \in 0 .. Len(TextOf(cur)) + 1 :
           /\ todo[cur] = Rest(TextOf(cur), n)
           /\ Shows(Wrapped(Cols) \o Sheet(TextOf(cur), n), vga, vga_row, vga_col)
           /\ Wrapped(Cols) \o Sheet(TextOf(cur), n) \in Sheets
           /\ pc[cur] = "restore" => n = Len(TextOf(cur)) + 1
<1>1. PICK n \in 0 .. Len(TextOf(cur)) + 1 :
        Put(n) /\ (pc[cur] = "restore" => n = Len(TextOf(cur)) + 1)
  <2>1. TextOf(cur) \in Seq(Char)
    BY TextIs
  <2>2. Len(TextOf(cur)) + 1 \in 0 .. Len(TextOf(cur)) + 1
    BY <2>1, LenProperties
  <2>. QED
    BY <2>2 DEF Screen
<1>2. Wrapped(Cols) \o Sheet(TextOf(cur), n) \in Sheets
  BY TextIs, SheetGrows, Pasted
<1>. QED
  BY <1>1, <1>2 DEF Put, OnScreen

\* klog_prefix() has formatted the line and put nothing of it.
LEMMA PrefixShows ==
  ASSUME LogInv, Screen, LogInv', KlogPrefix(cur)
  PROVE  Screen'
<1>1. /\ pc[cur] = "prefix" /\ pc' = [pc EXCEPT ![cur] = "put"]
      /\ UNCHANGED <<script, cur, lines, log_on, vga, vga_row, vga_col, crtc>>
  BY DEF KlogPrefix, vgavars
<1>2. cur \in Thread /\ pc'[cur'] = "put" /\ pc[cur] \notin Stamped /\ pc[cur] \notin {"scroll", "cursor"}
  BY <1>1 DEF LogInv, LogTypeOK, Stamped
<1>. DEFINE u == TextOf(cur)'
<1>3. u \in Seq(Char) /\ Len(u) \in Nat
  <2>1. LogTypeOK' /\ Exclusive'
    BY DEF LogInv
  <2>2. cur \in Thread /\ script'[cur] \in Seq(Said) /\ script'[cur] # <<>> /\ stamp'[cur] \in Stamp
    BY <1>1, <1>2, <2>1 DEF LogTypeOK, Exclusive, Busy, Stamped
  <2>3. Head(script'[cur]) \in Said
    BY <2>2, SayingIs
  <2>4. u = Rendered([said |-> Head(script'[cur]), stamp |-> stamp'[cur]])
    BY <1>1 DEF TextOf, Saying
  <2>. HIDE DEF u
  <2>5. u \in Seq(Char)
    BY <2>2, <2>3, <2>4, RenderedIs
  <2>. QED
    BY <2>5, LenProperties
<1>4. todo'[cur'] = u \o <<"\n">>
  <2>. DEFINE now == tsc + Saying(cur).pause
              s == [tsc |-> now, up |-> MdUptime(now)]
              text == Prefix(Saying(cur), MdUptime(now)) \o Kvprintf(Format(Saying(cur)), Saying(cur).args)
  <2>1. stamp' = [stamp EXCEPT ![cur] = s] /\ todo' = [todo EXCEPT ![cur] = text \o <<"\n">>]
    BY DEF KlogPrefix
  <2>2. stamp'[cur] = s
    BY <1>2, <2>1 DEF LogInv, LogTypeOK
  <2>3. todo'[cur'] = text \o <<"\n">>
    BY <1>1, <1>2, <2>1 DEF Screen
  <2>4. u = Rendered([said |-> Saying(cur), stamp |-> stamp'[cur]])
    BY <1>1 DEF TextOf, Saying
  <2>5. Rendered([said |-> Saying(cur), stamp |-> s]) = text
    BY DEF Rendered
  <2>. QED
    BY <2>2, <2>3, <2>4, <2>5
<1>5. OnScreen(Fresh) /\ Wrapped(Cols)' = Wrapped(Cols)
  BY <1>1, <1>2 DEF Screen, Wrapped
<1>6. Cursors'
  BY <1>1, <1>2 DEF Screen, Cursors
<1>7. log_on' /\ DOMAIN todo' = Thread
  BY <1>1 DEF Screen, KlogPrefix
<1>8. Shows(Fresh, vga', vga_row', vga_col')
  BY <1>1, <1>5 DEF OnScreen
<1>. HIDE DEF u
<1>9. todo'[cur'] = Rest(u, 0) /\ 0 \in 0 .. Len(u) + 1
  <2>1. 0 \in 0 .. Len(u)
    BY <1>3
  <2>2. Rest(u, 0) = u \o <<"\n">>
    BY <1>3, <2>1, RestIs
  <2>. QED
    BY <1>3, <1>4, <2>2
<1>10. Fresh = Wrapped(Cols)' \o Sheet(u, 0)
  BY <1>3, <1>5, FreshIs DEF LogInv
<1>11. pc'[cur'] \in Stamped /\ pc'[cur'] # "restore"
  BY <1>2 DEF Stamped
<1>. QED
  BY <1>6, <1>7, <1>8, <1>9, <1>10, <1>11, ScreenNext DEF u

\* kputc() up to the scroll: a character goes to the end of the last row.
LEMMA KputcShows ==
  ASSUME LogInv, Screen, ~ use_fb, Kputc(cur)
  PROVE  Screen'
<1>1. /\ pc[cur] = "put" /\ todo[cur] # <<>> /\ pc' = [pc EXCEPT ![cur] = "scroll"]
      /\ todo' = [todo EXCEPT ![cur] = Tail(todo[cur])] /\ VgaPut(Head(todo[cur]))
      /\ UNCHANGED <<script, cur, stamp, lines, log_on>>
  BY DEF Kputc
<1>2. cur \in Thread /\ pc[cur] \in Stamped /\ pc'[cur'] = "scroll" /\ log_on /\ log_on'
  BY <1>1 DEF LogInv, LogTypeOK, Stamped, Screen
<1>3. TextOf(cur)' = TextOf(cur) /\ Wrapped(Cols)' = Wrapped(Cols)
  BY <1>1, TextKept
<1>. DEFINE u == TextOf(cur)
            A == Wrapped(Cols)
<1>4. u \in Seq(Char) /\ Len(u) \in Nat /\ A \in Seq(Seq(Char))
  <2>1. u \in Seq(Char) /\ A \in Seq(Seq(Char))
    BY <1>2, TextIs
  <2>. HIDE DEF u
  <2>. QED
    BY <2>1, LenProperties
<1>5. PICK n \in 0 .. Len(u) + 1 :
        /\ todo[cur] = Rest(u, n)
        /\ Shows(A \o Sheet(u, n), vga, vga_row, vga_col) /\ A \o Sheet(u, n) \in Sheets
  BY <1>2, ScreenNow
<1>6. vga_row \in 0 .. Rows - 1
  BY <1>1, ScreenSizes DEF Screen, Cursors
<1>. HIDE DEF u, A
<1>7. n \in 0 .. Len(u) /\ n + 1 \in 0 .. Len(u) + 1 /\ n + 1 \in Nat
  <2>1. n # Len(u) + 1
    <3>1. 0 \in 0 .. Len(u)
      BY <1>4
    <3>2. Rest(u, Len(u) + 1) = <<>>
      BY <1>4, <3>1, RestIs
    <3>. QED
      BY <1>1, <1>5, <3>2
  <2>. QED
    BY <1>4, <2>1
<1>8. /\ Head(todo[cur]) = (IF n < Len(u) THEN u[n + 1] ELSE "\n")
      /\ Tail(todo[cur]) = Rest(u, n + 1)
  BY <1>4, <1>5, <1>7, RestIs
<1>9. todo'[cur'] = Rest(u, n + 1) /\ DOMAIN todo' = Thread
  BY <1>1, <1>2, <1>8 DEF Screen
<1>. DEFINE ch == Head(todo[cur])
            W == A \o Sheet(u, n)
            W2 == A \o Sheet(u, n + 1)
<1>10. Shows(W2, vga', vga_row', vga_col') /\ vga_row' \in 0 .. Rows /\ (vga_row' = Rows => vga_col' = 0)
  <2>1. CASE n < Len(u)
    <3>1. ch = u[n + 1] /\ u[n + 1] \in Char /\ Adds(Sheet(u, n), u[n + 1], Sheet(u, n + 1))
          /\ Sheet(u, n) \in Sheets /\ Sheet(u, n + 1) \in Sheets
      BY <1>4, <1>7, <1>8, <2>1, SheetGrows
    <3>. HIDE DEF ch
    <3>2. Adds(W, ch, W2) /\ W2 \in Sheets /\ W \in Sheets /\ ch \in Char
      BY <1>4, <3>1, AddsBelow
    <3>3. ch # "\n"
      BY <3>2, Characters
    <3>. HIDE DEF W, W2
    <3>4. /\ Shows(W2, [vga EXCEPT ![vga_row * Cols + vga_col] = [attr |-> AttrLog, ch |-> ch]],
                   IF vga_col + 1 = Cols THEN vga_row + 1 ELSE vga_row,
                   IF vga_col + 1 = Cols THEN 0 ELSE vga_col + 1)
      BY <1>5, <1>6, <3>2, PutShows DEF W
    <3>5. /\ vga' = [vga EXCEPT ![vga_row * Cols + vga_col] = [attr |-> AttrLog, ch |-> ch]]
          /\ vga_row' = IF vga_col + 1 = Cols THEN vga_row + 1 ELSE vga_row
          /\ vga_col' = IF vga_col + 1 = Cols THEN 0 ELSE vga_col + 1
      BY <1>1, <1>2, <3>3 DEF VgaPut, ch
    <3>6. vga_row' \in 0 .. Rows /\ (vga_row' = Rows => vga_col' = 0)
      BY <1>6, <3>5, ScreenSizes
    <3>. QED
      BY <3>4, <3>5, <3>6
  <2>2. CASE n = Len(u)
    <3>1. ch = "\n" /\ Sheet(u, n + 1) = Append(Sheet(u, n), <<>>) /\ Sheet(u, n) \in Sheets
      BY <1>4, <1>7, <1>8, <2>2, SheetGrows
    <3>. HIDE DEF ch
    <3>2. W2 = Append(W, <<>>) /\ W \in Sheets
      <4>1. W \in Sheets
        BY <1>5
      <4>. DEFINE S == Seq(Char)
                  V == Sheet(u, n)
                  e == <<>>
      <4>2. V \in Seq(S) /\ A \in Seq(S) /\ e \in S
        BY <1>4, <3>1 DEF Sheets
      <4>3. A \o V \in Seq(S)
        <5>. HIDE DEF S, V, e
        <5>. QED
          BY <4>2, ConcatProperties
      <4>4. <<e>> \in Seq(S)
        <5>. HIDE DEF S, e
        <5>. QED
          BY <4>2
      <4>. HIDE DEF S, V, e
      <4>5. Append(A \o V, e) = (A \o V) \o <<e>> /\ Append(V, e) = V \o <<e>>
        BY <4>2, <4>3, AppendIsConcat
      <4>6. (A \o V) \o <<e>> = A \o (V \o <<e>>)
        BY <4>2, <4>4, ConcatAssociative
      <4>. QED
        BY <3>1, <4>1, <4>5, <4>6 DEF V, e
    <3>. HIDE DEF W, W2
    <3>3. Shows(W2, vga, vga_row + 1, 0)
      BY <1>5, <1>6, <3>2, LineShows DEF W
    <3>4. vga' = vga /\ vga_row' = vga_row + 1 /\ vga_col' = 0
      BY <1>1, <3>1 DEF VgaPut, ch
    <3>5. vga_row' \in 0 .. Rows /\ (vga_row' = Rows => vga_col' = 0)
      BY <1>6, <3>4, ScreenSizes
    <3>. QED
      BY <3>3, <3>4, <3>5
  <2>. QED
    BY <1>4, <1>7, <2>1, <2>2
<1>11. Cursors'
  BY <1>2, <1>10 DEF Cursors
<1>12. pc'[cur'] \in Stamped /\ pc'[cur'] # "restore"
  BY <1>2 DEF Stamped
<1>. QED
  BY <1>2, <1>3, <1>7, <1>9, <1>10, <1>11, <1>12, ScreenNext DEF u, A

\* kputc() below the screen: the screen moves up.
LEMMA ScrolledShows ==
  ASSUME LogInv, Screen, ~ use_fb, KputcScroll(cur)
  PROVE  Screen'
<1>1. /\ pc[cur] = "scroll" /\ pc' = [pc EXCEPT ![cur] = "cursor"]
      /\ UNCHANGED <<script, cur, stamp, lines, log_on, todo, vga_col>>
      /\ IF vga_row = Rows THEN VgaScroll ELSE UNCHANGED <<vga, vga_row>>
  BY DEF KputcScroll
<1>2. cur \in Thread /\ pc[cur] \in Stamped /\ pc'[cur'] = "cursor" /\ log_on'
  BY <1>1 DEF LogInv, LogTypeOK, Stamped, Screen
<1>3. TextOf(cur)' = TextOf(cur) /\ Wrapped(Cols)' = Wrapped(Cols)
  BY <1>1, TextKept
<1>. DEFINE u == TextOf(cur)
<1>4. PICK n \in 0 .. Len(u) + 1 :
        /\ todo[cur] = Rest(u, n)
        /\ Shows(Wrapped(Cols) \o Sheet(u, n), vga, vga_row, vga_col)
        /\ Wrapped(Cols) \o Sheet(u, n) \in Sheets
  BY <1>2, ScreenNow
<1>. DEFINE W == Wrapped(Cols) \o Sheet(u, n)
<1>5. vga_row \in 0 .. Rows /\ (vga_row = Rows => vga_col = 0) /\ DOMAIN todo = Thread
  BY DEF Screen, Cursors
<1>. HIDE DEF u, W
<1>6. Shows(W, vga', vga_row', vga_col') /\ vga_row' \in 0 .. Rows - 1
  <2>1. CASE vga_row = Rows
    <3>1. vga_col' = 0 /\ vga_row' = Rows - 1
          /\ vga' = [i \in DOMAIN vga |-> IF i < Cols * (Rows - 1) THEN vga[i + Cols] ELSE Blank]
      BY <1>1, <1>5, <2>1 DEF VgaScroll
    <3>2. W \in Sheets /\ Shows(W, vga, Rows, 0)
      BY <1>4, <1>5, <2>1 DEF W
    <3>3. Shows(W, vga', Rows - 1, 0)
      BY <3>1, <3>2, ScrollShows
    <3>. QED
      BY <3>1, <3>3, ScreenSizes
  <2>2. CASE vga_row # Rows
    <3>1. UNCHANGED <<vga, vga_row, vga_col>>
      BY <1>1, <2>2
    <3>2. vga_row \in 0 .. Rows - 1
      BY <1>5, <2>2, ScreenSizes
    <3>. QED
      BY <1>4, <3>1, <3>2 DEF W
  <2>. QED
    BY <2>1, <2>2
<1>7. Cursors'
  <2>1. vga_row' \in 0 .. Rows /\ vga_row' # Rows
    BY <1>6, ScreenSizes
  <2>. QED
    BY <1>2, <2>1 DEF Cursors
<1>8. pc'[cur'] \in Stamped /\ pc'[cur'] # "restore"
  BY <1>2 DEF Stamped
<1>9. todo'[cur'] = Rest(u, n) /\ DOMAIN todo' = Thread
  BY <1>1, <1>4, <1>5
<1>. QED
  BY <1>2, <1>3, <1>4, <1>6, <1>7, <1>8, <1>9, ScreenNext DEF u, W

\* The cursor, and cons_log_off() behind the newline.
LEMMA KeptShows ==
  ASSUME LogInv, Screen, ~ use_fb, VgaSetcursor(cur) \/ ConsLogOff(cur)
  PROVE  Screen'
<1>1. UNCHANGED <<script, cur, stamp, lines, todo, vga, vga_row, vga_col>>
  BY DEF VgaSetcursor, ConsLogOff, vgavars
<1>2. \/ /\ pc[cur] = "cursor" /\ pc'[cur'] = "put" /\ crtc' = vga_row * Cols + vga_col /\ log_on'
      \/ /\ pc[cur] = "put" /\ todo[cur] = <<>> /\ pc'[cur'] = "restore" /\ crtc' = crtc
  BY DEF VgaSetcursor, ConsLogOff, vgavars, LogInv, LogTypeOK, Screen
<1>3. pc[cur] \in Stamped /\ pc'[cur'] \in Stamped
  BY <1>2 DEF Stamped
<1>4. TextOf(cur)' = TextOf(cur) /\ Wrapped(Cols)' = Wrapped(Cols)
  BY <1>1, TextKept
<1>. DEFINE u == TextOf(cur)
<1>5. PICK n \in 0 .. Len(u) + 1 :
        /\ todo[cur] = Rest(u, n)
        /\ Shows(Wrapped(Cols) \o Sheet(u, n), vga, vga_row, vga_col)
  BY <1>3, ScreenNow
<1>6. u \in Seq(Char)
  BY <1>3, TextIs
<1>. HIDE DEF u
<1>7. Cursors'
  <2>1. /\ vga_row \in 0 .. Rows /\ vga_row # Rows
        /\ pc[cur] = "put" => crtc = vga_row * Cols + vga_col
    BY <1>2 DEF Screen, Cursors
  <2>. QED
    BY <1>1, <1>2, <2>1 DEF Cursors
<1>8. pc'[cur'] = "restore" => n = Len(u) + 1
  <2>1. SUFFICES ASSUME todo[cur] = <<>>, n # Len(u) + 1 PROVE FALSE
    BY <1>2
  <2>2. Len(u) \in Nat
    BY <1>6, LenProperties
  <2>3. n \in 0 .. Len(u)
    BY <2>1, <2>2
  <2>. QED
    BY <1>5, <1>6, <2>1, <2>3, RestIs
<1>9. pc'[cur'] \in {"put", "scroll", "cursor"} => log_on'
  BY <1>2
<1>10. todo'[cur'] = Rest(u, n) /\ DOMAIN todo' = Thread
  BY <1>1, <1>5 DEF Screen
<1>11. Shows(Wrapped(Cols)' \o Sheet(u, n), vga', vga_row', vga_col')
  BY <1>1, <1>4, <1>5
<1>. QED
  BY <1>3, <1>4, <1>7, <1>8, <1>9, <1>10, <1>11, ScreenNext DEF u

\* The line is finished: what is on the sheet is what a line of the log is.
LEMMA DoneShows ==
  ASSUME LogInv, Screen, StiRestore(cur)
  PROVE  Screen'
<1>1. /\ pc[cur] = "restore" /\ pc' = [pc EXCEPT ![cur] = "out"]
      /\ lines' = Append(lines, [said |-> Saying(cur), stamp |-> stamp[cur]])
      /\ UNCHANGED <<cur, todo, vga, vga_row, vga_col, crtc>>
  BY DEF StiRestore, vgavars
<1>2. cur \in Thread /\ pc[cur] \in Stamped /\ pc'[cur'] = "out" /\ lines \in Lines
  BY <1>1 DEF LogInv, LogTypeOK, Stamped, Lines
<1>. DEFINE u == TextOf(cur)
            A == Wrapped(Cols)
<1>3. u \in Seq(Char) /\ Saying(cur) \in Said /\ stamp[cur] \in Stamp /\ A \in Seq(Seq(Char))
  BY <1>2, TextIs
<1>4. Wrap(u) \in Sheets /\ Sheet(u, Len(u) + 1) = Append(Wrap(u), <<>>)
  <2>. HIDE DEF u
  <2>1. Len(u) + 1 \in 0 .. Len(u) + 1
    BY <1>3, LenProperties
  <2>. QED
    BY <1>3, <2>1, WrapIs, SheetGrows
<1>5. Shows(A \o Append(Wrap(u), <<>>), vga, vga_row, vga_col)
  BY <1>1, <1>4 DEF Screen, Put, OnScreen
<1>6. Wrapped(Cols)' = A \o Wrap(u)
  <2>. DEFINE e == [said |-> Saying(cur), stamp |-> stamp[cur]]
              P == Pages(lines)
  <2>1. Wrapped(Cols)' = FlattenSeq(Pages(lines'))
    BY DEF Wrapped, Pages, Wrap
  <2>2. A = FlattenSeq(P)
    BY WrappedIs
  <2>3. e \in [said : Said, stamp : Stamp]
    BY <1>3
  <2>4. P \in Seq(Seq(Seq(Char))) /\ Pages(lines') = Append(P, Wrap(Rendered(e)))
    BY <1>1, <1>2, <2>3, PagesAre
  <2>5. Rendered(e) = u
    BY DEF TextOf
  <2>. DEFINE S == Seq(Char)
              W == Wrap(u)
  <2>6. P \in Seq(Seq(S)) /\ W \in Seq(S)
    BY <1>4, <2>4 DEF Sheets
  <2>. HIDE DEF P, e, u, S, W
  <2>7. FlattenSeq(Append(P, W)) = FlattenSeq(P) \o W
    BY <2>6, FlattenAppend
  <2>. QED
    BY <2>1, <2>2, <2>4, <2>5, <2>7 DEF W
<1>7. Fresh' = A \o Append(Wrap(u), <<>>)
  <2>. DEFINE S == Seq(Char)
              W == Wrap(u)
              e == <<>>
  <2>1. W \in Seq(S) /\ A \in Seq(S) /\ e \in S
    BY <1>3, <1>4 DEF Sheets
  <2>2. <<e>> \in Seq(S)
    <3>. HIDE DEF S, e
    <3>. QED
      BY <2>1
  <2>3. Fresh' = (A \o W) \o <<e>>
    BY <1>6 DEF Fresh
  <2>. HIDE DEF S, W, e, A
  <2>4. Append(W, e) = W \o <<e>>
    BY <2>1, AppendIsConcat
  <2>5. (A \o W) \o <<e>> = A \o (W \o <<e>>)
    BY <2>1, <2>2, ConcatAssociative
  <2>. QED
    BY <2>3, <2>4, <2>5 DEF W, e
<1>8. OnScreen(Fresh)'
  BY <1>1, <1>5, <1>7 DEF OnScreen
<1>9. Cursors'
  BY <1>1, <1>2 DEF Screen, Cursors
<1>10. DOMAIN todo' = Thread
  BY <1>1 DEF Screen
<1>. QED
  BY <1>2, <1>8, <1>9, <1>10 DEF Screen, Stamped

LEMMA TextStep == LogInv /\ TextInv /\ [Next]_vars /\ LogInv' => TextInv'
<1>1. SUFFICES ASSUME LogInv, TextInv, [Next]_vars, LogInv', ~ use_fb' PROVE Screen'
  BY DEF TextInv
<1>2. Boot \in Thread /\ cur \in Thread /\ LogTypeOK /\ Exclusive
  BY <1>1, ConsoleAssumption DEF LogInv, LogTypeOK
<1>3. CASE TscCalibrate
  <2>1. UNCHANGED <<cur, lines, todo, vgavars, use_fb>> /\ pc[Boot] = "start"
        /\ (pc' = [pc EXCEPT ![Boot] = "panic"] \/ pc' = [pc EXCEPT ![Boot] = "out"])
    BY <1>3 DEF TscCalibrate
  <2>2. cur = Boot
    BY <2>1, <1>2 DEF Exclusive
  <2>3. pc[cur] = "start" /\ pc'[cur'] \in {"panic", "out"}
    BY <1>2, <2>1, <2>2 DEF LogTypeOK
  <2>. QED
    BY <1>1, <2>1, <2>3, Quiet DEF TextInv, Stamped
<1>4. CASE ConsFbInit
  BY <1>1, <1>4 DEF ConsFbInit
<1>5. CASE Sti
  <2>1. UNCHANGED <<cur, pc, lines, todo, vgavars, use_fb>> /\ pc[cur] = "out"
    BY <1>5 DEF Sti
  <2>2. pc[cur] \notin Stamped /\ pc'[cur'] \notin Stamped /\ pc'[cur'] # "prefix"
    BY <2>1 DEF Stamped
  <2>. QED
    BY <1>1, <2>1, <2>2, Quiet DEF TextInv
<1>6. CASE Tick
  <2>1. UNCHANGED <<pc, lines, todo, vgavars, use_fb>> /\ iflag /\ cur' \in Thread
    BY <1>6 DEF Tick
  <2>2. pc[cur] \notin Busy /\ pc'[cur'] \notin Busy
    BY <1>2, <2>1 DEF Exclusive
  <2>. QED
    BY <1>1, <2>1, <2>2, Quiet DEF TextInv, Busy, Stamped
<1>7. CASE KlogStep(cur)
  <2>1. use_fb' = use_fb
    BY <1>7 DEF KlogStep, Klog, ConsLogOn, KlogPrefix, Kputc, KputcScroll, VgaSetcursor,
                ConsLogOff, StiRestore
  <2>2. ~ use_fb /\ Screen
    BY <1>1, <2>1 DEF TextInv
  <2>3. CASE Klog(cur)
    <3>1. UNCHANGED <<cur, lines, todo, vgavars>> /\ pc[cur] = "out" /\ pc'[cur'] = "on"
      BY <1>2, <2>3 DEF Klog, LogTypeOK
    <3>. QED
      BY <2>2, <3>1, Quiet DEF Stamped
  <2>4. CASE ConsLogOn(cur)
    <3>1. UNCHANGED <<cur, lines, todo, vgavars>> /\ pc[cur] = "on" /\ pc'[cur'] = "prefix" /\ log_on'
      BY <1>2, <2>4 DEF ConsLogOn, LogTypeOK
    <3>. QED
      BY <2>2, <3>1, Quiet DEF Stamped
  <2>5. CASE KlogPrefix(cur)
    BY <1>1, <2>2, <2>5, PrefixShows
  <2>6. CASE Kputc(cur)
    BY <1>1, <2>2, <2>6, KputcShows
  <2>7. CASE KputcScroll(cur)
    BY <1>1, <2>2, <2>7, ScrolledShows
  <2>8. CASE VgaSetcursor(cur) \/ ConsLogOff(cur)
    BY <1>1, <2>2, <2>8, KeptShows
  <2>9. CASE StiRestore(cur)
    BY <1>1, <2>2, <2>9, DoneShows
  <2>. QED
    BY <1>7, <2>3, <2>4, <2>5, <2>6, <2>7, <2>8, <2>9 DEF KlogStep
<1>8. CASE UNCHANGED vars
  <2>1. UNCHANGED <<cpuvars, log_on, use_fb, vgavars>>
    BY <1>8 DEF vars
  <2>2. UNCHANGED <<script, cur, pc, todo, stamp, lines>> /\ UNCHANGED <<vga, vga_row, vga_col, crtc>>
    BY <2>1 DEF cpuvars, vgavars
  <2>3. Screen
    BY <1>1, <2>1 DEF TextInv
  <2>4. Cursors' /\ DOMAIN todo' = Thread
    BY <2>2, <2>3 DEF Screen, Cursors
  <2>5. Fresh' = Fresh /\ Wrapped(Cols)' = Wrapped(Cols) /\ TextOf(cur)' = TextOf(cur)
    BY <2>2, TextKept DEF Fresh
  <2>6. CASE pc[cur] \notin Stamped
    BY <2>1, <2>2, <2>3, <2>6, Quiet DEF Screen
  <2>7. CASE pc[cur] \in Stamped
    <3>1. PICK n \in 0 .. Len(TextOf(cur)) + 1 :
            /\ todo[cur] = Rest(TextOf(cur), n)
            /\ Shows(Wrapped(Cols) \o Sheet(TextOf(cur), n), vga, vga_row, vga_col)
            /\ pc[cur] = "restore" => n = Len(TextOf(cur)) + 1
      BY <1>1, <2>3, <2>7, ScreenNow
    <3>2. pc'[cur'] \in Stamped /\ (pc'[cur'] \in {"put", "scroll", "cursor"} => log_on')
      BY <2>1, <2>2, <2>3, <2>7 DEF Screen
    <3>. QED
      BY <2>2, <2>4, <2>5, <3>1, <3>2, ScreenNext
  <2>. QED
    BY <2>6, <2>7
<1>. QED
  BY <1>1, <1>3, <1>4, <1>5, <1>6, <1>7, <1>8 DEF Next

LEMMA ShowsFromInv == LogInv /\ TextInv => (~ use_fb => ShowsLog)
<1>1. SUFFICES ASSUME LogInv, Screen, ~ use_fb, Inside = {} PROVE ShowsLog
  BY DEF TextInv, ShowsLog
<1>2. pc[cur] \notin Stamped /\ LogTypeOK
  <2>1. cur \in Thread /\ cur \notin Inside /\ LogTypeOK
    BY <1>1 DEF LogInv, LogTypeOK
  <2>. QED
    BY <2>1 DEF Inside, Stamped
<1>. DEFINE all == Wrapped(Cols)
            F == Fresh
            n == Len(all)
<1>3. Shows(F, vga, vga_row, vga_col) /\ Cursors
  BY <1>1, <1>2 DEF Screen, OnScreen
<1>4. all \in Seq(Seq(Char)) /\ Len(F) = n + 1 /\ Row(F) = <<>> /\ \A k \in 1 .. n : F[k] = all[k]
  <2>1. <<>> \in Seq(Char)
    OBVIOUS
  <2>. QED
    BY <1>2, <2>1, FreshIs
<1>5. n \in Nat /\ F[n + 1] = <<>> /\ Len(<<>>) = 0
  <2>. HIDE DEF all, F
  <2>. QED
    BY <1>4, LenProperties DEF Row
<1>. HIDE DEF F, all
<1>6. Cols \in Nat \ {0} /\ Rows \in Nat \ {0}
  BY ScreenSizes
<1>7. vga_row \in 0 .. Rows /\ vga_row # Rows /\ crtc = vga_row * Cols + vga_col
  BY <1>2, <1>3 DEF Cursors, Stamped
<1>8. /\ vga_col = 0 /\ n - vga_row \in Nat /\ (n - vga_row = 0 \/ vga_row >= Rows - 1)
      /\ \A r \in 0 .. Rows - 1, c \in 0 .. Cols - 1 :
           vga[r * Cols + c] = Shown(F, (n + 1) - vga_row + r, c)
  <2>1. /\ vga_row \in Nat /\ (n + 1) - 1 - vga_row \in Nat
        /\ ((n + 1) - 1 - vga_row = 0 \/ vga_row >= Rows - 1)
        /\ vga_col = 0
    BY <1>3, <1>4, <1>5 DEF Shows
  <2>2. (n + 1) - 1 - vga_row = n - vga_row
    BY <1>5, <2>1
  <2>. QED
    BY <1>3, <1>4, <2>1, <2>2 DEF Shows
<1>. HIDE DEF n
<1>9. vga_row = LeastOf(n, Rows - 1) /\ n - vga_row = MostOf(n - (Rows - 1), 0)
  BY <1>5, <1>6, <1>7, <1>8 DEF LeastOf, MostOf
<1>10. crtc = LeastOf(n, Rows - 1) * Cols
  <2>1. vga_row * Cols \in Nat
    BY <1>6, <1>7
  <2>. QED
    BY <1>7, <1>8, <1>9, <2>1
<1>11. ASSUME NEW r \in 0 .. Rows - 1, NEW c \in 0 .. Cols - 1
       PROVE  vga[r * Cols + c] = CellAt(all, Rows, r, c)
  <2>. DEFINE i == (n - vga_row) + r + 1
  <2>1. i = (n + 1) - vga_row + r /\ i \in Nat \ {0} /\ ~ (c < 0)
    BY <1>5, <1>6, <1>7, <1>8
  <2>2. CellAt(all, Rows, r, c) =
          IF i <= n /\ c < Len(all[i]) THEN [attr |-> AttrLog, ch |-> all[i][c + 1]] ELSE Blank
    BY <1>9 DEF CellAt, n
  <2>. HIDE DEF i
  <2>3. vga[r * Cols + c] = Shown(F, i, c)
    BY <1>8, <2>1
  <2>4. CASE i <= n
    <3>1. i \in 1 .. n /\ i \in 1 .. Len(F) /\ F[i] = all[i]
      BY <1>4, <1>5, <2>1, <2>4 DEF n
    <3>. QED
      BY <2>2, <2>3, <2>4, <3>1 DEF Shown
  <2>5. CASE i = n + 1
    <3>1. ~ (i <= n) /\ ~ (c < Len(F[i]))
      BY <1>5, <2>1, <2>5
    <3>. QED
      BY <2>2, <2>3, <3>1 DEF Shown
  <2>6. CASE i > n + 1
    <3>1. ~ (i <= n) /\ i \notin 1 .. Len(F)
      BY <1>4, <1>5, <2>1, <2>6 DEF n
    <3>. QED
      BY <2>2, <2>3, <3>1 DEF Shown
  <2>. QED
    BY <1>5, <2>1, <2>4, <2>5, <2>6
<1>. QED
  BY <1>1, <1>10, <1>11 DEF ShowsLog, all, n

(* On the text console: between two lines the screen shows the end of the  *)
(* log, every line whole, in order and wrapped, with the cursor below it,  *)
(* for every message, every width and height (vga.c:49-95, cons.c,         *)
(* subr_log.c:48-75).                                                      *)
THEOREM ScreenSafe == Spec => [](~ use_fb => ShowsLog)
<1>1. LogInv /\ TextInv /\ [Next]_vars => TextInv'
  BY LogStep, TextStep
<1>. QED
  BY LogInit, LogStep, TextInit, <1>1, ShowsFromInv, PTL DEF Spec
=============================================================================
