-------------------------- MODULE InterruptsProofs --------------------------
(***************************************************************************)
(* Proofs about the way from a line or a fault to its handler and back     *)
(* (Interrupts), for any threads, drivers, lines and faults.               *)
(***************************************************************************)
EXTENDS Interrupts, SequenceTheorems, Arithmetic

-----------------------------------------------------------------------------
(***************************************************************************)
(* The 8259.                                                               *)
(***************************************************************************)

\* Of some requests the lowest is one of them.
LEMMA LowestOfLines ==
  ASSUME NEW S \in SUBSET Irq, S # {}
  PROVE  Lowest(S) \in S
<1>1. S \in SUBSET (0 .. 15) /\ 15 \in Nat
  BY IrqAssumption
<1>2. \E x \in S : \A y \in S : x <= y
  BY <1>1, LeastExists
<1>. QED
  BY <1>2 DEF Lowest

LEMMA LowestOfOne ==
  ASSUME NEW i \in Int
  PROVE  Lowest({i}) = i
BY DEF Lowest

\* What the chips ask for are lines of theirs.
LEMMA AsksAreLines ==
  ASSUME irr \subseteq Irq
  PROVE  SlaveAsks \in SUBSET Irq /\ SlaveAsks \subseteq Slave
         /\ MasterAsks \in SUBSET Irq /\ MasterAsks \subseteq Master
<1>1. 2 \in Irq /\ 2 \in Master
  BY IrqAssumption DEF Master
<1>. QED
  BY <1>1 DEF SlaveAsks, MasterAsks, Slave, Master

\* A chip gives the vector of a line it puts in service, or its lowest
\* priority, which it does not.
LEMMA Answers ==
  ASSUME NEW asks, asks \subseteq Irq, NEW l \in Irq
  PROVE  Answer(asks, l) \in asks \/ (Answer(asks, l) = l /\ asks = {})
<1>1. CASE asks = {}
  BY <1>1 DEF Answer
<1>2. CASE asks # {}
  <2>1. Answer(asks, l) = Lowest(asks)
    BY <1>2 DEF Answer
  <2>2. Answer(asks, l) \in asks
    BY <1>2, <2>1, LowestOfLines
  <2>. QED
    BY <2>2
<1>. QED
  BY <1>1, <1>2

-----------------------------------------------------------------------------
(***************************************************************************)
(* The frames.                                                             *)
(***************************************************************************)
Err == [bits : SUBSET (0 .. 4), index : 0 .. 1]
WordNames == {"ss", "esp", "eflags", "cs", "eip", "err", "vector", "regs", "tf"}
Word == WordNames \X (Int \union Err)

Words == Seq(Word)

\* Where the words of two sequences are in the one that joins them.
LEMMA JoinedAt ==
  ASSUME NEW s \in Words, NEW u \in Words
  PROVE  /\ s \o u \in Words /\ Len(s \o u) = Len(s) + Len(u)
         /\ \A i \in 1 .. Len(s) : (s \o u)[i] = s[i]
         /\ \A i \in 1 .. Len(u) : (s \o u)[Len(s) + i] = u[i]
<1>0. s \in Seq(Word) /\ u \in Seq(Word)
  BY DEF Words
<1>1. Len(s) \in Nat /\ Len(u) \in Nat
  BY <1>0, LenProperties
<1>2. s \o u \in Words /\ Len(s \o u) = Len(s) + Len(u)
  BY <1>0, ConcatProperties DEF Words
<1>3. \A i \in 1 .. Len(s) + Len(u) :
        (s \o u)[i] = IF i <= Len(s) THEN s[i] ELSE u[i - Len(s)]
  BY <1>0, ConcatProperties
<1>4. ASSUME NEW i \in 1 .. Len(s)
      PROVE  (s \o u)[i] = s[i]
  BY <1>1, <1>3
<1>5. ASSUME NEW i \in 1 .. Len(u)
      PROVE  (s \o u)[Len(s) + i] = u[i]
  <2>1. Len(s) + i \in 1 .. Len(s) + Len(u) /\ ~(Len(s) + i <= Len(s))
    BY <1>1
  <2>2. (Len(s) + i) - Len(s) = i
    BY <1>1
  <2>3. (s \o u)[Len(s) + i] = u[(Len(s) + i) - Len(s)]
    BY <1>3, <2>1
  <2>. QED
    BY <2>2, <2>3
<1>. QED
  BY <1>2, <1>4, <1>5

LEMMA OneWord ==
  ASSUME NEW a \in Word
  PROVE  <<a>> \in Words
<1>1. ASSUME NEW S, NEW x \in S
      PROVE  <<x>> \in Seq(S)
  OBVIOUS
<1>. QED
  BY <1>1 DEF Words

LEMMA TwoWords ==
  ASSUME NEW a \in Word, NEW b \in Word
  PROVE  <<a, b>> \in Words
<1>1. ASSUME NEW S, NEW x \in S, NEW y \in S
      PROVE  <<x, y>> \in Seq(S)
  OBVIOUS
<1>. QED
  BY <1>1 DEF Words

LEMMA ThreeWords ==
  ASSUME NEW a \in Word, NEW b \in Word, NEW c \in Word
  PROVE  <<a, b, c>> \in Words
<1>1. ASSUME NEW S, NEW x \in S, NEW y \in S, NEW z \in S
      PROVE  <<x, y, z>> \in Seq(S)
  OBVIOUS
<1>. QED
  BY <1>1 DEF Words

\* Words of a stack, whatever they are: an error code between two times three.
LEMMA ThreeOneThree ==
  ASSUME NEW a \in Word, NEW b \in Word, NEW c \in Word, NEW d \in Word,
         NEW e \in Word, NEW f \in Word, NEW g \in Word
  PROVE  LET y == (<<a, b, c>> \o <<d>>) \o <<e, f, g>>
         IN /\ y \in Words /\ Len(y) = 7
            /\ y[1] = a /\ y[2] = b /\ y[3] = c /\ y[4] = d /\ y[5] = e
<1>1. <<a, b, c>> \in Words /\ <<d>> \in Words /\ <<e, f, g>> \in Words
  BY OneWord, ThreeWords
<1>2. Len(<<a, b, c>>) = 3 /\ Len(<<d>>) = 1 /\ Len(<<e, f, g>>) = 3
  OBVIOUS
<1>. DEFINE x == <<a, b, c>> \o <<d>>
            z == <<e, f, g>>
            y == x \o z
<1>3. x \in Words /\ Len(x) = 4 /\ x[1] = a /\ x[2] = b /\ x[3] = c /\ x[4] = d
  <2>. DEFINE w == <<a, b, c>>
              k == <<d>>
  <2>1. w[1] = a /\ w[2] = b /\ w[3] = c /\ k[1] = d
    OBVIOUS
  <2>2. w \in Words /\ Len(w) = 3 /\ k \in Words /\ Len(k) = 1 /\ x = w \o k
    BY <1>1, <1>2
  <2>. HIDE DEF w, k
  <2>3. x \in Words /\ Len(x) = 4 /\ (\A i \in 1 .. 3 : x[i] = w[i])
        /\ \A i \in 1 .. 1 : x[3 + i] = k[i]
    <3>1. /\ w \o k \in Words /\ Len(w \o k) = Len(w) + Len(k)
          /\ \A i \in 1 .. Len(w) : (w \o k)[i] = w[i]
          /\ \A i \in 1 .. Len(k) : (w \o k)[Len(w) + i] = k[i]
      BY <2>2, JoinedAt
    <3>. HIDE DEF x
    <3>. QED
      BY <2>2, <3>1
  <2>. QED
    BY <2>1, <2>3
<1>4. z[1] = e
  OBVIOUS
<1>5. z \in Words /\ Len(z) = 3
  BY <1>1, <1>2
<1>. HIDE DEF x, z
<1>6. y \in Words /\ Len(y) = 7 /\ (\A i \in 1 .. 4 : y[i] = x[i])
      /\ \A i \in 1 .. 3 : y[4 + i] = z[i]
  <2>1. y \in Words /\ Len(y) = Len(x) + Len(z) /\ (\A i \in 1 .. Len(x) : y[i] = x[i])
        /\ \A i \in 1 .. Len(z) : y[Len(x) + i] = z[i]
    BY <1>3, <1>5, JoinedAt
  <2>. QED
    BY <1>3, <1>5, <2>1
<1>. HIDE DEF y
<1>7. y \in Words /\ Len(y) = 7
      /\ y[1] = a /\ y[2] = b /\ y[3] = c /\ y[4] = d /\ y[5] = e
  BY <1>3, <1>4, <1>6
<1>. QED
  BY <1>7 DEF x, y, z

\* The seven words that every frame ends in, and the two below them that a
\* thread brings from ring 3.
Frame(v, e) == (<<<<"eflags", 0>>, <<"cs", 0>>, <<"eip", 0>>>> \o <<<<"err", e>>>>)
               \o <<<<"vector", v>>, <<"regs", 0>>, <<"tf", 0>>>>
UserStack(t) == IF t \in Users /\ kstk[t] = <<>> THEN <<<<"ss", 0>>, <<"esp", 0>>>> ELSE <<>>

LEMMA WordsAreWords ==
  ASSUME NEW v \in Int, NEW e \in Err
  PROVE  /\ <<"ss", 0>> \in Word /\ <<"esp", 0>> \in Word
         /\ <<"eflags", 0>> \in Word /\ <<"cs", 0>> \in Word /\ <<"eip", 0>> \in Word
         /\ <<"err", e>> \in Word /\ <<"vector", v>> \in Word
         /\ <<"regs", 0>> \in Word /\ <<"tf", 0>> \in Word
BY DEF Word, WordNames

LEMMA FrameWords ==
  ASSUME NEW v \in Int, NEW e \in Err
  PROVE  /\ Frame(v, e) \in Words /\ Len(Frame(v, e)) = 7
         /\ Frame(v, e)[1] = <<"eflags", 0>> /\ Frame(v, e)[2] = <<"cs", 0>>
         /\ Frame(v, e)[3] = <<"eip", 0>> /\ Frame(v, e)[4] = <<"err", e>>
         /\ Frame(v, e)[5] = <<"vector", v>>
BY WordsAreWords, ThreeOneThree DEF Frame

LEMMA UserWords ==
  ASSUME NEW t \in Thread
  PROVE  /\ UserStack(t) \in Words
         /\ Len(UserStack(t)) = IF t \in Users /\ kstk[t] = <<>> THEN 2 ELSE 0
<1>1. <<>> \in Words /\ Len(<<>>) = 0
  BY EmptySeq DEF Words
<1>2. <<"ss", 0>> \in Word /\ <<"esp", 0>> \in Word
  BY DEF Word, WordNames
<1>3. <<<<"ss", 0>>, <<"esp", 0>>>> \in Words
  BY <1>2, TwoWords
<1>4. Len(<<<<"ss", 0>>, <<"esp", 0>>>>) = 2
  OBVIOUS
<1>. QED
  BY <1>1, <1>3, <1>4 DEF UserStack

\* The CPU and the stub push the error code once between them.
LEMMA PushedFrame ==
  ASSUME NEW t \in Thread, NEW v \in Int, NEW e \in Err, v \notin CpuPushesErr => e = NoErr
  PROVE  Pushed(t, v, e) = UserStack(t) \o Frame(v, e)
<1>. DEFINE A == UserStack(t)
            B == <<<<"eflags", 0>>, <<"cs", 0>>, <<"eip", 0>>>>
            C == <<<<"err", e>>>>
            D == <<<<"vector", v>>, <<"regs", 0>>, <<"tf", 0>>>>
<1>1. A \in Words /\ <<>> \in Words
  BY UserWords, EmptySeq DEF Words
<1>2. B \in Words /\ C \in Words /\ D \in Words
  BY WordsAreWords, OneWord, ThreeWords
<1>3. Pushed(t, v, e) = A \o B \o (IF v \in CpuPushesErr THEN C ELSE <<>>)
                          \o (IF v \in ISR_ERR THEN <<>> ELSE <<<<"err", NoErr>>>>) \o D
  BY DEF Pushed, UserStack
<1>4. CpuPushesErr = ISR_ERR
  BY DEF CpuPushesErr, ISR_ERR
<1>5. Frame(v, e) = (B \o C) \o D
  BY DEF Frame
<1>. HIDE DEF A, B, D
<1>6. A \o B \in Words /\ B \o C \in Words /\ A \o B \o C \in Words
  BY <1>1, <1>2, JoinedAt
<1>7. Pushed(t, v, e) = A \o B \o C \o D
  <2>1. CASE v \in CpuPushesErr
    BY <1>3, <1>4, <1>6, <2>1, ConcatEmptySeq DEF Words
  <2>2. CASE v \notin CpuPushesErr
    BY <1>3, <1>4, <1>6, <2>2, ConcatEmptySeq DEF Words
  <2>. QED
    BY <2>1, <2>2
<1>. HIDE DEF C
<1>8. A \o B \o C = A \o (B \o C)
  BY <1>1, <1>2, ConcatAssociative DEF Words
<1>. DEFINE BC == B \o C
<1>9. A \in Words /\ BC \in Words /\ D \in Words
  BY <1>1, <1>2, <1>6
<1>. HIDE DEF BC
<1>10. (A \o BC) \o D = A \o (BC \o D)
  BY <1>9, ConcatAssociative DEF Words
<1>. QED
  BY <1>5, <1>7, <1>8, <1>10 DEF A, BC

-----------------------------------------------------------------------------
(***************************************************************************)
(* The inductive invariant.                                                *)
(***************************************************************************)

\* Where a thread is without a frame on its stack, and with exactly one.
NoFrame == {"boot", "drivers", "run", "inta", "inta2", "out"}
OneFrame == {"dispatch", "handler", "ret"}
FrameSize(t) == IF t \in Users THEN 9 ELSE 7

\* The thread's stack ends in a frame of vector v with error code e.
TopFrame(stk, v, e) ==
  /\ Len(stk) >= 7
  /\ stk[Len(stk) - 2] = <<"vector", v>> /\ stk[Len(stk) - 3] = <<"err", e>>
  /\ stk[Len(stk) - 4] = <<"eip", 0>> /\ stk[Len(stk) - 5] = <<"cs", 0>>
  /\ stk[Len(stk) - 6] = <<"eflags", 0>>

TypeInv ==
  /\ imr \in SUBSET Irq /\ irr \in SUBSET Irq /\ isr \in SUBSET Irq
  /\ cur \in Thread
  /\ at \in [Thread -> NoFrame \union OneFrame \union {"trap", "halt"}]
  /\ vec \in [Thread -> Int] /\ real \in [Thread -> BOOLEAN]
  /\ kstk \in [Thread -> Words]

\* Only the thread on the CPU is anywhere but in a switch, and every thread's
\* stack is as deep as the place says.
StackInv ==
  /\ \A t \in Thread : t # cur => at[t] \in {"out", "ret"}
  /\ \A t \in Thread : at[t] \in NoFrame => kstk[t] = <<>>
  /\ \A t \in Thread : at[t] \in OneFrame => Len(kstk[t]) = FrameSize(t)

\* What is in service between the acknowledge cycle and the end of interrupt.
Serves(i) ==
  \/ real[cur] /\ i \in Master /\ isr = {i}
  \/ real[cur] /\ i \in Slave /\ isr = {2, i}
  \/ ~real[cur] /\ i = 7 /\ isr = {}
  \/ ~real[cur] /\ i = 15 /\ isr = {2}

ServiceInv ==
  /\ at[cur] \notin {"inta2", "dispatch"} => isr = {}
  /\ at[cur] = "inta2" => isr = {2}
  /\ at[cur] = "dispatch" => \E i \in Irq \ {2} : vec[cur] = IRQ_BASE + i /\ Serves(i)
  /\ at[cur] = "handler" => real[cur]

FrameInv ==
  /\ at[cur] = "dispatch" => TopFrame(kstk[cur], vec[cur], NoErr)
  /\ at[cur] = "trap" => /\ fault \in Causes /\ vec[cur] = fault.vector
                         /\ TopFrame(kstk[cur], vec[cur], CpuErr(fault))
  /\ panicking => at[cur] = "halt" /\ report = fault

IrqInv == TypeInv /\ StackInv /\ ServiceInv /\ FrameInv

-----------------------------------------------------------------------------
(***************************************************************************)
(* What an interrupt or a fault does to the stack, and what iret undoes.   *)
(***************************************************************************)

LEMMA FrameOnTop ==
  ASSUME NEW k \in Words, NEW u \in Words, NEW f \in Words, Len(f) = 7
  PROVE  LET s == k \o (u \o f)
         IN /\ s \in Words /\ Len(s) = Len(k) + Len(u) + 7
            /\ \A i \in 1 .. 5 : s[Len(s) - 7 + i] = f[i]
<1>. DEFINE q == u \o f
            s == k \o q
<1>1. Len(k) \in Nat /\ Len(u) \in Nat
  BY LenProperties DEF Words
<1>2. /\ q \in Words /\ Len(q) = Len(u) + 7
      /\ \A i \in 1 .. 7 : q[Len(u) + i] = f[i]
  <2>1. /\ u \o f \in Words /\ Len(u \o f) = Len(u) + Len(f)
        /\ \A i \in 1 .. Len(f) : (u \o f)[Len(u) + i] = f[i]
    BY JoinedAt
  <2>. QED
    BY <2>1
<1>. HIDE DEF q
<1>3. /\ s \in Words /\ Len(s) = Len(k) + Len(q)
      /\ \A i \in 1 .. Len(q) : s[Len(k) + i] = q[i]
  BY <1>2, JoinedAt
<1>. HIDE DEF s
<1>4. ASSUME NEW i \in 1 .. 5
      PROVE  s[Len(s) - 7 + i] = f[i]
  <2>1. Len(u) + i \in 1 .. Len(q) /\ i \in 1 .. 7
    BY <1>1, <1>2
  <2>2. s[Len(k) + (Len(u) + i)] = q[Len(u) + i]
    BY <1>3, <2>1
  <2>3. q[Len(u) + i] = f[i]
    BY <1>2, <2>1
  <2>4. Len(s) - 7 + i = Len(k) + (Len(u) + i)
    BY <1>1, <1>2, <1>3
  <2>. QED
    BY <2>2, <2>3, <2>4
<1>5. s \in Words /\ Len(s) = Len(k) + Len(u) + 7
  BY <1>1, <1>2, <1>3
<1>. QED
  BY <1>4, <1>5 DEF s, q

\* The CPU and the stub leave the frame on top, and a thread from ring 3 its
\* stack pointer below it.
LEMMA PushedOnTop ==
  ASSUME NEW t \in Thread, kstk[t] \in Words, NEW v \in Int, NEW e \in Err,
         v \notin CpuPushesErr => e = NoErr
  PROVE  /\ kstk[t] \o Pushed(t, v, e) \in Words
         /\ TopFrame(kstk[t] \o Pushed(t, v, e), v, e)
         /\ kstk[t] = <<>> => Len(kstk[t] \o Pushed(t, v, e)) = FrameSize(t)
<1>. DEFINE s == kstk[t] \o Pushed(t, v, e)
            f == Frame(v, e)
            u == UserStack(t)
            k == kstk[t]
<1>1. f \in Words /\ Len(f) = 7 /\ f[1] = <<"eflags", 0>> /\ f[2] = <<"cs", 0>>
      /\ f[3] = <<"eip", 0>> /\ f[4] = <<"err", e>> /\ f[5] = <<"vector", v>>
  BY FrameWords
<1>2. u \in Words /\ Len(u) = IF t \in Users /\ kstk[t] = <<>> THEN 2 ELSE 0
  BY UserWords
<1>3. s = k \o (u \o f)
  BY PushedFrame
<1>4. k \in Words
  OBVIOUS
<1>. HIDE DEF f, u, k
<1>5. /\ k \o (u \o f) \in Words /\ Len(k \o (u \o f)) = Len(k) + Len(u) + 7
      /\ \A i \in 1 .. 5 : (k \o (u \o f))[Len(k \o (u \o f)) - 7 + i] = f[i]
  BY <1>1, <1>2, <1>4, FrameOnTop
<1>6. Len(k) \in Nat /\ Len(u) \in Nat
  BY <1>2, <1>4, LenProperties DEF Words
<1>. HIDE DEF s
<1>7. s \in Words /\ Len(s) = Len(k) + Len(u) + 7 /\ \A i \in 1 .. 5 : s[Len(s) - 7 + i] = f[i]
  BY <1>3, <1>5
<1>8. Len(s) \in Nat /\ Len(s) >= 7
  BY <1>6, <1>7
<1>9. /\ Len(s) - 7 + 5 = Len(s) - 2 /\ Len(s) - 7 + 4 = Len(s) - 3
      /\ Len(s) - 7 + 3 = Len(s) - 4 /\ Len(s) - 7 + 2 = Len(s) - 5
      /\ Len(s) - 7 + 1 = Len(s) - 6
  BY <1>8
<1>10. /\ s[Len(s) - 7 + 5] = f[5] /\ s[Len(s) - 7 + 4] = f[4] /\ s[Len(s) - 7 + 3] = f[3]
       /\ s[Len(s) - 7 + 2] = f[2] /\ s[Len(s) - 7 + 1] = f[1]
  BY <1>7
<1>11. TopFrame(s, v, e)
  BY <1>1, <1>8, <1>9, <1>10 DEF TopFrame
<1>12. ASSUME kstk[t] = <<>>
       PROVE  Len(s) = FrameSize(t)
  <2>1. Len(k) = 0
    BY <1>12, EmptySeq DEF k
  <2>. QED
    BY <1>2, <1>7, <1>12, <2>1 DEF FrameSize
<1>. QED
  BY <1>7, <1>11, <1>12 DEF s

\* iret drops one frame, and of a thread that came from ring 3 all of it.
LEMMA UnwoundIsEmpty ==
  ASSUME NEW t \in Thread, kstk[t] \in Words, Len(kstk[t]) = FrameSize(t)
  PROVE  Unwound(t) = <<>>
<1>. DEFINE k == kstk[t]
            s == SubSeq(k, 1, Len(k) - 4)
<1>1. k \in Words /\ Len(k) = (IF t \in Users THEN 9 ELSE 7)
  BY DEF FrameSize
<1>. HIDE DEF k
<1>2. \A i \in 1 .. Len(k) : k[i] \in Word
  BY <1>1, ElementOfSeq DEF Words
<1>3. Len(s) = Len(k) - 4
  <2>1. 1 \in Int /\ Len(k) - 4 \in Int /\ \A i \in 1 .. Len(k) - 4 : k[i] \in Word
    BY <1>1, <1>2
  <2>2. Len(s) = IF 1 <= Len(k) - 4 THEN (Len(k) - 4) - 1 + 1 ELSE 0
    BY <2>1, SubSeqProperties
  <2>. QED
    BY <1>1, <2>2
<1>. HIDE DEF s
<1>4. Len(s) - (IF t \in Users /\ Len(s) = 5 THEN 5 ELSE 3) = 0
  BY <1>1, <1>3
<1>5. SubSeq(s, 1, 0) = <<>>
  BY SubSeqEmpty
<1>6. Unwound(t) = SubSeq(s, 1, Len(s) - (IF t \in Users /\ Len(s) = 5 THEN 5 ELSE 3))
  BY DEF Unwound, s, k
<1>. QED
  BY <1>4, <1>5, <1>6

-----------------------------------------------------------------------------
(***************************************************************************)
(* The faults.                                                             *)
(***************************************************************************)

LEMMA BitsOfCause ==
  ASSUME NEW c \in Causes, c.why # {}
  PROVE  /\ CpuErr(c).index = (IF c.vector \in Selectors THEN 1 ELSE 0)
         /\ CpuErr(c).bits \subseteq 0 .. 4
         /\ 0 \in CpuErr(c).bits <=> "protection" \in c.why \/ "external" \in c.why
         /\ 1 \in CpuErr(c).bits <=> "write" \in c.why \/ "idt" \in c.why
         /\ 2 \in CpuErr(c).bits <=> "user" \in c.why \/ "ldt" \in c.why
         /\ 3 \in CpuErr(c).bits <=> "reserved" \in c.why
         /\ 4 \in CpuErr(c).bits <=> "fetch" \in c.why
<1>. DEFINE names == <<"protection", "write", "user", "reserved", "fetch">>
            p == {n \in 0 .. 4 : names[n + 1] \in c.why}
            x == IF "external" \in c.why THEN {0} ELSE {}
            y == IF "idt" \in c.why THEN {1} ELSE {}
            z == IF "ldt" \in c.why THEN {2} ELSE {}
<1>1. names[0 + 1] = "protection" /\ names[1 + 1] = "write" /\ names[2 + 1] = "user"
      /\ names[3 + 1] = "reserved" /\ names[4 + 1] = "fetch"
  OBVIOUS
<1>2. CpuErr(c) = [bits |-> p \union x \union y \union z,
                   index |-> IF c.vector \in Selectors THEN 1 ELSE 0]
  BY DEF CpuErr
<1>. HIDE DEF names
<1>3. p \subseteq 0 .. 4 /\ (0 \in p <=> "protection" \in c.why) /\ (1 \in p <=> "write" \in c.why)
      /\ (2 \in p <=> "user" \in c.why) /\ (3 \in p <=> "reserved" \in c.why)
      /\ (4 \in p <=> "fetch" \in c.why)
  BY <1>1
<1>. HIDE DEF p
<1>4. x \subseteq {0} /\ (0 \in x <=> "external" \in c.why) /\ y \subseteq {1}
      /\ (1 \in y <=> "idt" \in c.why) /\ z \subseteq {2} /\ (2 \in z <=> "ldt" \in c.why)
  OBVIOUS
<1>. HIDE DEF x, y, z
<1>. DEFINE b == p \union x \union y \union z
<1>5. b \subseteq 0 .. 4 /\ (0 \in b <=> 0 \in p \/ 0 \in x) /\ (1 \in b <=> 1 \in p \/ 1 \in y)
      /\ (2 \in b <=> 2 \in p \/ 2 \in z) /\ (3 \in b <=> 3 \in p) /\ (4 \in b <=> 4 \in p)
  BY <1>3, <1>4
<1>. HIDE DEF b
<1>6. CpuErr(c).bits = b /\ CpuErr(c).index = IF c.vector \in Selectors THEN 1 ELSE 0
  BY <1>2 DEF b
<1>. QED
  BY <1>3, <1>4, <1>5, <1>6

\* A fault whose vector comes without an error code has nothing to tell.
LEMMA ErrOfCause ==
  ASSUME NEW c \in Causes
  PROVE  /\ c.vector \in 0 .. 31 /\ CpuErr(c) \in Err
         /\ c.vector \notin CpuPushesErr => CpuErr(c) = NoErr
<1>1. c.vector \in 0 .. 31 /\ (c.vector \notin {10, 11, 12, 13, 14} => c.why = {})
  BY CauseAssumption
<1>2. CASE c.why = {}
  BY <1>1, <1>2 DEF CpuErr, NoErr, Err
<1>3. CASE c.why # {}
  <2>1. CpuErr(c) = [bits |-> CpuErr(c).bits, index |-> CpuErr(c).index]
    BY <1>3 DEF CpuErr
  <2>2. CpuErr(c).bits \in SUBSET (0 .. 4) /\ CpuErr(c).index \in 0 .. 1
    BY <1>3, BitsOfCause
  <2>3. CpuErr(c) \in Err
    BY <2>1, <2>2 DEF Err
  <2>. QED
    BY <1>1, <1>3, <2>3 DEF CpuPushesErr
<1>. QED
  BY <1>2, <1>3

LEMMA PageFaultTold ==
  ASSUME NEW c \in Causes, c.vector = 14
  PROVE  PageFault(CpuErr(c)) = c.why
<1>1. /\ c.why \subseteq {"absent", "protection", "read", "write", "kernel", "user",
                        "reserved", "fetch"}
      /\ "absent" \in c.why <=> "protection" \notin c.why
      /\ "read" \in c.why <=> "write" \notin c.why
      /\ "kernel" \in c.why <=> "user" \notin c.why
  BY CauseAssumption
<1>2. c.why # {}
  BY <1>1
<1>. DEFINE b == CpuErr(c).bits
<1>3. /\ 0 \in b <=> "protection" \in c.why
      /\ 1 \in b <=> "write" \in c.why
      /\ 2 \in b <=> "user" \in c.why
      /\ 3 \in b <=> "reserved" \in c.why
      /\ 4 \in b <=> "fetch" \in c.why
  BY <1>1, <1>2, BitsOfCause
<1>4. PageFault(CpuErr(c)) =
        {IF 0 \in b THEN "protection" ELSE "absent", IF 1 \in b THEN "write" ELSE "read",
         IF 2 \in b THEN "user" ELSE "kernel"}
        \union (IF 3 \in b THEN {"reserved"} ELSE {})
        \union (IF 4 \in b THEN {"fetch"} ELSE {})
  BY DEF PageFault, Said
<1>. HIDE DEF b
<1>5. ASSUME NEW w
      PROVE  w \in PageFault(CpuErr(c)) <=> w \in c.why
  BY <1>1, <1>3, <1>4
<1>. QED
  BY <1>5

LEMMA SelectorTold ==
  ASSUME NEW c \in Causes, c.vector \in Selectors
  PROVE  SelectorError(CpuErr(c)) = c.why
<1>1. CASE c.why = {}
  BY <1>1 DEF CpuErr, SelectorError
<1>2. CASE c.why # {}
  <2>1. PICK t \in {"gdt", "ldt", "idt"} : c.why \in {{t}, {t, "external"}}
    BY <1>2, CauseAssumption DEF Selectors
  <2>. DEFINE b == CpuErr(c).bits
  <2>2. /\ 0 \in b <=> "external" \in c.why
        /\ 1 \in b <=> "idt" \in c.why
        /\ 2 \in b <=> "ldt" \in c.why
    BY <1>2, <2>1, BitsOfCause
  <2>3. CpuErr(c) # NoErr
    <3>1. CpuErr(c).index = 1
      BY <1>2, BitsOfCause
    <3>. QED
      BY <3>1 DEF NoErr
  <2>4. SelectorError(CpuErr(c)) =
          (IF 0 \in b THEN {"external"} ELSE {}) \union
          (IF 1 \in b THEN {"idt"} ELSE IF 2 \in b THEN {"ldt"} ELSE {"gdt"})
    BY <2>3 DEF SelectorError, Said
  <2>. HIDE DEF b
  <2>. QED
    BY <2>1, <2>2, <2>4
<1>. QED
  BY <1>1, <1>2

\* trap_handler() finds in the frame what the fault was.
LEMMA FaultTold ==
  ASSUME NEW c \in Causes
  PROVE  c = [vector |-> c.vector,
              why |-> IF c.vector = T_PF THEN PageFault(CpuErr(c))
                      ELSE IF c.vector \in Selectors THEN SelectorError(CpuErr(c)) ELSE {}]
<1>1. c = [vector |-> c.vector, why |-> c.why]
  BY CauseAssumption
<1>2. c.vector \notin {10, 11, 12, 13, 14} => c.why = {}
  BY CauseAssumption
<1>3. c.why = IF c.vector = T_PF THEN PageFault(CpuErr(c))
              ELSE IF c.vector \in Selectors THEN SelectorError(CpuErr(c)) ELSE {}
  BY <1>2, PageFaultTold, SelectorTold DEF T_PF, Selectors
<1>. QED
  BY <1>1, <1>3

-----------------------------------------------------------------------------
(***************************************************************************)
(* The invariant: one step per action.                                     *)
(***************************************************************************)

LEMMA InitInv == Init => IrqInv
<1>. SUFFICES ASSUME Init
              PROVE  IrqInv
  OBVIOUS
<1>1. <<>> \in Words
  BY EmptySeq DEF Words
<1>2. TypeInv
  BY <1>1 DEF Init, TypeInv, NoFrame, OneFrame
<1>3. StackInv
  BY DEF Init, StackInv, NoFrame, OneFrame
<1>4. ServiceInv
  BY DEF Init, ServiceInv
<1>5. FrameInv
  BY DEF Init, FrameInv
<1>. QED
  BY <1>2, <1>3, <1>4, <1>5 DEF IrqInv

\* Taking a vector, for a line in service or without one.
LEMMA GateInv ==
  ASSUME IrqInv, NEW i \in Irq, NEW served, served \subseteq Irq, EnterGate(i, served),
         at[cur] \in {"inta", "inta2"}, i # 2,
         \/ served = {i} /\ i \in Master /\ isr = {}
         \/ served = {i} /\ i \in Slave /\ isr = {2}
         \/ served = {} /\ i = 7 /\ isr = {}
         \/ served = {} /\ i = 15 /\ isr = {2}
  PROVE  IrqInv'
<1>. DEFINE s == kstk[cur] \o Pushed(cur, IRQ_BASE + i, NoErr)
<1>1. kstk[cur] \in Words /\ cur \in Thread /\ kstk[cur] = <<>>
  BY DEF IrqInv, TypeInv, StackInv, NoFrame
<1>2. IRQ_BASE + i \in Int /\ NoErr \in Err /\ i \in 0 .. 15
  BY IrqAssumption DEF IRQ_BASE, NoErr, Err
<1>3. s \in Words /\ TopFrame(s, IRQ_BASE + i, NoErr) /\ Len(s) = FrameSize(cur)
  BY <1>1, <1>2, PushedOnTop
<1>. HIDE DEF s
<1>4. /\ isr' = isr \union served /\ irr' = irr \ served
      /\ vec' = [vec EXCEPT ![cur] = IRQ_BASE + i]
      /\ real' = [real EXCEPT ![cur] = i \in served]
      /\ kstk' = [kstk EXCEPT ![cur] = s]
      /\ at' = [at EXCEPT ![cur] = "dispatch"]
      /\ UNCHANGED <<booting, imr, irq_table, cur, trapvars>>
  BY DEF EnterGate, s
<1>5. TypeInv'
  BY <1>1, <1>2, <1>3, <1>4 DEF IrqInv, TypeInv, OneFrame
<1>6. StackInv'
  BY <1>1, <1>3, <1>4 DEF IrqInv, TypeInv, StackInv, NoFrame, OneFrame, FrameSize
<1>7. at'[cur'] = "dispatch" /\ vec'[cur'] = IRQ_BASE + i /\ (real'[cur'] <=> i \in served)
      /\ kstk'[cur'] = s
  BY <1>1, <1>4 DEF IrqInv, TypeInv
<1>8. Serves(i)'
  BY <1>4, <1>7 DEF Serves, Master, Slave
<1>9. ServiceInv'
  BY <1>7, <1>8 DEF ServiceInv
<1>10. FrameInv'
  BY <1>3, <1>4, <1>7 DEF IrqInv, FrameInv, TopFrame, trapvars
<1>. QED
  BY <1>5, <1>6, <1>9, <1>10 DEF IrqInv

\* The end of interrupt puts out of service what was in it.
LEMMA EndOfInterrupt ==
  ASSUME NEW i \in Irq \ {2}, Serves(i), isr \in SUBSET Irq
  PROVE  /\ Spurious(i) => ~real[cur] /\ SpuriousEoi(i) = {}
         /\ ~Spurious(i) => real[cur] /\ Eoi(Master, IF i >= 8 THEN Eoi(Slave, isr) ELSE isr) = {}
<1>1. i \in 0 .. 15 /\ 2 \in Irq /\ 2 \in Master /\ 7 \in Master /\ 15 \notin Master
      /\ (i \in Master <=> i < 8) /\ (i \in Slave <=> i >= 8) /\ 2 \notin Slave
  BY IrqAssumption DEF Master, Slave
<1>2. ASSUME NEW j \in Irq, NEW chip, j \in chip
      PROVE  Eoi(chip, {j}) = {}
  <2>1. {j} \intersect chip = {j} /\ j \in Int
    BY <1>2, IrqAssumption
  <2>. QED
    BY <2>1, LowestOfOne DEF Eoi
<1>3. CASE real[cur] /\ i \in Master /\ isr = {i}
  <2>1. ~Spurious(i)
    BY <1>3 DEF Spurious
  <2>2. Eoi(Master, {i}) = {} /\ ~(i >= 8)
    BY <1>1, <1>2, <1>3
  <2>. QED
    BY <1>3, <2>1, <2>2
<1>4. CASE real[cur] /\ i \in Slave /\ isr = {2, i}
  <2>1. ~Spurious(i)
    BY <1>4 DEF Spurious
  <2>2. isr \intersect Slave = {i} /\ isr \ {i} = {2} /\ i \in Int
    BY <1>1, <1>4
  <2>3. Eoi(Slave, isr) = {2}
    BY <2>2, LowestOfOne DEF Eoi
  <2>4. Eoi(Master, {2}) = {} /\ i >= 8
    BY <1>1, <1>2, <1>4
  <2>. QED
    BY <1>4, <2>1, <2>3, <2>4
<1>5. CASE ~real[cur] /\ i = 7 /\ isr = {}
  BY <1>5 DEF Spurious, SpuriousEoi
<1>6. CASE ~real[cur] /\ i = 15 /\ isr = {2}
  <2>1. Spurious(i) /\ Eoi(Master, {2}) = {}
    BY <1>1, <1>2, <1>6 DEF Spurious
  <2>. QED
    BY <1>6, <2>1 DEF SpuriousEoi
<1>. QED
  BY <1>3, <1>4, <1>5, <1>6 DEF Serves

\* The answers to the acknowledge cycle, the master's and the slave's.
LEMMA MasterInv ==
  ASSUME IrqInv, AcknowledgeMaster
  PROVE  IrqInv'
<1>0. irr \subseteq Irq /\ isr \subseteq Irq /\ 2 \in Irq /\ cur \in Thread
  BY IrqAssumption DEF IrqInv, TypeInv
<1>. DEFINE m == Answer(MasterAsks, 7)
<1>1. at[cur] = "inta" /\ isr = {}
  BY DEF AcknowledgeMaster, IrqInv, ServiceInv
<1>2. MasterAsks \subseteq Irq /\ MasterAsks \subseteq Master /\ 7 \in Irq
  BY <1>0, AsksAreLines, IrqAssumption
<1>3. m \in MasterAsks \/ (m = 7 /\ MasterAsks = {})
  BY <1>2, Answers
<1>4. \/ m # 2 /\ EnterGate(m, MasterAsks \intersect {m})
      \/ /\ m = 2
         /\ isr' = isr \union {2} /\ at' = [at EXCEPT ![cur] = "inta2"]
         /\ UNCHANGED <<booting, imr, irr, irq_table, cur, vec, real, trapvars, kstk>>
  BY DEF AcknowledgeMaster
<1>. HIDE DEF m
<1>5. CASE m # 2 /\ EnterGate(m, MasterAsks \intersect {m})
  <2>. DEFINE served == MasterAsks \intersect {m}
  <2>1. /\ m \in Irq /\ served \subseteq Irq
        /\ \/ served = {m} /\ m \in Master /\ isr = {}
           \/ served = {} /\ m = 7 /\ isr = {}
    BY <1>1, <1>2, <1>3
  <2>2. EnterGate(m, served) /\ m # 2
    BY <1>5
  <2>. HIDE DEF served
  <2>. QED
    BY <1>1, <1>3, <2>1, <2>2, GateInv
<1>6. CASE /\ m = 2
           /\ isr' = isr \union {2} /\ at' = [at EXCEPT ![cur] = "inta2"]
           /\ UNCHANGED <<booting, imr, irr, irq_table, cur, vec, real, trapvars, kstk>>
  <2>1. TypeInv'
    BY <1>0, <1>6 DEF IrqInv, TypeInv, NoFrame
  <2>2. StackInv'
    BY <1>1, <1>6 DEF IrqInv, TypeInv, StackInv, NoFrame, OneFrame, FrameSize
  <2>3. ServiceInv' /\ FrameInv'
    BY <1>1, <1>6 DEF IrqInv, TypeInv, ServiceInv, FrameInv, trapvars
  <2>. QED
    BY <2>1, <2>2, <2>3 DEF IrqInv
<1>. QED
  BY <1>4, <1>5, <1>6

LEMMA SlaveInv ==
  ASSUME IrqInv, AcknowledgeSlave
  PROVE  IrqInv'
<1>0. irr \subseteq Irq /\ isr \subseteq Irq /\ 2 \in Irq /\ cur \in Thread
  BY IrqAssumption DEF IrqInv, TypeInv
<1>. DEFINE m == Answer(SlaveAsks, 15)
            served == SlaveAsks \intersect {m}
<1>1. at[cur] = "inta2" /\ isr = {2}
  BY DEF AcknowledgeSlave, IrqInv, ServiceInv
<1>2. SlaveAsks \subseteq Irq /\ SlaveAsks \subseteq Slave /\ 15 \in Irq
  BY <1>0, AsksAreLines, IrqAssumption
<1>3. m \in SlaveAsks \/ (m = 15 /\ SlaveAsks = {})
  BY <1>2, Answers
<1>4. EnterGate(m, served)
  BY DEF AcknowledgeSlave
<1>. HIDE DEF m
<1>5. /\ m \in Irq /\ served \subseteq Irq /\ m # 2
      /\ \/ served = {m} /\ m \in Slave /\ isr = {2}
         \/ served = {} /\ m = 15 /\ isr = {2}
  BY <1>1, <1>2, <1>3 DEF Slave, Master
<1>. HIDE DEF served
<1>. QED
  BY <1>1, <1>3, <1>4, <1>5, GateInv

LEMMA StepInv == IrqInv /\ [Next]_vars => IrqInv'
<1>. SUFFICES ASSUME IrqInv, [Next]_vars
              PROVE  IrqInv'
  OBVIOUS
<1>. USE DEF IrqInv
<1>0. isr \in SUBSET Irq /\ irr \in SUBSET Irq /\ 2 \in Irq /\ cur \in Thread
  BY IrqAssumption DEF TypeInv
<1>1. CASE PicInit
  <2>1. TypeInv'
    BY <1>1 DEF PicInit, TypeInv, NoFrame
  <2>2. StackInv'
    BY <1>1 DEF PicInit, TypeInv, StackInv, NoFrame, OneFrame, FrameSize
  <2>3. ServiceInv' /\ FrameInv'
    BY <1>1 DEF PicInit, TypeInv, ServiceInv, FrameInv, trapvars
  <2>. QED
    BY <2>1, <2>2, <2>3
<1>2. CASE Sti
  <2>1. TypeInv'
    BY <1>2 DEF Sti, TypeInv, NoFrame, picvars
  <2>2. StackInv'
    BY <1>2 DEF Sti, TypeInv, StackInv, NoFrame, OneFrame, FrameSize
  <2>3. ServiceInv' /\ FrameInv'
    BY <1>2 DEF Sti, TypeInv, ServiceInv, FrameInv, trapvars, picvars
  <2>. QED
    BY <2>1, <2>2, <2>3
<1>3. ASSUME NEW i \in Drivers, DriverInit(i)
      PROVE  IrqInv'
  <2>1. i \in Irq /\ imr' \in SUBSET Irq /\ UNCHANGED <<irr, isr, cur, at, vec, real, trapvars, kstk>>
        /\ at[cur] = "drivers"
    BY <1>3, IrqAssumption DEF DriverInit, Unmasked, TypeInv
  <2>2. TypeInv' /\ StackInv'
    BY <2>1 DEF TypeInv, StackInv, FrameSize
  <2>3. ServiceInv' /\ FrameInv'
    BY <2>1 DEF ServiceInv, FrameInv, trapvars
  <2>. QED
    BY <2>2, <2>3
<1>4. CASE Accept
  <2>1. TypeInv'
    BY <1>4 DEF Accept, TypeInv, NoFrame, picvars
  <2>2. StackInv'
    BY <1>4 DEF Accept, TypeInv, StackInv, NoFrame, OneFrame, FrameSize
  <2>3. ServiceInv' /\ FrameInv'
    BY <1>4 DEF Accept, TypeInv, ServiceInv, FrameInv, trapvars, picvars
  <2>. QED
    BY <2>1, <2>2, <2>3
<1>5. CASE AcknowledgeMaster
  BY <1>5, MasterInv
<1>6. CASE AcknowledgeSlave
  BY <1>6, SlaveInv
<1>7. CASE IrqDispatch
  <2>1. PICK i \in Irq \ {2} : vec[cur] = IRQ_BASE + i /\ Serves(i)
    BY <1>7 DEF IrqDispatch, ServiceInv
  <2>2. vec[cur] - IRQ_BASE = i
    BY <2>1, IrqAssumption DEF IRQ_BASE
  <2>3. /\ Spurious(i) => ~real[cur] /\ SpuriousEoi(i) = {}
        /\ ~Spurious(i) =>
             real[cur] /\ Eoi(Master, IF i >= 8 THEN Eoi(Slave, isr) ELSE isr) = {}
    BY <1>0, <2>1, EndOfInterrupt
  <2>4. PICK p \in {"ret", "handler"} :
          /\ at' = [at EXCEPT ![cur] = p] /\ isr' = {} /\ (p = "handler" => real[cur])
          /\ UNCHANGED <<booting, imr, irr, irq_table, cur, vec, real, trapvars, kstk>>
    BY <1>7, <2>2, <2>3 DEF IrqDispatch
  <2>5. at[cur] = "dispatch"
    BY <1>7 DEF IrqDispatch
  <2>6. TypeInv'
    BY <2>4 DEF TypeInv, OneFrame
  <2>7. StackInv'
    BY <2>4, <2>5 DEF TypeInv, StackInv, NoFrame, OneFrame, FrameSize
  <2>8. ServiceInv' /\ FrameInv'
    BY <2>4, <2>5 DEF TypeInv, ServiceInv, FrameInv, trapvars
  <2>. QED
    BY <2>6, <2>7, <2>8
<1>8. CASE Handler
  <2>1. /\ at[cur] = "handler" /\ at' = [at EXCEPT ![cur] = "ret"] /\ cur' \in Thread
        /\ UNCHANGED <<imr, irr, isr, vec, real, trapvars, kstk>> /\ isr = {}
    BY <1>8 DEF Handler, picvars, TypeInv, ServiceInv
  <2>2. TypeInv'
    BY <2>1 DEF TypeInv, OneFrame
  <2>3. StackInv'
    BY <2>1 DEF TypeInv, StackInv, NoFrame, OneFrame, FrameSize
  <2>4. at'[cur'] \in {"out", "ret"}
    BY <2>1 DEF TypeInv, StackInv
  <2>5. ServiceInv' /\ FrameInv'
    BY <2>1, <2>4 DEF ServiceInv, FrameInv, trapvars
  <2>. QED
    BY <2>2, <2>3, <2>5
<1>9. CASE Iret
  <2>1. at[cur] = "ret" /\ isr = {} /\ kstk[cur] \in Words /\ Len(kstk[cur]) = FrameSize(cur)
    BY <1>9 DEF Iret, ServiceInv, TypeInv, StackInv, OneFrame
  <2>2. Unwound(cur) = <<>>
    BY <1>0, <2>1, UnwoundIsEmpty
  <2>3. /\ kstk' = [kstk EXCEPT ![cur] = <<>>] /\ at' = [at EXCEPT ![cur] = "run"]
        /\ UNCHANGED <<imr, irr, isr, cur, vec, real, trapvars>>
    BY <1>9, <2>2 DEF Iret, picvars
  <2>4. <<>> \in Words
    BY EmptySeq DEF Words
  <2>5. TypeInv'
    BY <2>3, <2>4 DEF TypeInv, NoFrame
  <2>6. StackInv'
    BY <2>3 DEF TypeInv, StackInv, NoFrame, OneFrame, FrameSize
  <2>7. ServiceInv' /\ FrameInv'
    BY <2>1, <2>3 DEF TypeInv, ServiceInv, FrameInv, trapvars
  <2>. QED
    BY <2>5, <2>6, <2>7
<1>10. CASE Resume
  <2>1. TypeInv'
    BY <1>10 DEF Resume, TypeInv, NoFrame, picvars
  <2>2. StackInv'
    BY <1>10 DEF Resume, TypeInv, StackInv, NoFrame, OneFrame, FrameSize
  <2>3. ServiceInv' /\ FrameInv'
    BY <1>10 DEF Resume, TypeInv, ServiceInv, FrameInv, trapvars, picvars
  <2>. QED
    BY <2>1, <2>2, <2>3
<1>11. CASE TrapHandler
  <2>. DEFINE n == Len(kstk[cur])
  <2>1. /\ at[cur] = "trap" /\ isr = {} /\ fault \in Causes /\ vec[cur] = fault.vector
        /\ n >= 7 /\ kstk[cur][n - 2] = <<"vector", fault.vector>>
        /\ kstk[cur][n - 3] = <<"err", CpuErr(fault)>>
    BY <1>11 DEF TrapHandler, FrameInv, ServiceInv, TopFrame
  <2>2. Trapframe(cur).vector = <<"vector", fault.vector>>
        /\ Trapframe(cur).err = <<"err", CpuErr(fault)>>
    BY <2>1 DEF Trapframe
  <2>3. Trapframe(cur).vector[2] = fault.vector /\ Trapframe(cur).err[2] = CpuErr(fault)
    BY <2>2
  <2>4. report' = fault
    BY <1>11, <2>1, <2>3, FaultTold DEF TrapHandler
  <2>5. at' = [at EXCEPT ![cur] = "halt"]
        /\ UNCHANGED <<imr, irr, isr, cur, vec, real, fault, kstk>>
    BY <1>11 DEF TrapHandler, picvars
  <2>6. TypeInv'
    BY <2>5 DEF TypeInv
  <2>7. StackInv'
    BY <2>5 DEF TypeInv, StackInv, NoFrame, OneFrame, FrameSize
  <2>8. ServiceInv' /\ FrameInv'
    BY <2>1, <2>4, <2>5 DEF TypeInv, ServiceInv, FrameInv
  <2>. QED
    BY <2>6, <2>7, <2>8
<1>12. CASE Yield
  <2>1. /\ at[cur] = "run" /\ at' = [at EXCEPT ![cur] = "out"] /\ cur' \in Thread
        /\ UNCHANGED <<imr, irr, isr, vec, real, trapvars, kstk>> /\ isr = {}
    BY <1>12 DEF Yield, picvars, ServiceInv
  <2>2. TypeInv'
    BY <2>1 DEF TypeInv, NoFrame
  <2>3. StackInv'
    BY <2>1 DEF TypeInv, StackInv, NoFrame, OneFrame, FrameSize
  <2>4. at'[cur'] \in {"out", "ret"}
    BY <2>1 DEF TypeInv, StackInv
  <2>5. ServiceInv' /\ FrameInv'
    BY <2>1, <2>4 DEF ServiceInv, FrameInv, trapvars
  <2>. QED
    BY <2>2, <2>3, <2>5
<1>13. CASE Devices
  <2>1. irr' \in SUBSET Irq /\ UNCHANGED <<imr, isr, cur, at, vec, real, trapvars, kstk>>
    BY <1>0, <1>13, IrqAssumption DEF Devices, Raise, Drop
  <2>2. TypeInv' /\ StackInv'
    BY <2>1 DEF TypeInv, StackInv, FrameSize
  <2>3. ServiceInv'
    BY <2>1 DEF ServiceInv, Serves
  <2>4. FrameInv'
    BY <2>1 DEF FrameInv, trapvars
  <2>. QED
    BY <2>2, <2>3, <2>4
<1>14. ASSUME NEW c \in Causes, Exception(c)
       PROVE  IrqInv'
  <2>. DEFINE s == kstk[cur] \o Pushed(cur, c.vector, CpuErr(c))
  <2>1. at[cur] \in {"run", "handler", "trap"} /\ isr = {}
    BY <1>14 DEF Exception, ServiceInv
  <2>2. kstk[cur] \in Words
    BY <1>0 DEF TypeInv
  <2>3. c.vector \in Int /\ CpuErr(c) \in Err /\ (c.vector \notin CpuPushesErr => CpuErr(c) = NoErr)
    BY ErrOfCause
  <2>4. s \in Words /\ TopFrame(s, c.vector, CpuErr(c))
    BY <1>0, <2>2, <2>3, PushedOnTop
  <2>5. /\ kstk' = [kstk EXCEPT ![cur] = s] /\ vec' = [vec EXCEPT ![cur] = c.vector]
        /\ fault' = c /\ at' = [at EXCEPT ![cur] = "trap"]
        /\ UNCHANGED <<imr, irr, isr, cur, real, report, panicking>>
    BY <1>14 DEF Exception, picvars
  <2>. HIDE DEF s
  <2>6. TypeInv'
    BY <2>3, <2>4, <2>5 DEF TypeInv
  <2>7. StackInv'
    BY <2>5 DEF TypeInv, StackInv, NoFrame, OneFrame, FrameSize
  <2>8. at'[cur'] = "trap" /\ kstk'[cur'] = s /\ vec'[cur'] = c.vector
    BY <1>0, <2>5 DEF TypeInv
  <2>9. ServiceInv'
    BY <2>1, <2>5, <2>8 DEF ServiceInv
  <2>10. ~panicking
    BY <2>1 DEF FrameInv
  <2>11. FrameInv'
    BY <2>4, <2>5, <2>8, <2>10 DEF FrameInv, TopFrame
  <2>. QED
    BY <2>6, <2>7, <2>9, <2>11
<1>15. CASE UNCHANGED vars
  <2>1. TypeInv' /\ StackInv'
    BY <1>15 DEF vars, TypeInv, StackInv, FrameSize, picvars
  <2>2. ServiceInv'
    BY <1>15 DEF vars, ServiceInv, Serves, picvars
  <2>3. FrameInv'
    BY <1>15 DEF vars, FrameInv, trapvars
  <2>. QED
    BY <2>1, <2>2, <2>3
<1>. QED
  BY <1>1, <1>2, <1>3, <1>4, <1>5, <1>6, <1>7, <1>8, <1>9, <1>10, <1>11, <1>12, <1>13, <1>14, <1>15
     DEF Next, Progress

-----------------------------------------------------------------------------
(***************************************************************************)
(* The theorems.                                                           *)
(***************************************************************************)

LEMMA InvAlways == Spec => []IrqInv
BY InitInv, StepInv, PTL DEF Spec

\* A handler runs for a request the 8259 confirms: an answer without one is told
\* by pic_is_spurious() on either chip.
THEOREM RealRequests == Spec => []HandlersForReal
<1>1. IrqInv => HandlersForReal
  BY DEF IrqInv, ServiceInv, HandlersForReal
<1>. QED
  BY <1>1, InvAlways, PTL

\* Every stub leaves a struct trapframe, and iret takes all of it away again.
THEOREM TrapframesFit == Spec => []FramesRight
<1>1. IrqInv => FramesRight
  <2>. SUFFICES ASSUME IrqInv
                PROVE  FramesRight
    OBVIOUS
  <2>. DEFINE e == IF at[cur] = "trap" THEN CpuErr(fault) ELSE NoErr
  <2>1. ASSUME at[cur] \in {"dispatch", "trap"}
        PROVE  TopFrame(kstk[cur], vec[cur], e)
    BY <2>1 DEF IrqInv, FrameInv
  <2>. HIDE DEF e
  <2>2. ASSUME at[cur] \in {"dispatch", "trap"}
        PROVE  /\ Trapframe(cur).vector = <<"vector", vec[cur]>>
               /\ Trapframe(cur).err = <<"err", e>>
               /\ Trapframe(cur).eip = <<"eip", 0>> /\ Trapframe(cur).cs = <<"cs", 0>>
               /\ Trapframe(cur).eflags = <<"eflags", 0>>
    BY <2>1, <2>2 DEF TopFrame, Trapframe
  <2>3. \A t \in Thread : at[t] \in {"run", "out"} => kstk[t] = <<>>
    BY DEF IrqInv, StackInv, NoFrame
  <2>. QED
    BY <2>2, <2>3 DEF FramesRight, e
<1>. QED
  BY <1>1, InvAlways, PTL

\* The panic message tells the fault: no bit of the error code is read for
\* another, and no word of the frame.
THEOREM FaultReported == Spec => []ReportTrue
<1>1. IrqInv => ReportTrue
  BY DEF IrqInv, FrameInv, ReportTrue
<1>. QED
  BY <1>1, InvAlways, PTL
=============================================================================
