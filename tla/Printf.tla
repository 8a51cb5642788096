------------------------------- MODULE Printf -------------------------------
(***************************************************************************)
(* The kernel's printf (src/src/kern/subr_prf.c) as operators: what        *)
(* kvprintf() hands to kputc() for a format and its arguments.             *)
(*                                                                         *)
(* A format is a sequence of characters.  The arguments are a function of  *)
(* their number: what va_arg() returns for the k-th one, by the type it is *)
(* asked for.  An unsigned long is a number below Word.                    *)
(***************************************************************************)
EXTENDS Integers, SequencesExt

CONSTANTS Word, BufSize     \* 2^32, KPUTNUM_BUFSZ

TenTo[k \in Nat] == IF k = 0 THEN 1 ELSE 10 * TenTo[k - 1]

\* An unsigned long has as many decimal digits as the buffer, or fewer.
ASSUME PrintfAssumption ==
  /\ Word \in Nat \ {0} /\ BufSize \in Nat
  /\ \E k \in 1 .. BufSize : Word <= TenTo[k]

WidthMax == BufSize - 2     \* WIDTH_MAX
Numeral == <<"0", "1", "2", "3", "4", "5", "6", "7", "8", "9", "a", "b", "c", "d", "e", "f">>
Decimal(c) == c \in {Numeral[i] : i \in 1 .. 10}
ValueOf(c) == (CHOOSE i \in 1 .. 16 : Numeral[i] = c) - 1
LeastOf(a, b) == IF a < b THEN a ELSE b
MostOf(a, b) == IF a > b THEN a ELSE b

\* The do loop of kputnum(), which leaves the digits in buf backwards.
Digits(num, base) ==
  LET d[n \in Nat] == <<Numeral[(n % base) + 1]>> \o
                      IF n < base THEN <<>> ELSE d[n \div base]
  IN  d[num]

\* Mutant: pads to any width.
Kputnum_NoLimit(num, base, width, zero) ==
  LET digits == Digits(num, base)
  IN  digits \o [i \in 1 .. MostOf(width - Len(digits), 0) |-> IF zero THEN "0" ELSE " "]

\* The buffer of kputnum() when it is filled.
Kputnum(num, base, width, zero) ==
  LET digits == Digits(num, base)
      short == MostOf(LeastOf(width, WidthMax) - Len(digits), 0)
  IN  digits \o [i \in 1 .. short |-> IF zero THEN "0" ELSE " "]

\* The character at i of a format; after its last one comes the NUL.
CharAt(fmt, i) == IF i <= Len(fmt) THEN fmt[i] ELSE IF i = Len(fmt) + 1 THEN "NUL" ELSE "beyond"

\* The directive behind the "%" at i: its flag and width and where its letter is.
Directive(fmt, i) ==
  LET zero == CharAt(fmt, i + 1) = "0"
      first == IF zero THEN i + 2 ELSE i + 1
      past == CHOOSE j \in first .. Len(fmt) + 2 :
                ~ Decimal(CharAt(fmt, j)) /\ \A k \in first .. j - 1 : Decimal(CharAt(fmt, k))
      width[j \in first - 1 .. past - 1] ==
        IF j = first - 1 THEN 0
        ELSE LET w == width[j - 1] IN IF w < 1000 THEN w * 10 + ValueOf(fmt[j]) ELSE w
  IN  [zero |-> zero, width |-> width[past - 1],
       letter |-> IF CharAt(fmt, past) = "l" THEN past + 1 ELSE past]

\* What the number of a directive is, its sign apart.
Magnitude(letter, n) == IF letter \in {"d", "i"} /\ n < 0 THEN (0 - n) % Word ELSE n % Word
Base(letter) == IF letter \in {"x", "p"} THEN 16 ELSE 10

\* One directive: the characters of kputc(), and how many arguments it took.
Converted(letter, dir, arg) ==
  CASE letter \in {"d", "i", "u", "x"} ->
         [took |-> 1,
          out |-> (IF letter \in {"d", "i"} /\ arg.n < 0 THEN <<"-">> ELSE <<>>) \o
                  Reverse(Kputnum(Magnitude(letter, arg.n), Base(letter), dir.width, dir.zero))]
    [] letter = "p" ->
         [took |-> 1, out |-> <<"0", "x">> \o Reverse(Kputnum(arg.n % Word, 16, 0, FALSE))]
    [] letter = "s" -> [took |-> 1, out |-> arg.s]
    [] letter = "c" -> [took |-> 1, out |-> <<arg.c>>]
    [] letter = "%" -> [took |-> 0, out |-> <<"%">>]
    [] OTHER -> [took |-> 0, out |-> <<"%", letter>>]

\* Mutant: the NUL is taken for the letter of a directive.
Truncated_Never(fmt, dir) == FALSE

\* The NUL comes behind the "%" or in the middle of a directive.
Truncated(fmt, dir) == CharAt(fmt, dir.letter) = "NUL"

\* The loop of kvprintf() after n rounds: at a character of the format, with the k-th
\* argument next, out what it has put.  At its end it stays there.
Kvprintf(fmt, args) ==
  LET after[n \in Nat] ==
        IF n = 0 THEN [at |-> 1, k |-> 1, out |-> <<>>]
        ELSE LET prev == after[n - 1]
                 c == CharAt(fmt, prev.at)
                 dir == Directive(fmt, prev.at)
                 one == Converted(CharAt(fmt, dir.letter), dir, args[prev.k])
             IN  CASE c = "NUL" \/ (c = "%" /\ Truncated(fmt, dir)) -> prev
                   [] c = "beyond" -> [prev EXCEPT !.at = Len(fmt) + 1, !.out = Append(@, c)]
                   [] c \notin {"NUL", "beyond", "%"} ->
                        [prev EXCEPT !.at = @ + 1, !.out = Append(@, c)]
                   [] OTHER -> [at |-> dir.letter + 1, k |-> prev.k + one.took,
                                out |-> prev.out \o one.out]
  IN  after[Len(fmt) + 1].out
=============================================================================
