-------------------------------- MODULE Touch --------------------------------
(***************************************************************************)
(* touch (src/src/usr.bin/touch/touch.c): the two formats of a time, and   *)
(* the loop over the files.                                                *)
(***************************************************************************)
EXTENDS Mkdir

CONSTANT ThisYear

\* A time as mktime() (external) is given it; BadTime if the argument is not valid.  The
\* last second before 1970 is -1, which is also how mktime() fails; local time is UTC.
BadTime == [year |-> 0, mon |-> 0, day |-> 0, hh |-> 0, mm |-> 0, ss |-> 0, nsec |-> 0, utc |-> FALSE]
InRange == [year : Nat, mon : 1 .. 12, day : 1 .. 31, hh : 0 .. 23, mm : 0 .. 59, ss : 0 .. 60,
            nsec : Nat, utc : BOOLEAN]
MinusOne == [year : {1969}, mon : {12}, day : {31}, hh : {23}, mm : {59}, ss : {59},
             nsec : Nat, utc : BOOLEAN]
CharOf(s, i) == IF i <= Len(s) THEN s[i] ELSE "NUL"
AreDigits(s, i, n) == \A k \in i .. i + n - 1 : CharOf(s, k) \in Range(Digit)
Two(s, i) == 10 * DigitValue(s[i]) + DigitValue(s[i + 1])
Number(s) == FoldLeft(LAMBDA x, c : 10 * x + DigitValue(c), 0, s)

\* [[CC]YY]MMDDhhmm[.SS]
ParseT(s) ==
  LET len == Prefixed(s, 1, Range(s) \ {"."}) - 1
      point == CharOf(s, len + 1) = "."
      p == len - 7
      year == CASE len = 8 -> ThisYear
                [] len = 10 -> LET yy == Two(s, 1) IN (IF yy >= 69 THEN 1900 ELSE 2000) + yy
                [] len = 12 -> 100 * Two(s, 1) + Two(s, 3)
      t == [year |-> year, mon |-> Two(s, p), day |-> Two(s, p + 2), hh |-> Two(s, p + 4),
            mm |-> Two(s, p + 6), ss |-> IF point THEN Two(s, len + 2) ELSE 0,
            nsec |-> 0, utc |-> FALSE]
  IN  IF \/ len \notin {8, 10, 12} \/ ~ AreDigits(s, 1, len)
         \/ point /\ (Len(s) # len + 3 \/ ~ AreDigits(s, len + 2, 2))
      THEN BadTime
      ELSE IF t \in InRange \ MinusOne THEN t ELSE BadTime

\* YYYY-MM-DDThh:mm:SS[.frac][Z]; a year may have more digits, a fraction counts to nine.
ParseD(s) ==
  LET p == Prefixed(s, 1, Range(Digit))
      frac == CharOf(s, p + 15) \in {".", ","}
      q == IF frac THEN Prefixed(s, p + 16, Range(Digit)) ELSE p + 15
      utc == CharOf(s, q) = "Z"
      digit(k) == IF p + 15 + k < q THEN s[p + 15 + k] ELSE "0"
      t == [year |-> Number(SubSeq(s, 1, p - 1)), mon |-> Two(s, p + 1), day |-> Two(s, p + 4),
            hh |-> Two(s, p + 7), mm |-> Two(s, p + 10), ss |-> Two(s, p + 13),
            nsec |-> IF frac THEN Number([k \in 1 .. 9 |-> digit(k)]) ELSE 0, utc |-> utc]
  IN  IF \/ p <= 4
         \/ \E k \in {0, 3} : CharOf(s, p + k) # "-"
         \/ CharOf(s, p + 6) \notin {"T", " "}
         \/ \E k \in {9, 12} : CharOf(s, p + k) # ":"
         \/ \E k \in {1, 4, 7, 10, 13} : ~ AreDigits(s, p + k, 2)
         \/ frac /\ q = p + 16
         \/ CharOf(s, IF utc THEN q + 1 ELSE q) # "NUL"
      THEN BadTime
      ELSE IF t \in InRange \ MinusOne THEN t ELSE BadTime

ParseTime(cmd) == IF "t" \in cmd.options THEN ParseT(cmd.timearg) ELSE ParseD(cmd.timearg)

-----------------------------------------------------------------------------
\* Which times are set: both unless one of -a and -m is given.
Sets(me, option) == Has(me, option) \/ (~ Has(me, "a") /\ ~ Has(me, "m"))

\* main() before its loop: the reference file or the time of the arguments.
TouchSource(p) ==
  /\ At(p, "touch", "main") /\ proc[p].v = None
  /\ LET me == proc[p]
         r == Stat(fs, me.cmd.ref)
         times(atime, mtime) == Locals(me, [atime |-> atime, mtime |-> mtime])
     IN  Becomes(p,
           IF Has(me, "r")
           THEN IF r = None THEN Goto(Failed(me), "exited") ELSE times(fs[r].atime, fs[r].mtime)
           ELSE IF Has(me, "t") \/ Has(me, "d")
           THEN IF ParseTime(me.cmd) = BadTime THEN Goto(Failed(me), "exited")
                ELSE times("given", "given")
           ELSE times("now", "now"))
  /\ Silently

TouchMain(p) ==
  /\ proc[p].v # None
  /\ Operand(p, "touch", Goto([Taken(p) EXCEPT !.stack = Current(p)], "stat"))

TouchStat(p) ==
  /\ At(p, "touch", "stat")
  /\ LET me == proc[p]
     IN  Becomes(p, Goto(me, IF Stat(fs, me.stack) # None THEN "set"
                             ELSE IF Has(me, "c") THEN "main" ELSE "create"))
  /\ Silently

\* The times of an inode; UTIME_OMIT leaves one as it is.
SetTimes(me, inode) ==
  [inode EXCEPT !.atime = IF Sets(me, "a") THEN me.v.atime ELSE @,
                !.mtime = IF Sets(me, "m") THEN me.v.mtime ELSE @]

\* open() with O_CREAT and without O_TRUNC; what it gives takes the place of the path.
TouchCreate(p) ==
  /\ At(p, "touch", "create")
  /\ LET me == proc[p]
         i == OpenWrite(fs, me.stack)
         new == [Regular({"ur", "uw", "gr", "gw", "or", "ow"} \ me.cmd.umask, <<>>)
                   EXCEPT !.atime = "now", !.mtime = "now"]
         opened(j) == Goto([me EXCEPT !.stack = j], "futimens")
     IN  IF i # None THEN UNCHANGED fs /\ Becomes(p, opened(i))
         ELSE IF CanMake(fs, me.stack, TRUE)
         THEN fs' = Make(fs, me.stack, TRUE, new) /\ Becomes(p, opened(Fresh(fs)))
         ELSE UNCHANGED fs /\ Becomes(p, Goto(Failed(me), "main"))
  /\ NoOutput

\* Setting the times of what is there may fail.
TouchTimes(p, i) ==
  \/ i # None /\ fs' = [fs EXCEPT ![i] = SetTimes(proc[p], @)] /\ Becomes(p, Goto(proc[p], "main"))
  \/ UNCHANGED fs /\ Becomes(p, Goto(Failed(proc[p]), "main"))

\* Mutant: the times of a file that was created stay those of its creation.
TouchFutimens_Left(p) ==
  At(p, "touch", "futimens") /\ Becomes(p, Goto(proc[p], "main")) /\ UNCHANGED fs /\ NoOutput

\* futimens() of what was opened, and utimensat() of what was there.
TouchFutimens(p) == At(p, "touch", "futimens") /\ TouchTimes(p, proc[p].stack) /\ NoOutput
TouchSet(p) == At(p, "touch", "set") /\ TouchTimes(p, Stat(fs, proc[p].stack)) /\ NoOutput

TouchStep(p) ==
  \/ TouchSource(p) \/ TouchMain(p) \/ TouchStat(p) \/ TouchCreate(p) \/ TouchFutimens(p)
  \/ TouchSet(p)

-----------------------------------------------------------------------------
Time(inode, x) == IF x = "a" THEN inode.atime ELSE inode.mtime
\* What a time was at the start, or when the file was created.
OldTime(i, x) == IF i \in DOMAIN before THEN Time(before[i], x) ELSE "now"

\* The time that was asked for, or the one there was.
Expected(me, x, old) ==
  IF ~ Sets(me, x) THEN old
  ELSE IF Has(me, "r") THEN Time(before[Stat(before, me.cmd.ref)], x)
  ELSE IF Has(me, "t") \/ Has(me, "d") THEN "given" ELSE "now"

\* The times that a touch with an operand that leads to an inode gives it.
Givers(i, x) ==
  {q \in DOMAIN proc : /\ proc[q].cmd.prog = "touch" /\ proc[q].v # None /\ Sets(proc[q], x)
                       /\ \E op \in Range(proc[q].cmd.operands) : Stat(fs, op) = i}
Given(i, x) == {Time(proc[q].v, x) : q \in Givers(i, x)}

(* After exit status 0 of a touch that had none but other touches beside it *)
(* every operand is there, unless -c did not find it; the contents of what  *)
(* was there are untouched; a time that it was to set, of a file that was   *)
(* there or of one it created, is the one it had from its arguments or from *)
(* the reference file, or that of another touch of the same file, and a     *)
(* time that it was to leave is the old one or that of another; alone it is *)
(* the time asked for, and the old one (touch.c:229-281).                   *)
TouchDone ==
  (\A q \in DOMAIN proc : proc[q].cmd.prog \in {"touch", "idle"}) =>
    \A p \in DOMAIN proc : LET me == proc[p] IN
      Exited(p, "touch") /\ me.status = 0 =>
        \A op \in Range(me.cmd.operands) : LET i == Stat(fs, op) IN
          /\ Stat(before, op) # None => i # None
          /\ i = None => Has(me, "c")
          /\ i # None /\ (Has(me, "c") => Stat(before, op) # None) =>
               /\ i \in DOMAIN before => fs[i].data = before[i].data
               /\ \A x \in {"a", "m"} :
                    /\ Time(fs[i], x) \in Given(i, x) \union (IF Sets(me, x) THEN {} ELSE {OldTime(i, x)})
                    /\ Alone(p) => Time(fs[i], x) = Expected(me, x, OldTime(i, x))
=============================================================================
