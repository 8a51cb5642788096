-------------------------------- MODULE Mkdir --------------------------------
(***************************************************************************)
(* mkdir (src/src/bin/mkdir/mkdir.c): the mode argument, one directory and *)
(* the walk along a path with -p.  A mode is a set of bits: "ur" is        *)
(* S_IRUSR, "us" S_ISUID, "gs" S_ISGID, "t" S_ISVTX.                       *)
(***************************************************************************)
EXTENDS Utility

Bits == <<"ox", "ow", "or", "gx", "gw", "gr", "ux", "uw", "ur", "t", "gs", "us">>
AllRwx == {Bits[i] : i \in 1 .. 9}
BadMode == {"invalid"}

-----------------------------------------------------------------------------
(***************************************************************************)
(* parsemode() and applyclause(): a clause is who, and then one or more    *)
(* times an operator and permissions.                                      *)
(***************************************************************************)
Prefixed(s, i, set) ==      \* the end of the longest run of characters of set from i
  CHOOSE j \in i .. Len(s) + 1 :
    /\ \A k \in i .. j - 1 : s[k] \in set
    /\ j <= Len(s) => s[j] \notin set

Who(clause) ==
  LET given == {clause[k] : k \in 1 .. Prefixed(clause, 1, {"u", "g", "o", "a"}) - 1}
  IN  IF given = {} \/ "a" \in given THEN {"u", "g", "o"} ELSE given

PermBits(c, who) ==
  CASE c \in {"r", "w"} -> {w \o c : w \in who}
    [] c \in {"x", "X"} -> {w \o "x" : w \in who}
    [] c = "s" -> {w \o "s" : w \in who \ {"o"}}
    [] c = "t" -> {"t"}

\* Mutant: "=" leaves the set-id and sticky bits.
Cleared_KeepsSpecial(who) == {w \o c : w \in who, c \in {"r", "w", "x"}}

Cleared(who) ==
  {w \o c : w \in who, c \in {"r", "w", "x"}} \union {w \o "s" : w \in who \ {"o"}}
  \union (IF "o" \in who THEN {"t"} ELSE {})

Operators == {"+", "-", "="}
PermChars == {"r", "w", "x", "X", "s", "t"}

ApplyClause(m, clause) ==
  LET who == Who(clause)
      first == Prefixed(clause, 1, {"u", "g", "o", "a"})
      bits(i) == UNION {PermBits(clause[k], who) :
                          k \in i + 1 .. Prefixed(clause, i + 1, PermChars) - 1}
      to[i \in first - 1 .. Len(clause)] ==      \* the mode after the operators up to i
        IF i < first THEN m
        ELSE CASE clause[i] = "+" -> to[i - 1] \union bits(i)
               [] clause[i] = "-" -> to[i - 1] \ bits(i)
               [] clause[i] = "=" -> (to[i - 1] \ Cleared(who)) \union bits(i)
               [] clause[i] \in PermChars -> to[i - 1]
  IN  IF \/ first > Len(clause) \/ clause[first] \notin Operators
         \/ \E i \in first .. Len(clause) : clause[i] \notin Operators \union PermChars
      THEN BadMode
      ELSE to[Len(clause)]

\* strtok_r(): empty clauses are left out.
Clauses(s) ==
  LET starts == {i \in DOMAIN s : s[i] # "," /\ (i = 1 \/ s[i - 1] = ",")}
      clause(i) == SubSeq(s, i, Prefixed(s, i, Range(s) \ {","}) - 1)
  IN  [k \in 1 .. Cardinality(starts) |->
         clause(CHOOSE i \in starts : Cardinality({j \in starts : j <= i}) = k)]

Digit == <<"0", "1", "2", "3", "4", "5", "6", "7", "8", "9">>
DigitValue(c) == (CHOOSE i \in 1 .. 10 : Digit[i] = c) - 1

ParseMode(s) ==
  IF s # <<>> /\ s[1] \in Range(Digit)
  THEN IF \E k \in DOMAIN s : s[k] \notin Range(Digit) \ {"8", "9"} THEN BadMode
       ELSE LET v == FoldLeft(LAMBDA x, c : IF x > 4095 THEN x ELSE 8 * x + DigitValue(c), 0, s)
            IN  IF v > 4095 THEN BadMode
                ELSE {Bits[b] : b \in {k \in 1 .. 12 : (v \div 2 ^ (k - 1)) % 2 = 1}}
  ELSE FoldLeft(LAMBDA m, clause : IF m = BadMode THEN m ELSE ApplyClause(m, clause),
                AllRwx, Clauses(s))

-----------------------------------------------------------------------------
(***************************************************************************)
(* makepath() and mkone().  The paths that are still to make are in the    *)
(* stack; without -p it is the operand alone.                              *)
(***************************************************************************)
\* Neither "." alone nor, of an empty operand, nothing is made; a slash at the end goes.
PathsTo(path) ==
  LET first == IF path[1] = "/" /\ Len(path) > 1 THEN 2 ELSE 1
  IN  SelectSeq([k \in 1 .. Len(path) - first + 1 |-> SubSeq(path, 1, first + k - 1)],
                LAMBDA prefix : prefix # <<".">> /\ Last(prefix) # "")

\* main() before its loop: the mode argument, or None without -m.
MkdirArgs(p) ==
  /\ At(p, "mkdir", "main") /\ proc[p].v = None
  /\ LET me == proc[p]
         modearg == IF me.cmd.modearg = None THEN None ELSE ParseMode(me.cmd.modearg)
     IN  Becomes(p, IF modearg = BadMode THEN Goto(Failed(me), "exited")
                    ELSE Locals(me, [modearg |-> modearg, st_mode |-> None]))
  /\ Silently

MkdirMain(p) ==
  /\ proc[p].v # None
  /\ Operand(p, "mkdir", Goto([Taken(p) EXCEPT
       !.stack = IF Has(proc[p], "p") THEN PathsTo(Current(p)) ELSE <<Current(p)>>], "next"))

MkdirNext(p) ==
  /\ At(p, "mkdir", "next")
  /\ LET me == proc[p]
     IN  Becomes(p, IF me.stack = <<>> THEN Goto(me, "main") ELSE Goto(me, "mkdir"))
  /\ Silently

IsFinal(me) == Len(me.stack) = 1
\* Mutant: the walk does not come to the next component.
MadeOne_Again(me) == Goto(me, "next")

\* One component is there: makepath() goes on behind the next slash.
MadeOne(me) == Goto([me EXCEPT !.stack = Tail(@)], "next")
NotMade(me) == Goto([Failed(me) EXCEPT !.stack = <<>>], "main")

MkOne(p) ==
  /\ At(p, "mkdir", "mkdir")
  /\ LET me == proc[p]
         path == Head(me.stack)
     IN  IF CanMakeDir(fs, path)
         THEN /\ fs' = MakeDir(fs, path, AllRwx \ me.cmd.umask)
              /\ Becomes(p, Goto(me, "stat"))
         ELSE /\ Becomes(p, IF Has(me, "p") /\ Lstat(fs, path) # None
                            THEN Goto(me, "exists") ELSE NotMade(me))
              /\ UNCHANGED fs
  /\ NoOutput

\* -p: a directory that is already there is left alone.
MkOneExists(p) ==
  /\ At(p, "mkdir", "exists")
  /\ LET me == proc[p]
     IN  Becomes(p, IF IsDir(fs, Stat(fs, Head(me.stack))) THEN MadeOne(me) ELSE NotMade(me))
  /\ Silently

\* Mutant: an intermediate directory keeps the mode that the umask left.
Wanted_AsMade(me, mode) ==
  IF IsFinal(me) /\ me.v.modearg # None THEN me.v.modearg ELSE mode

\* An intermediate directory can be written and searched whatever the umask is.
Wanted(me, mode) ==
  IF ~ IsFinal(me) THEN mode \union {"uw", "ux"}
  ELSE IF me.v.modearg # None THEN me.v.modearg ELSE mode

MkOneStat(p) ==
  /\ At(p, "mkdir", "stat")
  /\ LET me == proc[p]
         i == Stat(fs, Head(me.stack))
     IN  Becomes(p, IF i = None THEN NotMade(me)
                    ELSE IF Wanted(me, fs[i].mode) = fs[i].mode THEN MadeOne(me)
                    ELSE Goto([me EXCEPT !.v.st_mode = fs[i].mode], "chmod"))
  /\ Silently

MkOneChmod(p) ==
  /\ At(p, "mkdir", "chmod")
  /\ LET me == proc[p]
         path == Head(me.stack)
     IN  IF Stat(fs, path) = None THEN Becomes(p, NotMade(me)) /\ UNCHANGED fs
         ELSE fs' = Chmod(fs, path, Wanted(me, me.v.st_mode)) /\ Becomes(p, MadeOne(me))
  /\ NoOutput

MkdirStep(p) ==
  \/ MkdirArgs(p) \/ MkdirMain(p) \/ MkdirNext(p) \/ MkOne(p) \/ MkOneExists(p)
  \/ MkOneStat(p) \/ MkOneChmod(p)

-----------------------------------------------------------------------------
(***************************************************************************)
(* Properties.                                                             *)
(***************************************************************************)
\* Something on the way is not a directory, or cannot be written.
Obstructed(path) ==
  \E k \in DOMAIN path : LET prefix == SubSeq(path, 1, k) IN
    \/ Lstat(before, prefix) # None /\ ~ IsDir(before, Stat(before, prefix))
    \/ /\ Lstat(before, prefix) = None
       /\ LET d == IF k = 1 THEN Cwd ELSE Stat(before, SubSeq(path, 1, k - 1))
          IN  d # None /\ ~ Writable(before, d)

(* When nobody but mkdir is at work: after exit status 0 every operand is a *)
(* directory (but for an empty one, which -p passes over), with the mode of *)
(* -m if it was not there before; with -p the exit status is 0, whoever     *)
(* makes the same path at the same time and whatever the umask of a mkdir   *)
(* that is alone, if nothing was in the way; and what was there keeps its   *)
(* mode (mkdir.c:127-163, 166-201).                                         *)
MkdirDone ==
  (\A q \in DOMAIN proc : proc[q].cmd.prog \in {"mkdir", "idle"}) =>
    /\ \A p \in DOMAIN proc : LET me == proc[p] IN Exited(p, "mkdir") =>
         /\ \A op \in Range(me.cmd.operands) : me.status = 0 /\ ~ (Has(me, "p") /\ op = <<"">>) =>
              /\ IsDir(fs, Stat(fs, op))
              /\ Alone(p) /\ me.cmd.modearg # None /\ Lstat(before, op) = None =>
                   fs[Stat(fs, op)].mode = me.cmd.means
         /\ /\ Has(me, "p") /\ me.cmd.operands # <<>> /\ me.cmd.means # BadMode
            /\ \A op \in Range(me.cmd.operands) : ~ Obstructed(op)
            /\ \A q \in DOMAIN proc : Alone(p) \/ {"uw", "ux"} \cap proc[q].cmd.umask = {}
            => me.status = 0
    /\ \A i \in DOMAIN before : fs[i].mode = before[i].mode
=============================================================================
