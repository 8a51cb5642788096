------------------------------ MODULE CatNames ------------------------------
(***************************************************************************)
(* cat (src/src/bin/cat/cat.c), and basename and dirname (src/src/usr.bin),*)
(* which take a string apart: a sequence of characters.                    *)
(***************************************************************************)
EXTENDS Utility

CONSTANT Stdin     \* what is on the standard input

\* Without operands the standard input is copied, as for "-".  It is read once: what one
\* "-" has read, the next does not see.
CatStart(p) ==
  /\ At(p, "cat", "main") /\ proc[p].v = None
  /\ LET me == proc[p]
     IN  Becomes(p, [me EXCEPT !.ops = IF @ = <<>> THEN <<<<"-">>>> ELSE @,
                               !.v = [input |-> Stdin, path |-> <<>>, data |-> <<>>]])
  /\ Silently

CatMain(p) ==
  /\ proc[p].v # None
  /\ Operand(p, "cat", Goto([Taken(p) EXCEPT !.v.path = Current(p)], "open"))

CatOpen(p) ==
  /\ At(p, "cat", "open")
  /\ LET me == proc[p]
         i == OpenRead(fs, me.v.path)
         copy(data) == Goto([me EXCEPT !.v.data = data], "copy")
     IN  Becomes(p, IF me.v.path = <<"-">> THEN copy(me.v.input)
                    ELSE IF i = None \/ IsDir(fs, i) THEN Goto(Failed(me), "main")
                    ELSE copy(fs[i].data))
  /\ Silently

\* Mutant: the status is that of the last operand.
CatStatus_Last(me, failed) == [me EXCEPT !.status = IF failed THEN 1 ELSE 0]

\* status |= cat()
CatStatus(me, failed) == IF failed THEN Failed(me) ELSE me

\* What is left to read after a block, and of the standard input.
CatRead(me, left) ==
  [me EXCEPT !.v = [input |-> IF @.path = <<"-">> THEN left ELSE @.input,
                    path |-> @.path, data |-> left]]

\* One block, written in full, or an error of write() after it was read, or of read().
CatCopy(p) ==
  /\ At(p, "cat", "copy")
  /\ LET me == proc[p]
         left == me.v.data
     IN  \/ /\ left = <<>>
            /\ Becomes(p, Goto(CatStatus(me, FALSE), "main")) /\ UNCHANGED out
         \/ /\ left # <<>>
            /\ out' = [out EXCEPT ![p] = Append(@, Head(left))]
            /\ Becomes(p, CatRead(me, Tail(left)))
         \/ /\ left # <<>>
            /\ Becomes(p, Goto(CatStatus(CatRead(me, Tail(left)), TRUE), "main")) /\ UNCHANGED out
         \/ Becomes(p, Goto(CatStatus(me, TRUE), "main")) /\ UNCHANGED out
  /\ UNCHANGED <<fs, before>>

CatStep(p) == CatStart(p) \/ CatMain(p) \/ CatOpen(p) \/ CatCopy(p)

-----------------------------------------------------------------------------
(***************************************************************************)
(* basename and dirname.                                                   *)
(***************************************************************************)
\* s without the slashes, or without the name, at its end.
DropSlashes(s) == SubSeq(s, 1, Max({0} \union {i \in DOMAIN s : s[i] # "/"}))
DropName(s) == SubSeq(s, 1, Max({0} \union {i \in DOMAIN s : s[i] = "/"}))
AllSlashes(s) == s # <<>> /\ DropSlashes(s) = <<>>

Basename(s, suffix) ==
  LET name == SubSeq(DropSlashes(s), Len(DropName(DropSlashes(s))) + 1, Len(DropSlashes(s)))
  IN  IF s = <<>> THEN <<>>
      ELSE IF AllSlashes(s) THEN <<"/">>
      ELSE IF suffix # <<>> /\ Len(suffix) < Len(name) /\ IsSuffix(suffix, name)
      THEN SubSeq(name, 1, Len(name) - Len(suffix))
      ELSE name

\* Mutant: the slashes before the last name stay.
Dirname_KeepsSlashes(s) ==
  LET rest == IF s = <<"/", "/">> THEN s ELSE DropName(DropSlashes(s))
  IN  IF s # <<"/", "/">> /\ AllSlashes(s) THEN <<"/">>
      ELSE IF s # <<"/", "/">> /\ rest = <<>> THEN <<".">>
      ELSE rest

Dirname(s) ==
  LET rest == IF s = <<"/", "/">> THEN s ELSE DropName(DropSlashes(s))
  IN  IF s # <<"/", "/">> /\ AllSlashes(s) THEN <<"/">>
      ELSE IF s # <<"/", "/">> /\ rest = <<>> THEN <<".">>
      ELSE IF DropSlashes(rest) = <<>> THEN <<"/">> ELSE DropSlashes(rest)

\* Each prints its result and exits.
NameStep(p) ==
  \E prog \in {"basename", "dirname"} :
    /\ At(p, prog, "main")
    /\ LET cmd == proc[p].cmd
       IN  out' = [out EXCEPT ![p] = IF prog = "dirname" THEN Dirname(cmd.string)
                                     ELSE Basename(cmd.string, cmd.suffix)]
    /\ Becomes(p, Goto(proc[p], "exited"))
    /\ UNCHANGED <<fs, before>>

-----------------------------------------------------------------------------
(***************************************************************************)
(* Properties.                                                             *)
(***************************************************************************)
\* What cat is to copy, and what is there to copy for the k-th of it.
Inputs(me) == IF me.cmd.operands = <<>> THEN <<<<"-">>>> ELSE me.cmd.operands
Contents(ops, k) ==
  IF ops[k] # <<"-">> THEN before[Stat(before, ops[k])].data
  ELSE IF \E j \in 1 .. k - 1 : ops[j] = <<"-">> THEN <<>> ELSE Stdin

(* After exit status 0 the output of cat is its files, one after the other, *)
(* the standard input where the first "-" stands or if there are no         *)
(* operands, and no error on the way was forgotten (cat.c:25-39, 59-77).    *)
CatOutput ==
  \A p \in DOMAIN proc : LET me == proc[p] IN
    Exited(p, "cat") /\ me.status = 0 /\ Alone(p) =>
      /\ \A op \in Range(Inputs(me)) : op # <<"-">> => Stat(before, op) # None
      /\ out[p] = FlattenSeq([k \in DOMAIN Inputs(me) |-> Contents(Inputs(me), k)])

\* What a path in characters means: from where it starts, by which names.
Names(s) ==
  LET ends == {i \in DOMAIN s : s[i] # "/" /\ (i = Len(s) \/ s[i + 1] = "/")}
      name(i) == LET a == Max({0} \union {j \in 1 .. i : s[j] = "/"}) IN SubSeq(s, a + 1, i)
  IN  SelectSeq([k \in 1 .. Cardinality(ends) |->
                   name(CHOOSE i \in ends : Cardinality({j \in ends : j < i}) = k - 1)],
                LAMBDA n : n # <<".">>)
Absolute(s) == s # <<>> /\ s[1] = "/"

(* dirname and basename take every path apart into a directory and a name   *)
(* that are the same path again; neither ends in a slash unless it is the   *)
(* root, and a suffix never takes all of a name (basename.c:28-58,          *)
(* dirname.c:26-55).                                                        *)
NamesRight ==
  \A p \in DOMAIN proc : LET s == proc[p].cmd.string IN
    /\ Exited(p, "dirname") =>
         LET whole == out[p] \o <<"/">> \o Basename(s, <<>>)
         IN  /\ Names(whole) = Names(s) /\ Absolute(whole) = Absolute(s)
             /\ out[p] # <<"/">> => out[p] # <<>> /\ Last(out[p]) # "/"
    /\ Exited(p, "basename") =>
         /\ out[p] # <<"/">> => \A i \in DOMAIN out[p] : out[p][i] # "/"
         /\ s # <<>> => out[p] # <<>>
         /\ out[p] # Basename(s, <<>>) => out[p] \o proc[p].cmd.suffix = Basename(s, <<>>)
=============================================================================
