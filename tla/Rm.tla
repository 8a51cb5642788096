--------------------------------- MODULE Rm ---------------------------------
(***************************************************************************)
(* rm (src/src/bin/rm/rm.c): rm() is called for each operand and, through  *)
(* rmtree(), for each entry of a directory.                                *)
(***************************************************************************)
EXTENDS Utility

CONSTANT PathMax      \* BOUND: PATH_MAX, in names

\* What isdotname() sees is behind the last slash: nothing of "./" and "../".
IsDotName(path) == LastName(path) \in {".", ".."}
IsRoot(f, path) == Stat(f, path) = Root

\* The return from rm(): to the loop of main() or to that of rmtree().
RmReturn(me) == Goto(me, IF me.stack = <<>> THEN "main" ELSE "read")

\* Mutant: -f hides the failure.
Unremoved_ForceHides(me) == RmReturn(IF Has(me, "f") THEN me ELSE Failed(me))

\* unlink() or rmdir() failed.
Unremoved(me) == RmReturn(Failed(me))

RmMain(p) == Operand(p, "rm", Goto(Locals(Taken(p), Current(p)), "rm"))

\* Where the process calls access(), and where it waits for the answer.
Access == [opendir |-> "access_opendir", unlink |-> "access_unlink"]
Question == [opendir |-> "ask_opendir", unlink |-> "ask_unlink", rmdir |-> "ask_rmdir"]

\* Mutant: looks through a link.
FileNamed_Followed(f, path) == Stat(f, path)

\* rm() looks at the link itself.
FileNamed(f, path) == Lstat(f, path)

\* isdotname(), and the realpath() of isroot().
RmEnter(p) ==
  /\ At(p, "rm", "rm")
  /\ LET me == proc[p]
     IN  Becomes(p, IF IsDotName(me.v) \/ IsRoot(fs, me.v) THEN RmReturn(Failed(me))
                    ELSE Goto(me, "lstat"))
  /\ Silently

\* What lstat() gives; a directory without -R is refused after access(), which changes
\* nothing.
RmLstat(p) ==
  /\ At(p, "rm", "lstat")
  /\ LET me == proc[p]
         i == FileNamed(fs, me.v)
         inner == IF IsDir(fs, i) THEN "opendir" ELSE "unlink"
     IN  Becomes(p,
           IF i = None THEN RmReturn(IF Has(me, "f") THEN me ELSE Failed(me))
           ELSE IF IsDir(fs, i) /\ ~ Has(me, "R") THEN RmReturn(Failed(me))
           ELSE Goto(me, IF Has(me, "f") THEN inner ELSE Access[inner]))
  /\ Silently

\* Without -f: confirm() is asked if -i is given, or if the file, through links, cannot
\* be written and the standard input is a terminal.
RmAccess(p) ==
  /\ \E inner \in DOMAIN Access :
       /\ At(p, "rm", Access[inner])
       /\ LET me == proc[p]
              i == Stat(fs, me.v)
              ask == Has(me, "i") \/ (Has(me, "tty") /\ (i = None \/ "uw" \notin fs[i].mode))
          IN  Becomes(p, Goto(me, IF ask THEN Question[inner] ELSE inner))
  /\ Silently

Confirm(p) ==
  /\ \E then \in {"opendir", "unlink", "rmdir"}, yes \in BOOLEAN :
       /\ At(p, "rm", Question[then])
       /\ Becomes(p, IF yes THEN Goto(proc[p], then)
                     ELSE RmReturn([proc[p] EXCEPT !.cut = @ \union {"no"}]))
  /\ Silently

\* After rmtree(), whether or not the directory could be read.
RmTreeDone(me) == Goto(me, IF Has(me, "i") THEN Question["rmdir"] ELSE "rmdir")

RmOpendir(p) ==
  /\ At(p, "rm", "opendir")
  /\ LET me == proc[p]
         d == Opendir(fs, me.v)
     IN  Becomes(p,
           IF d = None THEN RmTreeDone(Failed(me))
           ELSE Goto([me EXCEPT !.stack = Append(@, [path |-> me.v, left |-> DOMAIN fs[d].ents])],
                     "read"))
  /\ Silently

\* readdir() gives the names that were there at opendir(), in any order; an error of it
\* looks like the end.
RmRead(p) ==
  /\ At(p, "rm", "read")
  /\ LET me == proc[p]
         n == Len(me.stack)
         top == me.stack[n]
         popped == RmTreeDone(Locals([me EXCEPT !.stack = Front(@)], top.path))
     IN  \/ top.left = {} /\ Becomes(p, popped)
         \/ top.left # {} /\ Becomes(p, [popped EXCEPT !.cut = @ \union {"readdir"}])
         \/ \E name \in top.left :
              LET rest == [me EXCEPT !.stack[n].left = @ \ {name}]
              IN  Becomes(p, IF Len(top.path) >= PathMax THEN Failed(rest)
                             ELSE Goto(Locals(rest, Append(top.path, name)), "rm"))
  /\ Silently

RmUnlink(p) ==
  /\ At(p, "rm", "unlink")
  /\ LET ok == CanUnlink(fs, proc[p].v)
     IN  /\ fs' = IF ok THEN Unlink(fs, proc[p].v) ELSE fs
         /\ Becomes(p, IF ok THEN RmReturn(proc[p]) ELSE Unremoved(proc[p]))
  /\ NoOutput

RmRmdir(p) ==
  /\ At(p, "rm", "rmdir")
  /\ LET ok == CanRmdir(fs, proc[p].v)
     IN  /\ fs' = IF ok THEN Rmdir(fs, proc[p].v) ELSE fs
         /\ Becomes(p, IF ok THEN RmReturn(proc[p]) ELSE Unremoved(proc[p]))
  /\ NoOutput

RmStep(p) ==
  \/ RmMain(p) \/ RmEnter(p) \/ RmLstat(p) \/ RmAccess(p) \/ Confirm(p) \/ RmOpendir(p)
  \/ RmRead(p) \/ RmUnlink(p) \/ RmRmdir(p)

-----------------------------------------------------------------------------
(***************************************************************************)
(* Properties.                                                             *)
(***************************************************************************)
\* The inodes below one, itself included; links are not followed.
Below(f, i) ==
  LET within[n \in Nat] ==      \* as deep as n
        IF n = 0 THEN {i} ELSE {i} \union UNION {Range(f[j].ents) : j \in within[n - 1]}
  IN  within[Cardinality(DOMAIN f)]

\* Why an inode can be left, with the operand that leads to it: a directory below it has
\* entries and cannot be read, searched or written, or its entries have too long a path;
\* or, with nothing below it, its own directory cannot be written, or rmdir() does not
\* take the path, which ends in "./" or goes through a link by the slash at its end.
Jammed(f, i) ==
  \E j \in Below(f, i) : f[j].type = "dir" /\ f[j].ents # NoEnts /\ ~ (Rwx \subseteq f[j].mode)
TooDeep(f, op, i) ==
  LET level[n \in Nat] == IF n = 0 THEN {i} ELSE UNION {Range(f[j].ents) : j \in level[n - 1]}
  IN  \E n \in 0 .. Cardinality(DOMAIN f) : /\ Len(op) + n >= PathMax
                                           /\ \E j \in level[n] : f[j].ents # NoEnts
Nameless(f, op) ==
  \/ ~ Writable(f, Place(f, Trimmed(op), FALSE).dir)
  \/ Place(f, Trimmed(op), FALSE).name \in Special \/ Lstat(f, Trimmed(op)) # Lstat(f, op)
Leaves(f, op, i) == IF f[i].ents # NoEnts THEN Jammed(f, i) \/ TooDeep(f, op, i) ELSE Nameless(f, op)

\* The tree as one who may search every directory sees it.
Opened(f) == [i \in DOMAIN f |-> [f[i] EXCEPT !.mode = @ \union {"ux"}]]

Operands(p) == {op \in Range(proc[p].cmd.operands) : ~ IsDotName(op) /\ ~ IsRoot(before, op)}

(* When rm exits with nothing refused and nobody but rm at work, the exit   *)
(* status is 1 if an operand is still there, or was never to be found; -f   *)
(* passes in silence over what it cannot find, which may be there all the   *)
(* same behind a directory that it cannot search.  Unless a readdir() was   *)
(* cut short, what is left is what could not be removed: an error does not  *)
(* keep rm from going on (rm.c:69-80, 96-131, 164-167).                     *)
RmComplete ==
  \A p \in DOMAIN proc : LET me == proc[p] IN
    /\ Exited(p, "rm") /\ "no" \notin me.cut
    /\ \A q \in DOMAIN proc : proc[q].cmd.prog \in {"rm", "idle"}
    => \A op \in Operands(p) :
         LET i == Lstat(Opened(fs), op)
         IN  /\ Lstat(before, op) = None /\ ~ Has(me, "f") => me.status = 1
             /\ i # None => me.status = 1 \/ (Has(me, "f") /\ Lstat(fs, op) = None)
             /\ Lstat(fs, op) # None /\ me.cut = {} /\ (Has(me, "R") \/ ~ IsDir(fs, i)) =>
                  Leaves(fs, op, i)

(* rm removes nothing but its operands and what is below them: not what a   *)
(* symlink points to, and for an operand that isdotname() sees to end in    *)
(* "." or "..", or that is the root, nothing at all; "./" and "../" are     *)
(* operands like any other (rm.c:34-51, 89-94, 96).                         *)
RmKeeps ==
  \A p \in DOMAIN proc : proc[p].cmd.prog = "rm" /\ Alone(p) =>
    LET given == UNION {Below(before, Lstat(before, op)) :
                          op \in {op \in Range(proc[p].cmd.operands) :
                                   ~ IsDotName(op) /\ Lstat(before, op) \notin {None, Root}}}
    IN  \A d \in DOMAIN before, n \in UNION {DOMAIN before[e].ents : e \in DOMAIN before} :
          n \in DOMAIN before[d].ents /\ before[d].ents[n] \notin given
            => n \in DOMAIN fs[d].ents
=============================================================================
