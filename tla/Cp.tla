--------------------------------- MODULE Cp ---------------------------------
(***************************************************************************)
(* cp (src/src/bin/cp/cp.c).  copy_source() is called for each operand and *)
(* for each entry of a directory; the locals of a call are the paths src   *)
(* and dest, its depth, the inode sst that stat() found, and whether dest  *)
(* existed.                                                                *)
(***************************************************************************)
EXTENDS Utility

\* follow()
Follows(me, depth) ==
  IF Has(me, "L") THEN TRUE
  ELSE IF Has(me, "H") THEN depth = 0
  ELSE ~ Has(me, "P") /\ ~ Has(me, "R")


SameFile(f, a, b) == Stat(f, a) # None /\ Stat(f, a) = Stat(f, b)

Source(src, dest, depth) == [src |-> src, dest |-> dest, depth |-> depth]
CpReturn(me) == Goto(me, IF me.stack = <<>> THEN "main" ELSE "readdir")
CpFailed(me) == CpReturn(Failed(me))

\* main(): whether the target is a directory is looked up once.
CpTarget(p) ==
  /\ At(p, "cp", "main") /\ proc[p].v = None
  /\ LET me == proc[p]
         dir == IsDir(fs, Stat(fs, me.cmd.target))
     IN  Becomes(p, IF Len(me.cmd.operands) > 1 /\ ~ dir THEN Goto(Failed(me), "exited")
                    ELSE Locals(me, [dir |-> dir]))
  /\ Silently

\* The target and, if it is a directory, what is behind the last slash of the operand: for
\* "d/" and for "/" that is nothing, and the target itself is meant.
DestName(me, src) == IF me.v.dir THEN Append(me.cmd.target, LastName(src)) ELSE me.cmd.target

CpMain(p) ==
  /\ proc[p].v # None
  /\ LET me == Taken(p)
     IN  Operand(p, "cp", Goto(Locals(me,
           [dir |-> me.v.dir, call |-> Source(Current(p), DestName(me, Current(p)), 0)]), "source"))

\* The call that is running, with what it has found out.
Call(me) == me.v.call
Calls(me, call) == [me EXCEPT !.v.call = call]

CopySource(p) ==
  /\ At(p, "cp", "source")
  /\ LET me == proc[p]
         c == Call(me)
         i == IF Follows(me, c.depth) THEN Stat(fs, c.src) ELSE Lstat(fs, c.src)
     IN  Becomes(p, IF i = None THEN CpFailed(me)
                    ELSE Goto(Calls(me, c @@ [ino |-> i, sst |-> fs[i]]), "dest"))
  /\ Silently

\* Where copy_source() goes on, by the type of the source.
Handler(me, type) ==
  CASE type = "dir" -> IF Has(me, "R") THEN "dir" ELSE "refuse"
    [] type = "reg" -> "regular"
    [] type = "lnk" -> IF Has(me, "R") THEN "symlink" ELSE "refuse"
    [] type = "fifo" -> IF Has(me, "R") THEN "special" ELSE "refuse"

CopySourceDest(p) ==
  /\ At(p, "cp", "dest")
  /\ LET me == proc[p]
         c == Call(me)
         exists == Lstat(fs, c.dest) # None
         then == Handler(me, c.sst.type)
     IN  Becomes(p,
           IF (exists /\ SameFile(fs, c.src, c.dest)) \/ then = "refuse" THEN CpFailed(me)
           ELSE Goto(Calls(me, c @@ [exists |-> exists]), then))
  /\ Silently

-----------------------------------------------------------------------------
(***************************************************************************)
(* copy_regular(): confirm, open both, copy block by block.  A read or a   *)
(* write may fail at any block.                                            *)
(***************************************************************************)
CopyRegular(p) ==
  /\ At(p, "cp", "regular")
  /\ LET me == proc[p]
         c == Call(me)
         i == OpenRead(fs, c.src)
         opened == IF i = None THEN CpFailed(me)
                   ELSE Goto(Calls(me, c @@ [sfd |-> i]), "open")
     IN  IF c.exists /\ Has(me, "i")
         THEN \/ Becomes(p, CpReturn([me EXCEPT !.cut = @ \union {"no"}]))
              \/ Becomes(p, opened)
         ELSE Becomes(p, opened)
  /\ Silently

\* open() with O_CREAT; what exists by now is not truncated.
OpenCreat(p, me, mode) ==
  LET c == Call(me)
      i == OpenWrite(fs, c.dest)
  IN  IF i # None
      THEN Becomes(p, Goto(Calls(me, c @@ [dfd |-> i, done |-> 0]), "copy")) /\ UNCHANGED fs
      ELSE IF CanMake(fs, c.dest, TRUE)
      THEN /\ fs' = Make(fs, c.dest, TRUE, Regular(mode \ me.cmd.umask, <<>>))
           /\ Becomes(p, Goto(Calls(me, c @@ [dfd |-> Fresh(fs), done |-> 0]), "copy"))
      ELSE Becomes(p, CpFailed(me)) /\ UNCHANGED fs

\* O_TRUNC
OpenTrunc(f, i) == [f EXCEPT ![i].data = <<>>]

OpenDest(p) ==
  /\ At(p, "cp", "open")
  /\ LET me == proc[p]
         c == Call(me)
         i == OpenWrite(fs, c.dest)
     IN  IF ~ c.exists THEN OpenCreat(p, me, c.sst.mode)
         ELSE IF i # None
         THEN /\ fs' = OpenTrunc(fs, i)
              /\ Becomes(p, Goto(Calls(me, c @@ [dfd |-> i, done |-> 0]), "copy"))
         ELSE IF Has(me, "f") /\ CanUnlink(fs, c.dest)
         THEN fs' = Unlink(fs, c.dest) /\ Becomes(p, Goto(me, "reopen"))
         ELSE Becomes(p, CpFailed(me)) /\ UNCHANGED fs
  /\ NoOutput

\* With -f: a new file in the place of the one that could not be opened.
ReopenDest(p) ==
  /\ At(p, "cp", "reopen")
  /\ OpenCreat(p, proc[p], Call(proc[p]).sst.mode)
  /\ NoOutput

Preserves(me) == IF Has(me, "p") THEN Goto(me, "preserve") ELSE CpReturn(me)

\* write() at an offset.
Overwritten(data, k, block) ==
  [i \in 1 .. (IF k > Len(data) THEN k ELSE Len(data)) |->
     IF i = k THEN block ELSE IF i <= Len(data) THEN data[i] ELSE "hole"]

CopyBlock(p) ==
  /\ At(p, "cp", "copy")
  /\ LET me == proc[p]
         c == Call(me)
         k == c.done + 1
     IN  \/ /\ k > Len(fs[c.sfd].data)
            /\ Becomes(p, Preserves(me)) /\ UNCHANGED fs
         \/ /\ k <= Len(fs[c.sfd].data)
            /\ fs' = [fs EXCEPT ![c.dfd].data = Overwritten(@, k, fs[c.sfd].data[k])]
            /\ Becomes(p, Calls(me, [c EXCEPT !.done = k]))
         \/ /\ Becomes(p, Preserves(Failed(me))) /\ UNCHANGED fs        \* read() fails
         \/ /\ k <= Len(fs[c.sfd].data)                                 \* write() fails
            /\ Becomes(p, CpFailed(me)) /\ UNCHANGED fs
  /\ NoOutput

\* preserve(): an error is printed and does not count; times and mode are those of sst.
\* chown() gives the file to its owner.
PreserveTimes(p) ==
  /\ At(p, "cp", "preserve")
  /\ LET c == Call(proc[p])
         i == Stat(fs, c.dest)
     IN  fs' = IF i = None THEN fs
               ELSE [fs EXCEPT ![i].atime = c.sst.atime, ![i].mtime = c.sst.mtime]
  /\ Becomes(p, Goto(proc[p], "preserve_mode"))
  /\ NoOutput

PreserveMode(p) ==
  /\ At(p, "cp", "preserve_mode")
  /\ LET c == Call(proc[p])
     IN  fs' = IF Stat(fs, c.dest) = None THEN fs ELSE Chmod(fs, c.dest, c.sst.mode)
  /\ Becomes(p, CpReturn(proc[p]))
  /\ NoOutput

-----------------------------------------------------------------------------
(***************************************************************************)
(* copy_symlink(), after readlink(), and copy_special(): what exists is     *)
(* unlinked first.                                                         *)
(***************************************************************************)
Making == [symlink |-> "make_symlink", special |-> "make_special"]
UnlinkDest(p) ==
  /\ \E type \in {"symlink", "special"} :
       /\ At(p, "cp", type)
       /\ LET me == proc[p]
              c == Call(me)
              i == Lstat(fs, c.src)
              unread == type = "symlink" /\ (i = None \/ fs[i].type # "lnk")
          IN  IF unread \/ (c.exists /\ ~ CanUnlink(fs, c.dest))
              THEN Becomes(p, CpFailed(me)) /\ UNCHANGED fs
              ELSE /\ fs' = IF c.exists THEN Unlink(fs, c.dest) ELSE fs
                   /\ Becomes(p, Goto(IF type = "symlink" THEN Calls(me, c @@ [to |-> fs[i].to])
                                      ELSE me, Making[type]))
  /\ NoOutput

MakeNode(p) ==
  /\ \E type \in {"symlink", "special"} :
       /\ At(p, "cp", Making[type])
       /\ LET me == proc[p]
              c == Call(me)
              made == IF type = "symlink" THEN Link(c.to) ELSE Fifo(c.sst.mode \ me.cmd.umask)
          IN  IF ~ CanMake(fs, c.dest, FALSE) THEN Becomes(p, CpFailed(me)) /\ UNCHANGED fs
              ELSE /\ fs' = Make(fs, c.dest, FALSE, made)
                   /\ Becomes(p, IF type = "special" THEN Preserves(me) ELSE CpReturn(me))
  /\ NoOutput

-----------------------------------------------------------------------------
(***************************************************************************)
(* copy_dir()                                                              *)
(***************************************************************************)
CopyDir(p) ==
  /\ At(p, "cp", "dir")
  /\ LET me == proc[p]
         c == Call(me)
         on == Goto(Calls(me, c @@ [created |-> ~ c.exists]), "opendir")
     IN  IF c.exists
         THEN /\ Becomes(p, IF IsDir(fs, Stat(fs, c.dest)) THEN on ELSE CpFailed(me))
              /\ UNCHANGED fs
         ELSE IF CanMakeDir(fs, c.dest)
         THEN /\ fs' = MakeDir(fs, c.dest, (c.sst.mode \union Rwx) \ me.cmd.umask)
              /\ Becomes(p, on)
         ELSE Becomes(p, CpFailed(me)) /\ UNCHANGED fs
  /\ NoOutput

CpOpendir(p) ==
  /\ At(p, "cp", "opendir")
  /\ LET me == proc[p]
         d == Opendir(fs, Call(me).src)
     IN  Becomes(p,
           IF d = None THEN CpFailed(me)
           ELSE Goto([me EXCEPT !.stack = Append(@, Call(me) @@ [left |-> DOMAIN fs[d].ents])],
                     "readdir"))
  /\ Silently

\* The mode of a directory is set when everything is in it; an error of readdir() looks
\* like the end.
CpReaddir(p) ==
  /\ At(p, "cp", "readdir")
  /\ LET me == proc[p]
         n == Len(me.stack)
         top == me.stack[n]
         popped == Calls([me EXCEPT !.stack = Front(@)], top)
         ended == IF ~ top.created THEN CpReturn(popped)
                  ELSE Goto(popped, IF Has(me, "p") THEN "preserve" ELSE "chmod")
     IN  \/ \E name \in top.left :
              Becomes(p, Goto(Calls([me EXCEPT !.stack[n].left = @ \ {name}],
                                    Source(Append(top.src, name), Append(top.dest, name), 1)),
                              "source"))
         \/ top.left = {} /\ Becomes(p, ended)
         \/ top.left # {} /\ Becomes(p, [ended EXCEPT !.cut = @ \union {"readdir"}])
  /\ Silently

CpChmod(p) ==
  /\ At(p, "cp", "chmod")
  /\ LET me == proc[p]
         c == Call(me)
     IN  /\ fs' = IF Stat(fs, c.dest) = None THEN fs
                  ELSE Chmod(fs, c.dest, c.sst.mode \ me.cmd.umask)
         /\ Becomes(p, CpReturn(me))
  /\ NoOutput

CpStep(p) ==
  \/ CpTarget(p) \/ CpMain(p) \/ CopySource(p) \/ CopySourceDest(p) \/ CopyRegular(p)
  \/ OpenDest(p) \/ ReopenDest(p) \/ CopyBlock(p) \/ PreserveTimes(p) \/ PreserveMode(p)
  \/ UnlinkDest(p) \/ MakeNode(p) \/ CopyDir(p) \/ CpOpendir(p) \/ CpReaddir(p) \/ CpChmod(p)

-----------------------------------------------------------------------------
(***************************************************************************)
(* Properties.                                                             *)
(***************************************************************************)
\* What path b names now is a copy of what path a named at the start, and what is below
\* b, by a tail of names, of what is below a.
CopyOf(me, a, b) ==
  LET copied[tail \in Seq(STRING)] ==
        LET i == IF Follows(me, Len(tail)) THEN Stat(before, a \o tail) ELSE Lstat(before, a \o tail)
            j == IF before[i].type = "lnk" THEN Lstat(fs, b \o tail) ELSE Stat(fs, b \o tail)
        IN  /\ j # None /\ fs[j].type = before[i].type
            /\ fs[j].data = before[i].data /\ fs[j].to = before[i].to
            /\ \A n \in DOMAIN before[i].ents : copied[Append(tail, n)]
            /\ Has(me, "p") /\ before[i].type = "reg" =>
                 fs[j].mode = before[i].mode /\ fs[j].mtime = before[i].mtime
  IN  copied[<<>>]

=============================================================================
