-------------------------------- MODULE Files --------------------------------
(***************************************************************************)
(* The user programs on one file system: any of the commands alone, or two *)
(* of them at the same time, their system calls in any order.              *)
(***************************************************************************)
EXTENDS Rm, Cp, Touch, CatNames

CONSTANTS
  Proc,
  Trees,        \* the file systems to start with
  Sessions      \* BOUND: the commands the processes run, as functions from Proc

\* A tree as a file system holds it: it starts at a directory, a name leads to an inode,
\* a link is not empty, and a directory has one parent at most, the root none.
Tree(f) ==
  /\ f \in Seq(Range(f)) /\ {Root, Cwd} \subseteq DOMAIN f /\ f[Root].type = "dir"
  /\ \A i \in DOMAIN f : LET inode == f[i] IN
       /\ inode = [type |-> inode.type, mode |-> inode.mode, data |-> inode.data,
                   ents |-> inode.ents, to |-> inode.to, atime |-> inode.atime, mtime |-> inode.mtime]
       /\ inode.ents \in [DOMAIN inode.ents -> DOMAIN f] /\ DOMAIN inode.ents \subseteq Name \ Special
       /\ inode.to \in Seq(Name) /\ (inode.type = "lnk" => inode.to # <<>>)
       /\ inode.data \in Seq(Range(inode.data))
  /\ \A d, e \in DOMAIN f : \A i \in Range(f[d].ents) \intersect Range(f[e].ents) :
       f[i].type = "dir" => d = e
  /\ \A d \in DOMAIN f : Root \notin Range(f[d].ents)

Paths == Seq(Name) \ {<<>>}
\* What cat copies: the blocks of the standard input and of the files.
Blocks == Range(Stdin) \union UNION {UNION {Range(f[i].data) : i \in DOMAIN f} : f \in Trees}
ASSUME FilesAssumption ==
  /\ MaxLinks \in Nat /\ None \notin Nat /\ "-" \in Name
  /\ None \notin [at : Nat, rest : Paths, links : Nat]
  /\ None \notin [input : Seq(Blocks), path : Seq(Name), data : Seq(Blocks)]
  /\ \A f \in Trees : Tree(f)
  /\ Stdin \in Seq(Range(Stdin))
  /\ \A s \in Sessions : DOMAIN s = Proc /\ \A p \in Proc : s[p].operands \in Seq(Paths)

Init ==
  /\ fs \in Trees /\ before = fs
  /\ \E s \in Sessions : proc = [p \in Proc |-> Start(s[p])]
  /\ out = [p \in Proc |-> <<>>]

Step(p) == RmStep(p) \/ CpStep(p) \/ MkdirStep(p) \/ TouchStep(p) \/ CatStep(p) \/ NameStep(p)

Next == \E p \in Proc : Step(p)

\* A process that can go on does.
Spec == Init /\ [][Next]_vars /\ \A p \in Proc : WF_vars(Step(p))

-----------------------------------------------------------------------------
(* The mode of mkdir -m and the time of touch -t and -d are what the        *)
(* argument means, an argument that means nothing is refused, and so is a   *)
(* command without operands (mkdir.c:32-123, 225-226, touch.c:35-189,       *)
(* 226-227, rm.c:161-162).                                                  *)
ArgumentsRight ==
  \A p \in Proc : LET cmd == proc[p].cmd IN
    /\ At(p, "mkdir", "main") /\ cmd.modearg # None => ParseMode(cmd.modearg) = cmd.means
    /\ At(p, "touch", "main") /\ cmd.options \cap {"t", "d"} # {} => ParseTime(cmd) = cmd.means
    /\ \A prog \in {"rm", "mkdir", "touch"} : Exited(p, prog) /\ cmd.operands = <<>> =>
         proc[p].status = 1

(* Every program exits, also when the other one changes the tree that it    *)
(* walks or makes the same path: no entry is taken twice, a chain of links  *)
(* ends a walk, and a name that is already there does not stop mkdir -p     *)
(* from coming to the next (rm.c:69-79, cp.c:271-279, mkdir.c:178-199).     *)
(* A cp -R of a directory into itself does not, and is in no session.       *)
Terminates == <>(\A p \in Proc : proc[p].pc = "exited")
=============================================================================
