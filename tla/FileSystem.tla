----------------------------- MODULE FileSystem -----------------------------
(***************************************************************************)
(* The file system that the user programs call (external: the kernel under *)
(* src/src/kern has none yet).  A file system is a function from inode     *)
(* numbers to inodes.  A path is a sequence of names; it starts at the     *)
(* working directory, or with "/" at the root, and a slash at its end is a *)
(* last name "", so that <<"">> is the empty string.  The caller owns      *)
(* every file and is not the superuser.                                    *)
(***************************************************************************)
EXTENDS Integers, SequencesExt

CONSTANTS
  Root, Cwd,       \* the inodes of the root and of the working directory
  Name,            \* what an entry may be called, "/", ".", ".." and ""
  MaxLinks,        \* BOUND: a lookup fails after so many symlinks (ELOOP)
  None

Rwx == {"ur", "uw", "ux"}
Inode(type, mode, data, ents, to) ==
  [type |-> type, mode |-> mode, data |-> data, ents |-> ents, to |-> to,
   atime |-> "old", mtime |-> "old"]
NoEnts == [n \in {} |-> None]
Directory(mode, ents) == Inode("dir", mode, <<>>, ents, <<>>)
Regular(mode, data) == Inode("reg", mode, data, NoEnts, <<>>)
Link(to) == Inode("lnk", Rwx, <<>>, NoEnts, to)
Fifo(mode) == Inode("fifo", mode, <<>>, NoEnts, <<>>)

Special == {"/", ".", "..", ""}

\* A path without the slashes at its end, and what follows its last slash.
Trimmed(path) == SubSeq(path, 1, Max({1} \union {k \in DOMAIN path : path[k] # ""}))
LastName(path) == IF Last(path) = "/" THEN "" ELSE Last(path)

\* A directory that was removed has no parent.
Up(f, d) == IF \E e \in DOMAIN f : d \in Range(f[e].ents)
            THEN CHOOSE e \in DOMAIN f : d \in Range(f[e].ents)
            ELSE IF d = Root THEN Root ELSE None
Child(f, d, name) ==
  CASE name = "/" -> Root
    [] name \in {".", ""} -> d
    [] name = ".." -> Up(f, d)
    [] name \notin Special ->
         IF name \in DOMAIN f[d].ents THEN f[d].ents[name] ELSE None

\* A lookup is at a directory, with the names that are left and the links that it may
\* still follow, or has failed.  It goes on by one name or by one link, and stays at the
\* last name.
Walk(f) == [at : DOMAIN f, rest : Seq(Name) \ {<<>>}, links : 0 .. MaxLinks]
Searchable(f, walk) ==
  f[walk.at].type = "dir" /\ ("ux" \in f[walk.at].mode \/ Head(walk.rest) = "")
Advance(f, follow) ==
  [walk \in Walk(f) \union {None} |->
    LET i == Child(f, walk.at, Head(walk.rest))
        last == Len(walk.rest) = 1
    IN  IF walk = None \/ ~ Searchable(f, walk) THEN None
        ELSE IF i # None /\ f[i].type = "lnk" /\ (~ last \/ follow)
             THEN IF walk.links = 0 THEN None
                  ELSE [at |-> walk.at, rest |-> f[i].to \o Tail(walk.rest),
                        links |-> walk.links - 1]
        ELSE IF last THEN walk
        ELSE IF i = None THEN None
        ELSE [at |-> i, rest |-> Tail(walk.rest), links |-> walk.links]]

\* A link puts Longest(f) names at most in the place of one.
Longest(f) == Max({Len(f[i].to) : i \in DOMAIN f})

Begin(path) == IF path = <<"">> THEN None ELSE [at |-> Cwd, rest |-> path, links |-> MaxLinks]
Lookup(f, path, follow) ==
  LET after[n \in Nat] == IF n = 0 THEN Begin(path)
                          ELSE Advance(f, follow)[after[n - 1]]
  IN  after[Len(path) + MaxLinks * Longest(f)]

\* The directory that the last name of a path is looked up in, and that name; and what
\* the path names.
Place(f, path, follow) ==
  LET place == [walk \in Walk(f) \union {None} |->
                  IF walk = None THEN None ELSE [dir |-> walk.at, name |-> Head(walk.rest)]]
  IN  place[Lookup(f, path, follow)]
Found(f, path, follow) ==
  LET found == [walk \in Walk(f) \union {None} |->
                  IF walk = None THEN None ELSE Child(f, walk.at, Head(walk.rest))]
  IN  found[Lookup(f, path, follow)]
Stat(f, path) == Found(f, path, TRUE)
Lstat(f, path) == Found(f, path, FALSE)
IsDir(f, i) == i # None /\ f[i].type = "dir"
Writable(f, d) == {"uw", "ux"} \subseteq f[d].mode
Opendir(f, path) == LET i == Stat(f, path) IN IF IsDir(f, i) /\ "ur" \in f[i].mode THEN i ELSE None

\* open() of what exists, for reading and for writing.
OpenRead(f, path) == LET i == Stat(f, path)
                     IN  IF i # None /\ "ur" \in f[i].mode THEN i ELSE None
OpenWrite(f, path) == LET i == Stat(f, path)
                      IN  IF i # None /\ f[i].type # "dir" /\ "uw" \in f[i].mode THEN i ELSE None

\* Removing and adding a name; the calls below fail by leaving f as it is.
Without(f, place) == [f EXCEPT ![place.dir].ents = Restrict(@, DOMAIN @ \ {place.name})]
Fresh(f) == Cardinality(DOMAIN f) + 1
Added(f, place, inode) ==
  [i \in DOMAIN f \union {Fresh(f)} |->
     IF i = Fresh(f) THEN inode
     ELSE IF i = place.dir
          THEN [f[i] EXCEPT !.ents = [n \in DOMAIN @ \union {place.name} |->
                                        IF n = place.name THEN Fresh(f) ELSE @[n]]]
     ELSE f[i]]

CanUnlink(f, path) ==
  /\ Lstat(f, path) # None /\ ~ IsDir(f, Lstat(f, path))
  /\ Writable(f, Place(f, path, FALSE).dir)
Unlink(f, path) == Without(f, Place(f, path, FALSE))

\* rmdir() takes a directory with a slash behind it, but not through a link.
CanRmdir(f, path) ==
  LET place == Place(f, Trimmed(path), FALSE)
      i == Lstat(f, path)
  IN  /\ IsDir(f, i) /\ f[i].ents = NoEnts /\ Lstat(f, Trimmed(path)) = i
      /\ Writable(f, place.dir) /\ place.name \notin Special
Rmdir(f, path) == Without(f, Place(f, Trimmed(path), FALSE))

\* symlink(), mkfifo(), and open() with O_CREAT of what does not exist, which alone
\* follows a dangling link; mkdir(), which takes a path with a slash at its end.
CanMake(f, path, follow) ==
  /\ Place(f, path, follow) # None /\ Found(f, path, follow) = None
  /\ Writable(f, Place(f, path, follow).dir) /\ Place(f, path, follow).name \notin Special
Make(f, path, follow, inode) == Added(f, Place(f, path, follow), inode)
CanMakeDir(f, path) == CanMake(f, Trimmed(path), FALSE)
MakeDir(f, path, mode) == Make(f, Trimmed(path), FALSE, Directory(mode, NoEnts))
Chmod(f, path, mode) == [f EXCEPT ![Stat(f, path)].mode = mode]
=============================================================================
