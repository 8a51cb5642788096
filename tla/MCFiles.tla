------------------------------- MODULE MCFiles -------------------------------
(***************************************************************************)
(* Two processes on a tree with a file, a directory, links, a fifo and     *)
(* things that must not be written or read; one process alone with each    *)
(* command, and pairs of commands that get in each other's way.            *)
(***************************************************************************)
EXTENDS Files
CONSTANTS p1, p2
MCProc == {p1, p2}
MCName == STRING

Rw == {"ur", "uw"}
MCTree ==
  <<Directory(Rwx, [w |-> 2]),
    Directory(Rwx, [d |-> 3, f |-> 6, g |-> 7, l |-> 8, ro |-> 9, q |-> 11, n |-> 12, dd |-> 14, u |-> 17]),
    Directory(Rwx, [x |-> 4, s |-> 5, m |-> 13]),
    Regular(Rw, <<"x">>),
    Directory({"ur", "ux"}, NoEnts),
    Regular(Rw \union {"gr"}, <<"f1", "f2">>),
    Regular(Rw, <<"g1", "g2", "g3">>),
    Link(<<"d">>),
    Directory({"ur", "ux"}, [z |-> 10]),
    Regular(Rw, <<"z">>),
    Fifo(Rw),
    Regular({"ur"}, <<"n">>),
    Link(<<"..", "f">>),
    Directory(Rwx, [x |-> 15, s |-> 16]),
    Regular(Rw, <<"y">>),
    Link(<<".">>),
    Directory({"ur", "uw"}, [k |-> 18]),
    Regular(Rw, <<"k">>)>>
MCTrees == {MCTree}
MCStdin == <<"i1", "i2">>

Command(prog, options, operands) ==
  [prog |-> prog, options |-> options, operands |-> operands, umask |-> {"gw", "ow"}]
Idle == Command("idle", {}, <<>>)

MCRm ==
  {Command("rm", o, a) :
     o \in {{}, {"R"}, {"R", "f"}, {"R", "i"}, {"R", "tty"}},
     a \in {<<<<"d">>, <<"f">>>>, <<<<"l">>, <<"ro">>, <<"n">>>>, <<<<"none">>, <<"dd">>>>,
            <<<<"d", ".">>, <<"/">>, <<"g">>>>, <<<<"..">>, <<"..", "..">>, <<"q">>>>,
            <<<<"..", "w", ".", ".", "dd">>, <<"l", "">>>>, <<<<"u", "k">>, <<"dd", "">>>>, <<<<"f", "">>, <<"u">>, <<"ro", "z">>>>}}
  \union {Command("rm", {"R", "f"}, <<a>>) : a \in {<<"dd", ".", "">>, <<"d", "s", "..", "">>}}
  \union {Command("rm", {}, <<>>)}

Copy(options, operands, target) == Command("cp", options, operands) @@ [target |-> target]
MCCp ==
  ({Copy(o, a, b) :
     o \in {{}, {"f", "p"}, {"i"}}, a \in {<<<<"f">>>>, <<<<"d", "m">>>>, <<<<"q">>>>, <<<<"l">>>>},
     b \in {<<"new">>, <<"g">>, <<"d">>, <<"n">>, <<"f">>, <<"ro", "new">>}}
  \union {Copy(o, a, b) :
     o \in {{"R"}, {"R", "p"}, {"R", "L"}, {"R", "H"}, {"R", "P", "f"}},
     a \in {<<<<"d">>>>, <<<<"l">>, <<"q">>>>, <<<<"dd">>>>, <<<<"d", "">>>>}, b \in {<<"new">>, <<"dd">>, <<"q">>}})
  \ {Copy(o, <<<<"dd">>>>, <<"dd">>) : o \in SUBSET {"R", "L", "H", "P", "p", "f"}}

Make_(options, operands, umask, modearg, means) ==
  [Command("mkdir", options, operands) EXCEPT !.umask = umask]
    @@ [modearg |-> modearg, means |-> means]
\* A clause in its parts, its text, and what chmod says of each bit of a mode: the last
\* operation that names it, or that is a "=" for its class, decides.
Classes == {"u", "g", "o"}
ClassOf(bit) == CASE bit \in {"ur", "uw", "ux", "us"} -> "u"
                  [] bit \in {"gr", "gw", "gx", "gs"} -> "g"
                  [] bit \in {"or", "ow", "ox", "t"} -> "o"
NamedBy(bit, who, perms) ==
  \/ bit = "t" /\ "t" \in perms
  \/ \E w \in who, c \in perms : bit = w \o (IF c = "X" THEN "x" ELSE c)
Meant(who, ops) ==
  {bit \in Range(Bits) :
     LET touching == {k \in DOMAIN ops : NamedBy(bit, who, Range(ops[k][2])) \/
                                         (ops[k][1] = "=" /\ ClassOf(bit) \in who)}
     IN  IF touching = {} THEN bit \in AllRwx
         ELSE LET k == Max(touching)
              IN  ops[k][1] # "-" /\ NamedBy(bit, who, Range(ops[k][2]))}
MCModes ==
  {Make_({}, <<<<"a">>>>, {"gw", "ow"},
         who[1] \o FlattenSeq([k \in DOMAIN ops |-> <<ops[k][1]>> \o ops[k][2]]),
         Meant(who[2], ops)) :
     who \in {<<<<>>, Classes>>, <<<<"g", "o">>, {"g", "o"}>>},
     ops \in [1 .. 2 -> {"+", "-", "="} \X {<<"X">>, <<"r", "s">>, <<"t", "w">>}]}
  \union {Make_({}, <<<<"a">>>>, {}, m[1], m[2]) :
     m \in {<<<<"7", "5", "0">>, Rwx \union {"gr", "gx"}>>, <<<<"1", "7", "7", "7", "7">>, BadMode>>,
            <<<<>>, AllRwx>>, <<<<"4", "7", "7", "7">>, AllRwx \union {"us"}>>, <<<<"8">>, BadMode>>,
            <<<<"u", "r">>, BadMode>>, <<<<"u", "+", "q">>, BadMode>>, <<<<"6", "x">>, BadMode>>,
            <<<<"u", "-", "w", ",", ",", "o", "=">>, {"ur", "ux", "gr", "gw", "gx"}>>}}
MCMkdir ==
  {Make_(o, a, u, m, IF m = None THEN AllRwx ELSE Rwx) :
     o \in {{}, {"p"}}, u \in {{"gw", "ow"}, {"uw", "ux", "gw"}},
     a \in {<<<<"a", "b">>, <<"a", "c">>>>, <<<<"d", "a">>, <<"d">>>>, <<<<"f", "a">>, <<".", "b">>>>,
            <<<<"/", "w", "b">>, <<"ro", "b">>>>, <<<<"a", "b", "">>, <<"">>, <<"d", "">>>>, <<>>},
     m \in {None, <<"7", "0", "0">>}}
  \union {Make_({}, <<<<"a">>>>, {"gw", "ow"}, <<>>, AllRwx)}

Touches(options, operands, timearg, means) ==
  Command("touch", options, operands) @@ [ref |-> <<"g">>, timearg |-> timearg, means |-> means]
MCTouch ==
  {Touches(o, a, <<>>, BadTime) :
     o \in {{}, {"a"}, {"m"}, {"c"}, {"a", "m"}, {"m", "r"}, {"a", "c"}},
     a \in {<<<<"f">>, <<"new">>>>, <<<<"ro", "new">>, <<"l">>>>, <<<<"n">>, <<"d">>>>, <<>>}}

\* Times as fields, their texts, and texts with one character spoiled.
Pair(k) == <<Digit[k \div 10 + 1], Digit[(k % 10) + 1]>>
Fields == {[year |-> y, mon |-> v[1], day |-> v[2], hh |-> v[3], mm |-> v[4], ss |-> v[5],
            nsec |-> 0, utc |-> FALSE] :
             y \in {1969, 2068, 2000}, v \in {<<1, 31, 23, 59, 60>>, <<12, 1, 0, 0, 0>>, <<13, 1, 1, 1, 1>>,
                                   <<0, 1, 1, 1, 1>>, <<2, 32, 1, 1, 1>>, <<2, 0, 1, 1, 1>>,
                                   <<2, 29, 24, 1, 1>>, <<2, 29, 1, 60, 1>>, <<2, 29, 1, 1, 61>>,
                                   <<12, 31, 23, 59, 59>>}}
Valid(t) == /\ t.mon >= 1 /\ t.mon < 13 /\ t.day > 0 /\ t.day < 32
            /\ t.hh < 24 /\ t.mm < 60 /\ t.ss < 61
            /\ ~ (t.year < 1970 /\ t.mon * t.day = 372 /\ t.hh = 23 /\ t.mm = 59 /\ t.ss = 59)
TextT(t, cc, ss) ==
  (IF cc = 0 THEN <<>> ELSE IF cc = 1 THEN Pair(t.year % 100)
   ELSE Pair(t.year \div 100) \o Pair(t.year % 100))
  \o Pair(t.mon) \o Pair(t.day) \o Pair(t.hh) \o Pair(t.mm) \o (IF ss THEN <<".">> \o Pair(t.ss) ELSE <<>>)
TextD(t, sep, frac, utc) ==
  Pair(t.year \div 100) \o Pair(t.year % 100) \o <<"-">> \o Pair(t.mon) \o <<"-">> \o Pair(t.day)
  \o <<sep>> \o Pair(t.hh) \o <<":">> \o Pair(t.mm) \o <<":">> \o Pair(t.ss) \o frac
  \o (IF utc THEN <<"Z">> ELSE <<>>)
TimeOf(option, text, t) ==
  Touches({option}, <<<<"f">>>>, text, IF Valid(t) THEN t ELSE BadTime)
MCTimes ==
  {TimeOf("t", TextT(t, cc, ss), [t EXCEPT !.ss = IF ss THEN @ ELSE 0, !.year = IF cc = 0 THEN 2025 ELSE @]) :
     t \in Fields, cc \in 0 .. 2, ss \in BOOLEAN}
  \union {TimeOf("d", TextD(t, sep, frac[1], utc), [t EXCEPT !.nsec = frac[2], !.utc = utc]) :
     t \in Fields, sep \in {"T", " "}, utc \in BOOLEAN,
     frac \in {<<<<>>, 0>>, <<<<".", "5">>, 500000000>>,
               <<<<",">> \o [k \in 1 .. 10 |-> "1"], 111111111>>}}
  \union {Touches({o}, <<<<"f">>>>, [text EXCEPT ![k] = "x"], BadTime) :
     o \in {"t", "d"}, k \in 1 .. 10,
     text \in {TextT(t, 2, TRUE) : t \in {CHOOSE u \in Fields : Valid(u)}}}
  \union {Touches({"d"}, <<<<"f">>>>, [TextD(CHOOSE u \in Fields : Valid(u), "T", <<".", "5">>, TRUE)
                                        EXCEPT ![k] = "x"], BadTime) : k \in 1 .. 22}

MCCat == {Command("cat", {}, a) : a \in {<<<<"f">>, <<"-">>, <<"l", "x">>>>, <<<<"none">>, <<"g">>>>,
                                         <<<<"d">>>>, <<>>, <<<<"-">>, <<"f">>, <<"-">>>>}}
MCStrings == UNION {[1 .. n -> {"/", "a", "."}] : n \in 0 .. 4}
MCNames ==
  {Command("dirname", {}, <<>>) @@ [string |-> s] : s \in MCStrings}
  \union {Command("basename", {}, <<>>) @@ [string |-> s, suffix |-> t] :
            s \in MCStrings, t \in {<<>>, <<"a">>, <<".", "a">>}}

MCPairs ==
  {<<Command("rm", {"R", "f"}, <<<<"d">>>>), Command("rm", {"R"}, <<<<"d">>>>)>>,
   <<Command("rm", {"R"}, <<<<"dd">>>>), Copy({"R"}, <<<<"dd">>>>, <<"new">>)>>,
   <<Command("rm", {"R"}, <<<<"new">>>>), Copy({"R"}, <<<<"dd">>>>, <<"new">>)>>,
   <<Copy({"f"}, <<<<"f">>>>, <<"n">>), Copy({"f", "p"}, <<<<"g">>>>, <<"n">>)>>,
   <<Copy({}, <<<<"f">>>>, <<"g">>), Copy({"f"}, <<<<"g">>>>, <<"f">>)>>,
   <<Make_({"p"}, <<<<"a", "b">>>>, {"gw"}, None, AllRwx),
     Make_({"p"}, <<<<"a", "b">>, <<"a", "c">>>>, {"ow"}, None, AllRwx)>>,
   <<Make_({"p"}, <<<<"d", "a", "b">>>>, {"ow"}, <<"7", "0", "0">>, Rwx), Command("rm", {"R"}, <<<<"d">>>>)>>,
   <<Touches({}, <<<<"new">>>>, <<>>, BadTime), Touches({"a"}, <<<<"new">>, <<"f">>>>, <<>>, BadTime)>>,
   <<Touches({"a", "c"}, <<<<"new">>, <<"g">>>>, <<>>, BadTime), Touches({"m", "r"}, <<<<"new">>, <<"g">>>>, <<>>, BadTime)>>,
   <<Touches({"m"}, <<<<"f">>>>, <<>>, BadTime), Command("rm", {"f"}, <<<<"f">>>>)>>}
MCSessions ==
  {[x \in MCProc |-> IF x = p1 THEN c ELSE Idle] :
     c \in MCRm \union MCCp \union MCModes \union MCMkdir \union MCTouch \union MCTimes
           \union MCCat \union MCNames}
  \union {[x \in MCProc |-> IF x = p1 THEN c[1] ELSE c[2]] : c \in MCPairs}
=============================================================================
