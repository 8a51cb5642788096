------------------------------ MODULE MCConsole ------------------------------
(***************************************************************************)
(* kmain() and a thread that log two lines each on screens so small that   *)
(* lines wrap and scroll; or kmain() alone with one line in each of many   *)
(* formats.                                                                *)
(***************************************************************************)
EXTENDS Console
CONSTANTS b, t

MCThread == {b, t}
Chars == <<" ", "a", "[", "]", "0", "1", "2", "3", "4", "5", "6", "7", "8", "9", "b", "c",
           "d", "e", "f", ".", ":", "%", "-", "x", "?", "|", "W", "q", "l", "u", "s", "p">>
MCFont == [c \in Range(Chars) |->
             LET i == CHOOSE i \in DOMAIN Chars : Chars[i] = c IN <<(i - 1) \div 8, (i - 1) % 8>>]

MCStamp == <<"[", "%", "1", "l", "u", ".", "%", "0", "1", "l", "u", "]", " ">>
MCLevel == <<"[", "%", "s", "|", "%", "1", "l", "u", ".", "%", "0", "1", "l", "u", "]", " ">>
MCFac == <<"%", "s", ":", " ">>

Mode(bpp, w, h, pitch, red, green, blue) ==
  [type |-> "rgb", bpp |-> bpp, width |-> w, height |-> h, pitch |-> pitch,
   red |-> red, green |-> green, blue |-> blue]
Mode15 == Mode(15, 13, 5, 28, <<5, 10>>, <<5, 5>>, <<5, 0>>)
MCModes == {Mode(16, 13, 5, 28, <<5, 11>>, <<6, 5>>, <<5, 0>>),
            Mode(24, 12, 4, 36, <<8, 16>>, <<8, 8>>, <<8, 0>>),
            Mode(32, 15, 6, 64, <<8, 16>>, <<8, 8>>, <<8, 0>>),
            Mode(8, 15, 6, 15, <<3, 5>>, <<3, 2>>, <<2, 0>>),
            [Mode(32, 15, 6, 64, <<8, 16>>, <<8, 8>>, <<8, 0>>) EXCEPT !.type = "text"]}
MC15Modes == {Mode15}

MCArgs(signed) ==
  [k \in 1 .. 9 |-> [n |-> IF signed THEN (IF k = 1 THEN -128 ELSE -7 * k) ELSE 13 * k,
                     s |-> IF k = 1 THEN <<"a", "b">> ELSE <<>>,
                     c |-> IF k = 1 THEN "c" ELSE "d"]]
Text(s) == [text |-> s, letter |-> "text", width |-> 0, zero |-> FALSE]
Piece(zero, digits, width, long, letter) ==
  [text |-> <<"%">> \o (IF zero THEN <<"0">> ELSE <<>>) \o digits \o
            (IF long THEN <<"l">> ELSE <<>>) \o <<letter>>,
   letter |-> letter, width |-> width, zero |-> zero]
MCPieces ==
  {Text(<<"a">>), Piece(FALSE, <<>>, 0, FALSE, "%"), Piece(FALSE, <<>>, 0, FALSE, "s"),
   Piece(FALSE, <<>>, 0, FALSE, "c"), Piece(FALSE, <<>>, 0, FALSE, "p"),
   Piece(FALSE, <<"4">>, 4, FALSE, "s")}
  \union {Piece(z, w[1], w[2], l, c) :
            z \in BOOLEAN, l \in BOOLEAN, c \in {"d", "u", "x"},
            w \in {<<<<>>, 0>>, <<<<"5">>, 5>>, <<<<"3", "0">>, 30>>}}
Message(pieces, length, args, pause) ==
  [level |-> None, fac |-> None, pieces |-> pieces, length |-> length, args |-> args,
   pause |-> pause]
MCFormats ==
  {Message(<<p, q>>, Len(p.text) + l, MCArgs(signed), 45) :
     p \in {Text(<<"a">>), Piece(FALSE, <<>>, 0, FALSE, "s"), Piece(TRUE, <<"5">>, 5, TRUE, "x")},
     q \in MCPieces, l \in 1 .. 5, signed \in BOOLEAN}
MCLong == {[Message(<<Text(<<"W", "q", "W">>)>>, 3, MCArgs(FALSE), 7) EXCEPT !.level = <<"W">>],
           [Message(<<Text(<<"q">>)>>, 1, MCArgs(FALSE), 45) EXCEPT !.fac = <<"f">>]}
MCScripts ==
  {[x \in MCThread |-> IF x = b THEN <<m>> ELSE <<>>] :
     m \in {f \in MCFormats : f.length <= Len(f.pieces[1].text \o f.pieces[2].text)}}
  \union {[x \in MCThread |-> IF x = b THEN <<m, n>> ELSE <<n, m>>] : m \in MCLong, n \in MCLong}
MC15Scripts == {[x \in MCThread |-> IF x = b THEN <<m>> ELSE <<>>] : m \in MCLong}
=============================================================================
