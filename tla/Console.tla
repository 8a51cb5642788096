------------------------------- MODULE Console -------------------------------
(***************************************************************************)
(* A line of the kernel log from klog() to the screen: subr_log.c, the     *)
(* clock it is stamped with (amd64/tsc.c), subr_prf.c (Printf), cons.c and *)
(* the two consoles, vga.c and fb.c with the font of subr_font.c, under    *)
(* src/src/kern.                                                           *)
(*                                                                         *)
(* kmain() logs alone with interrupts off, may move the console to a frame *)
(* buffer, and enables interrupts; from then on the tick may give the CPU  *)
(* to another thread wherever interrupts are on.                           *)
(***************************************************************************)
EXTENDS Printf

CONSTANTS
  Thread, Boot,            \* the threads, and the one that is kmain()
  Scripts,                 \* BOUND: what each thread logs, one message after the other
  Cols, Rows,              \* VGA_COLS, VGA_ROWS
  FontWidth, FontHeight, Font,  \* font8x8: of a character and a row, its bits
  Modes,                   \* the framebuffer tags the boot loader may leave
  Elapsed, Scale, Bits,    \* TSC ticks of the calibration; 10^6; the width of uint64_t
  StampFmt, LevelFmt, FacFmt,   \* the formats of klog_prefix()
  None

VARIABLES
  script, cur, iflag,      \* what is left to log; the running thread; IF
  pc, flags, todo,         \* of each thread: where it is in klog(), cli_save()'s result,
                           \* the characters it has still to put
  log_on, use_fb,
  vga, vga_row, vga_col, crtc,     \* crtc: the position of the hardware cursor
  cfb, fbmem, fb_row, fb_col,
  tsc, tsc_hz, tsc_boot,
  stamp,                   \* of each thread: when its line was stamped, and with what
  lines                    \* HISTORY: the lines finished since the screen was blank

vgavars == <<vga, vga_row, vga_col, crtc>>
fbvars == <<cfb, fbmem, fb_row, fb_col>>
tscvars == <<tsc, tsc_hz, tsc_boot>>
cpuvars == <<script, cur, iflag, pc, flags, todo, stamp, lines>>
vars == <<cpuvars, log_on, use_fb, vgavars, fbvars, tscvars>>

Attr == "grey on black"         \* VGA_ATTR
AttrLog == "black on white"     \* VGA_ATTR_LOG
Blank == [attr |-> Attr, ch |-> " "]

PowerOf2[k \in Nat] == IF k = 0 THEN 1 ELSE 2 * PowerOf2[k - 1]

\* Mutant: subtracts only when the remainder is above the divisor.
Udiv64_Above(n, d) ==
  LET loop[k \in 0 .. Bits] ==
        IF k = 0 THEN [q |-> 0, r |-> 0]
        ELSE LET bit == PowerOf2[Bits - k]
                 prev == loop[k - 1]
                 r == (2 * prev.r + ((n \div bit) % 2)) % PowerOf2[Bits]
             IN  IF r > d THEN [q |-> prev.q + bit, r |-> r - d] ELSE [q |-> prev.q, r |-> r]
  IN  loop[Bits]

-----------------------------------------------------------------------------
(***************************************************************************)
(* The clock: a 64-bit division by shifting and subtracting.               *)
(***************************************************************************)
\* After k of the steps; i of the loop is Bits - k.
Udiv64(n, d) ==
  LET loop[k \in 0 .. Bits] ==
        IF k = 0 THEN [q |-> 0, r |-> 0]
        ELSE LET bit == PowerOf2[Bits - k]
                 prev == loop[k - 1]
                 r == (2 * prev.r + ((n \div bit) % 2)) % PowerOf2[Bits]
             IN  IF r >= d THEN [q |-> prev.q + bit, r |-> r - d] ELSE [q |-> prev.q, r |-> r]
  IN  loop[Bits]

MdUptime(now) ==
  LET cycles_per_us == Udiv64(tsc_hz, Scale).q
      us == Udiv64(now - tsc_boot, cycles_per_us).q
  IN  [sec |-> Udiv64(us, Scale).q, usec |-> Udiv64(us, Scale).r]

CalMs == 50      \* the length of the pulse in milliseconds

\* The pulse of the PIT takes some ticks; a PIT that does not answer is a panic.
TscCalibrate ==
  /\ pc[Boot] = "start"
  /\ \E e \in Elapsed \union {None} :
       IF e = None THEN pc' = [pc EXCEPT ![Boot] = "panic"] /\ UNCHANGED tscvars
       ELSE /\ tsc_hz' = ((e * 1000) % PowerOf2[Bits]) \div CalMs
            /\ tsc' = e /\ tsc_boot' = e
            /\ pc' = [pc EXCEPT ![Boot] = "out"]
  /\ UNCHANGED <<script, cur, iflag, flags, todo, stamp, lines, log_on, use_fb, vgavars, fbvars>>

-----------------------------------------------------------------------------
(***************************************************************************)
(* The text console: a cell, the cursor, and the scroll when it runs off.  *)
(***************************************************************************)
VgaPut(c) ==
  LET wraps == c = "\n" \/ vga_col + 1 = Cols
  IN  /\ vga' = IF c = "\n" THEN vga
                ELSE [vga EXCEPT ![vga_row * Cols + vga_col] =
                                   [attr |-> IF log_on THEN AttrLog ELSE Attr, ch |-> c]]
      /\ vga_col' = IF wraps THEN 0 ELSE vga_col + 1
      /\ vga_row' = IF wraps THEN vga_row + 1 ELSE vga_row

VgaScroll ==
  /\ vga' = [i \in DOMAIN vga |->
               IF i < Cols * (Rows - 1) THEN vga[i + Cols] ELSE Blank]
  /\ vga_row' = Rows - 1

VgaInit ==
  /\ vga = [i \in 0 .. Cols * Rows - 1 |-> Blank]
  /\ vga_row = 0 /\ vga_col = 0 /\ crtc = 0

-----------------------------------------------------------------------------
(***************************************************************************)
(* The frame buffer: bytes, a pixel being written lowest byte first.       *)
(***************************************************************************)
FbCols == cfb.width \div FontWidth
FbRows == cfb.height \div FontHeight

FbPack(m, level) ==
  LET field(size, pos) == (level \div 2 ^ (8 - size)) * 2 ^ pos
  IN  field(m.red[1], m.red[2]) + field(m.green[1], m.green[2]) + field(m.blue[1], m.blue[2])

Pair(m, log) ==
  IF log THEN [fg |-> FbPack(m, 0), bg |-> FbPack(m, 255)]
  ELSE [fg |-> FbPack(m, 170), bg |-> FbPack(m, 0)]

Written(bpp) == CASE bpp \in {15, 16} -> 2 [] bpp = 24 -> 3 [] bpp = 32 -> 4

\* Writes of bytes in their order, as <<address, byte>>.
Stored(mem, writes) == FoldLeft(LAMBDA m, w : [m EXCEPT ![w[1]] = w[2]], mem, writes)

Putpixel(x, y, color) ==
  IF x >= cfb.width \/ y >= cfb.height THEN <<>>
  ELSE [k \in 1 .. Written(cfb.bpp) |->
          <<y * cfb.pitch + x * (cfb.bpp \div 8) + k - 1, (color \div 256 ^ (k - 1)) % 256>>]

FontPutc(x, y, c, pair) ==
  LET lit(row, col) == (Font[c][row + 1] \div 2 ^ (FontWidth - 1 - col)) % 2 = 1
      pixel(n) == LET row == n \div FontWidth
                      col == n % FontWidth
                  IN  Putpixel(x + col, y + row, IF lit(row, col) THEN pair.fg ELSE pair.bg)
  IN  FlattenSeq([n \in 1 .. FontWidth * FontHeight |-> pixel(n - 1)])

FbPut(c) ==
  LET wraps == c = "\n" \/ fb_col + 1 = FbCols
  IN  /\ fbmem' = IF c = "\n" THEN fbmem
                  ELSE Stored(fbmem, FontPutc(fb_col * FontWidth, fb_row * FontHeight, c,
                                              Pair(cfb, log_on)))
      /\ fb_col' = IF wraps THEN 0 ELSE fb_col + 1
      /\ fb_row' = IF wraps THEN fb_row + 1 ELSE fb_row

\* memmove() to a lower address goes upwards, and so reads each byte before it
\* is written.
Memmove(mem, dst, src, n) ==
  [i \in DOMAIN mem |-> IF i \in dst .. dst + n - 1 THEN mem[src + i - dst] ELSE mem[i]]

\* Mutant: one row of pixels is moved, not one of characters.
FbScroll_OneLine ==
  LET kept == (FbRows - 1) * FontHeight * cfb.pitch
      moved == Memmove(fbmem, 0, cfb.pitch, kept)
  IN  /\ fbmem' = [i \in DOMAIN fbmem |->
                     IF i \in kept .. kept + FontHeight * cfb.pitch - 1 THEN 0 ELSE moved[i]]
      /\ fb_row' = FbRows - 1

FbScroll ==
  LET row_bytes == FontHeight * cfb.pitch
      kept == (FbRows - 1) * row_bytes
      moved == Memmove(fbmem, 0, row_bytes, kept)
  IN  /\ fbmem' = [i \in DOMAIN fbmem |->
                     IF i \in kept .. kept + row_bytes - 1 THEN 0 ELSE moved[i]]
      /\ fb_row' = FbRows - 1

FbAccepts(m) ==
  /\ m.bpp \in {15, 16, 24, 32}
  /\ m.width >= FontWidth /\ m.height >= FontHeight /\ m.pitch # 0

\* cons_fb_init(), once, while kmain() is alone; the screen starts blank.
ConsFbInit ==
  /\ pc[Boot] = "out" /\ cur = Boot /\ ~ iflag /\ cfb = None /\ ~ use_fb
  /\ \E m \in Modes :
       /\ m.type = "rgb" /\ FbAccepts(m)
       /\ use_fb' = TRUE /\ cfb' = m
       /\ fbmem' = [i \in 0 .. m.pitch * m.height - 1 |-> 0]
       /\ fb_row' = 0 /\ fb_col' = 0 /\ lines' = <<>>
  /\ UNCHANGED <<script, cur, iflag, pc, flags, todo, stamp, log_on, vgavars, tscvars>>

-----------------------------------------------------------------------------
(***************************************************************************)
(* klog(), kwarn() and kerror().  A message is a format in pieces, cut off *)
(* after some characters, its arguments and the ticks of the TSC before    *)
(* it; the prefix is printed the same way.                                 *)
(***************************************************************************)
Format(msg) == SubSeq(FlattenSeq([i \in DOMAIN msg.pieces |-> msg.pieces[i].text]),
                      1, msg.length)

Prefix(msg, up) ==
  LET number(n) == [n |-> n, s |-> <<>>, c |-> " "]
      string(s) == [n |-> 0, s |-> s, c |-> " "]
  IN  (IF msg.level = None THEN Kvprintf(StampFmt, <<number(up.sec), number(up.usec)>>)
       ELSE Kvprintf(LevelFmt, <<string(msg.level), number(up.sec), number(up.usec)>>))
      \o (IF msg.fac = None THEN <<>> ELSE Kvprintf(FacFmt, <<string(msg.fac)>>))

Saying(t) == Head(script[t])

\* What the kernel says: no message of it holds a newline, which is klog()'s own, and
\* there is an argument for each "%" of a format.
Char == DOMAIN Font
Percents(fmt) == {i \in DOMAIN fmt : fmt[i] = "%"}
Directives(pieces) == {i \in DOMAIN pieces : pieces[i].letter \notin {"text", "%"}}
Sayable(msg) ==
  /\ msg.pause \in Nat
  /\ msg.level # None => msg.level \in Seq(Char)
  /\ msg.fac # None => msg.fac \in Seq(Char)
  /\ Format(msg) \in Seq(Char) /\ Cardinality(Percents(Format(msg))) <= Len(msg.args)
  /\ msg.args \in Seq([n : Int, s : Seq(Char), c : Char])
  /\ msg.pieces \in Seq([text : Seq(Char), letter : STRING, width : Nat, zero : BOOLEAN])
  /\ Cardinality(Directives(msg.pieces)) <= Len(msg.args)
Said == UNION {Range(s[t]) : s \in Scripts, t \in Thread}

ASSUME ConsoleAssumption ==
  /\ Boot \in Thread
  /\ Range(Numeral) \union {"%", "-", "x", " "} \subseteq Char
  /\ {"\n", "NUL", "beyond"} \intersect Char = {}
  /\ Cols \in Nat \ {0} /\ Rows \in Nat \ {0}
  /\ Bits \in Nat /\ Scale \in Nat /\ 2 <= Scale /\ 2 * Scale <= PowerOf2[Bits]
  /\ \A e \in Elapsed : e \in Nat /\ e * 1000 < PowerOf2[Bits]
  /\ Scripts \subseteq [Thread -> Seq(Said)] /\ \A msg \in Said : Sayable(msg)
  /\ StampFmt \in Seq(Char) /\ Cardinality(Percents(StampFmt)) <= 2
  /\ LevelFmt \in Seq(Char) /\ Cardinality(Percents(LevelFmt)) <= 3
  /\ FacFmt \in Seq(Char) /\ Cardinality(Percents(FacFmt)) <= 1

Klog(t) ==
  /\ pc[t] = "out" /\ script[t] # <<>>
  /\ flags' = [flags EXCEPT ![t] = iflag] /\ iflag' = FALSE
  /\ pc' = [pc EXCEPT ![t] = "on"]
  /\ UNCHANGED <<script, cur, todo, stamp, lines, log_on, use_fb, vgavars, fbvars, tscvars>>

ConsLogOn(t) ==
  /\ pc[t] = "on" /\ log_on' = TRUE
  /\ pc' = [pc EXCEPT ![t] = "prefix"]
  /\ UNCHANGED <<script, cur, iflag, flags, todo, stamp, lines, use_fb, vgavars, fbvars, tscvars>>

KlogPrefix(t) ==
  /\ pc[t] = "prefix"
  /\ LET now == tsc + Saying(t).pause IN
       /\ tsc' = now
       /\ stamp' = [stamp EXCEPT ![t] = [tsc |-> now, up |-> MdUptime(now)]]
       /\ todo' = [todo EXCEPT ![t] =
                     Prefix(Saying(t), MdUptime(now)) \o
                     Kvprintf(Format(Saying(t)), Saying(t).args) \o <<"\n">>]
  /\ pc' = [pc EXCEPT ![t] = "put"]
  /\ UNCHANGED <<script, cur, iflag, flags, lines, log_on, use_fb, vgavars, fbvars, tsc_hz, tsc_boot>>

\* kputc() up to the scroll.
Kputc(t) ==
  /\ pc[t] = "put" /\ todo[t] # <<>>
  /\ todo' = [todo EXCEPT ![t] = Tail(@)]
  /\ pc' = [pc EXCEPT ![t] = "scroll"]
  /\ IF use_fb
     THEN FbPut(Head(todo[t])) /\ UNCHANGED <<vgavars, cfb>>
     ELSE VgaPut(Head(todo[t])) /\ UNCHANGED <<fbvars, crtc>>
  /\ UNCHANGED <<script, cur, iflag, flags, stamp, lines, log_on, use_fb, tscvars>>

KputcScroll(t) ==
  /\ pc[t] = "scroll"
  /\ pc' = [pc EXCEPT ![t] = IF use_fb THEN "put" ELSE "cursor"]
  /\ IF use_fb
     THEN /\ IF fb_row = FbRows THEN FbScroll ELSE UNCHANGED <<fbmem, fb_row>>
          /\ UNCHANGED <<vgavars, cfb, fb_col>>
     ELSE /\ IF vga_row = Rows THEN VgaScroll ELSE UNCHANGED <<vga, vga_row>>
          /\ UNCHANGED <<fbvars, vga_col, crtc>>
  /\ UNCHANGED <<script, cur, iflag, flags, todo, stamp, lines, log_on, use_fb, tscvars>>

VgaSetcursor(t) ==
  /\ pc[t] = "cursor" /\ crtc' = vga_row * Cols + vga_col
  /\ pc' = [pc EXCEPT ![t] = "put"]
  /\ UNCHANGED <<script, cur, iflag, flags, todo, stamp, lines, log_on, use_fb, vga, vga_row, vga_col, fbvars, tscvars>>

ConsLogOff(t) ==
  /\ pc[t] = "put" /\ todo[t] = <<>> /\ log_on' = FALSE
  /\ pc' = [pc EXCEPT ![t] = "restore"]
  /\ UNCHANGED <<script, cur, iflag, flags, todo, stamp, lines, use_fb, vgavars, fbvars, tscvars>>

StiRestore(t) ==
  /\ pc[t] = "restore"
  /\ iflag' = flags[t]
  /\ lines' = Append(lines, [said |-> Saying(t), stamp |-> stamp[t]])
  /\ script' = [script EXCEPT ![t] = Tail(@)]
  /\ pc' = [pc EXCEPT ![t] = "out"]
  /\ UNCHANGED <<cur, flags, todo, stamp, log_on, use_fb, vgavars, fbvars, tscvars>>

Sti ==
  /\ pc[Boot] = "out" /\ cur = Boot /\ ~ iflag /\ iflag' = TRUE
  /\ UNCHANGED <<script, cur, pc, flags, todo, stamp, lines, log_on, use_fb, vgavars, fbvars, tscvars>>

\* The tick and scheduler_tick(): modelled in full in Sched and Interrupts.
Tick ==
  /\ iflag /\ \E t \in Thread \ {cur} : cur' = t
  /\ UNCHANGED <<script, iflag, pc, flags, todo, stamp, lines, log_on, use_fb, vgavars, fbvars, tscvars>>

Init ==
  /\ script \in Scripts /\ cur = Boot /\ iflag = FALSE
  /\ pc = [t \in Thread |-> IF t = Boot THEN "start" ELSE "out"]
  /\ flags = [t \in Thread |-> FALSE] /\ todo = [t \in Thread |-> <<>>]
  /\ log_on = FALSE /\ use_fb = FALSE
  /\ VgaInit
  /\ cfb = None /\ fbmem = <<>> /\ fb_row = 0 /\ fb_col = 0
  /\ tsc = 0 /\ tsc_hz = 0 /\ tsc_boot = 0
  /\ stamp = [t \in Thread |-> None] /\ lines = <<>>

KlogStep(t) ==
  \/ Klog(t) \/ ConsLogOn(t) \/ KlogPrefix(t) \/ Kputc(t) \/ KputcScroll(t)
  \/ VgaSetcursor(t) \/ ConsLogOff(t) \/ StiRestore(t)

Next == TscCalibrate \/ ConsFbInit \/ Sti \/ Tick \/ KlogStep(cur)

Spec == Init /\ [][Next]_vars

-----------------------------------------------------------------------------
(***************************************************************************)
(* What printf(3) says of a format in pieces.  A piece is a text, printed  *)
(* as it is, or a directive with its flag, width and letter.               *)
(***************************************************************************)
Padded(sign, digits, piece) ==
  LET gap == [i \in 1 .. MostOf(piece.width - Len(digits) - Len(sign), 0) |->
                IF piece.zero THEN "0" ELSE " "]
  IN  IF piece.zero THEN sign \o gap \o digits ELSE gap \o sign \o digits

\* A numeral denotes a number in a base.
Numerals(base) ==
  LET places == {d \in UNION {[1 .. l -> 0 .. base - 1] : l \in 1 .. 3} : Len(d) = 1 \/ d[1] # 0}
      value(d) == FoldLeft(LAMBDA v, x : v * base + x, 0, d)
  IN  [n \in 0 .. Word - 1 |-> LET d == CHOOSE d \in places : value(d) = n
                               IN  [i \in DOMAIN d |-> Numeral[d[i] + 1]]]
Decimals == Numerals(10)
Hexadecimals == Numerals(16)

Field(piece, arg) ==
  CASE piece.letter = "text" -> piece.text
    [] piece.letter = "%" -> <<"%">>
    [] piece.letter = "d" ->
         IF arg.n < 0 THEN Padded(<<"-">>, Decimals[0 - arg.n], piece)
         ELSE Padded(<<>>, Decimals[arg.n], piece)
    [] piece.letter = "u" -> Padded(<<>>, Decimals[arg.n % Word], piece)
    [] piece.letter = "x" -> Padded(<<>>, Hexadecimals[arg.n % Word], piece)
    [] piece.letter = "p" -> <<"0", "x">> \o Hexadecimals[arg.n % Word]
    [] piece.letter = "s" -> Padded(<<>>, arg.s, [piece EXCEPT !.zero = FALSE])
    [] piece.letter = "c" -> <<arg.c>>

-----------------------------------------------------------------------------
(***************************************************************************)
(* Properties.                                                             *)
(***************************************************************************)
Prefixing == {t \in Thread : pc[t] = "prefix"}
Takes(piece) == piece.letter \notin {"text", "%"}
ArgOf(msg, i) == msg.args[1 + Cardinality({j \in 1 .. i - 1 : Takes(msg.pieces[j])})]

\* The pieces that the cut left whole, and what is left of a cut one.
Whole(msg, i) == Len(FlattenSeq([j \in 1 .. i |-> msg.pieces[j].text])) <= msg.length
Meaning(msg) ==
  FlattenSeq([i \in DOMAIN msg.pieces |->
    IF Whole(msg, i) THEN Field(msg.pieces[i], ArgOf(msg, i))
    ELSE IF msg.pieces[i].letter # "text" THEN <<>>
    ELSE SubSeq(msg.pieces[i].text, 1,
                msg.length - Len(FlattenSeq([j \in 1 .. i - 1 |-> msg.pieces[j].text])))])

\* The fields of printf(3) that subr_prf.c leaves out: the width of a string, the
\* sign as a part of the width, a width above WIDTH_MAX.
LeftOut(piece, arg) ==
  \/ piece.letter = "s" /\ piece.width > 0
  \/ piece.letter = "d" /\ arg.n < 0 /\ piece.width > 0
  \/ piece.width > WidthMax

(* Every format, cut off anywhere, prints what printf(3) says, takes its    *)
(* arguments in order and reads nothing behind its NUL (subr_prf.c:50-121). *)
PrintsRight ==
  \A t \in Prefixing : LET msg == Saying(t) IN
    (\A i \in DOMAIN msg.pieces : ~ LeftOut(msg.pieces[i], ArgOf(msg, i)))
       => Kvprintf(Format(msg), msg.args) = Meaning(msg)

(* No field, however wide, is put past the end of kputnum()'s buffer        *)
(* (subr_prf.c:28-44).                                                      *)
BufferHolds ==
  \A t \in Prefixing : LET msg == Saying(t) IN
    \A i \in DOMAIN msg.pieces : LET piece == msg.pieces[i] IN
      piece.letter \in {"d", "u", "x"} =>
        Len(Kputnum(Magnitude(piece.letter, ArgOf(msg, i).n), Base(piece.letter),
                    piece.width, piece.zero)) <= BufSize

\* The threads that are inside vklog().
Inside == {t \in Thread : pc[t] \in {"prefix", "put", "scroll", "cursor", "restore"}}

(* The stamp of a line is the time since the calibration, and a line below  *)
(* another one is not older (tsc.c:37-57, 91-102; subr_log.c:53).           *)
Uptime(now) == LET us == (now - tsc_boot) \div (tsc_hz \div Scale)
               IN  [sec |-> us \div Scale, usec |-> us % Scale]
StampsRight ==
  \A i \in DOMAIN lines :
    /\ tsc_hz >= Scale => lines[i].stamp.up = Uptime(lines[i].stamp.tsc)
    /\ i > 1 => lines[i].stamp.tsc >= lines[i - 1].stamp.tsc

\* The rows of a screen that is cols wide for the lines, each wrapped.
Rendered(line) == Prefix(line.said, line.stamp.up) \o Kvprintf(Format(line.said), line.said.args)
Wrapped(cols) ==
  FlattenSeq([i \in DOMAIN lines |->
    LET text == Rendered(lines[i])
    IN  [k \in 1 .. Len(text) \div cols + 1 |->
           SubSeq(text, (k - 1) * cols + 1, LeastOf(k * cols, Len(text)))]])

\* The last rows of them, with an empty row for the cursor.
CellAt(all, rows, r, c) ==
  LET i == MostOf(Len(all) - (rows - 1), 0) + r + 1
  IN  IF i <= Len(all) /\ c < Len(all[i]) THEN [attr |-> AttrLog, ch |-> all[i][c + 1]]
      ELSE Blank

\* The colour a display takes from the bytes of a pixel.
ColorAt(x, y) ==
  LET bytes == (cfb.bpp + 7) \div 8
  IN  FoldLeft(LAMBDA v, k : v * 256 + fbmem[y * cfb.pitch + x * bytes + bytes - k],
               0, [k \in 1 .. bytes |-> k])

\* The colour of a pixel of a cell.
Ink(cell, x, y) ==
  LET pair == Pair(cfb, cell.attr = AttrLog)
      bits == IF cell = Blank THEN 0 ELSE Font[cell.ch][y + 1]
  IN  IF (bits \div 2 ^ (FontWidth - 1 - x)) % 2 = 1 THEN pair.fg ELSE pair.bg

(* Between two lines the screen shows the end of the log: every line whole, *)
(* in order, wrapped, black on white and nothing else, down to the pixels   *)
(* of the frame buffer (vga.c:49-95, fb.c:39-79, subr_font.c:10-60).        *)
ShowsLog ==
  Inside = {} =>
    IF ~ use_fb
    THEN LET all == Wrapped(Cols)
         IN  /\ \A r \in 0 .. Rows - 1, c \in 0 .. Cols - 1 :
                  vga[r * Cols + c] = CellAt(all, Rows, r, c)
             /\ crtc = LeastOf(Len(all), Rows - 1) * Cols
    ELSE LET all == Wrapped(FbCols)
         IN  \A x \in 0 .. cfb.width - 1, y \in 0 .. cfb.height - 1 :
               LET r == y \div FontHeight
                   c == x \div FontWidth
               IN  ColorAt(x, y) = IF r < FbRows /\ c < FbCols
                                   THEN Ink(CellAt(all, FbRows, r, c), x % FontWidth, y % FontHeight)
                                   ELSE 0
=============================================================================
