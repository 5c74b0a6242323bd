-------------------------------- MODULE Vga --------------------------------
(***************************************************************************)
(* The text display, devices/vga.c: the cursor, the framebuffer and what   *)
(* each character does to them.  Beside it the model keeps the whole       *)
(* output as an endless paper, and the screen must be its last rows.       *)
(* The display starts with the cursor wherever the loader left it.         *)
(***************************************************************************)
EXTENDS Integers, Sequences

CONSTANTS ROW_CNT, COL_CNT, TAB,
          Glyphs,       \* the characters that have a shape
          MaxRows       \* bound: rows of paper

Controls == {"nl", "ff", "bs", "cr", "tab", "bel"}

ASSUME VgaAssumption ==
  /\ ROW_CNT \in Nat \ {0} /\ COL_CNT \in Nat \ {0} /\ TAB \in Nat \ {0}
  /\ Glyphs \cap Controls = {}

VARIABLES cx, cy,       \* the cursor
          fb,           \* fb[y][x]: the framebuffer
          paper         \* the rows written since the screen was cleared

vga_vars == <<cx, cy, fb, paper>>

Space == " "
BlankRow == [x \in 0 .. COL_CNT - 1 |-> Space]

(* Wrong: the row that scrolls in keeps the characters it had. *)
newline_Stale(s) ==
  IF s.cy + 1 < ROW_CNT THEN [s EXCEPT !.cx = 0, !.cy = @ + 1]
  ELSE [s EXCEPT !.cx = 0,
                 !.fb = [y \in 0 .. ROW_CNT - 1 |-> IF y + 1 < ROW_CNT THEN @[y + 1] ELSE @[y]]]

(* The screen after newline(): the first column of the next row, which     *)
(* scrolls the screen if there is none.                                    *)
newline(s) ==
  IF s.cy + 1 < ROW_CNT THEN [s EXCEPT !.cx = 0, !.cy = @ + 1]
  ELSE [s EXCEPT !.cx = 0,
                 !.fb = [y \in 0 .. ROW_CNT - 1 |-> IF y + 1 < ROW_CNT THEN @[y + 1] ELSE BlankRow]]

cls(s) == [cx |-> 0, cy |-> 0, fb |-> [y \in 0 .. ROW_CNT - 1 |-> BlankRow]]

Wrapped(s) == IF s.cx >= COL_CNT THEN newline(s) ELSE s

Tabbed(s) == Wrapped([s EXCEPT !.cx = ((@ \div TAB) + 1) * TAB])

(* vga_putc(), by character.  '\a' sounds the speaker and draws nothing.   *)
putc(s, c) ==
  CASE c = "nl" -> newline(s)
    [] c = "ff" -> cls(s)
    [] c = "bs" -> [s EXCEPT !.cx = IF @ > 0 THEN @ - 1 ELSE 0]
    [] c = "cr" -> [s EXCEPT !.cx = 0]
    [] c = "tab" -> Tabbed(s)
    [] c = "bel" -> s
    [] OTHER -> Wrapped([s EXCEPT !.fb[s.cy][s.cx] = c, !.cx = @ + 1])

Screen == [cx |-> cx, cy |-> cy, fb |-> fb]

vga_init ==
  /\ cx \in 0 .. COL_CNT - 1 /\ cy \in 0 .. ROW_CNT - 1
  /\ fb = [y \in 0 .. ROW_CNT - 1 |-> BlankRow]
  /\ paper = [i \in 1 .. ROW_CNT |-> BlankRow]

(* The row of the paper the cursor is in: the screen is the last ROW_CNT   *)
(* rows.                                                                   *)
PaperRow == Len(paper) - ROW_CNT + cy + 1

vga_putc(c) ==
  LET s == putc(Screen, c)
      moved == IF c \in Glyphs THEN cx + 1 >= COL_CNT
               ELSE c = "nl" \/ (c = "tab" /\ ((cx \div TAB) + 1) * TAB >= COL_CNT)
      inked == IF c \in Glyphs THEN [paper EXCEPT ![PaperRow][cx] = c] ELSE paper IN
    /\ Len(paper) < MaxRows \/ c = "ff"
    /\ cx' = s.cx /\ cy' = s.cy /\ fb' = s.fb
    /\ paper' = IF c = "ff" THEN [i \in 1 .. ROW_CNT |-> BlankRow]
                ELSE IF moved /\ cy = ROW_CNT - 1 THEN Append(inked, BlankRow)
                ELSE inked

VgaNext == \E c \in Glyphs \cup Controls : vga_putc(c)

VgaSpec == vga_init /\ [][VgaNext]_vga_vars

(***************************************************************************)
(* Properties.                                                             *)
(***************************************************************************)
(* The next character always falls into the framebuffer: no sequence of    *)
(* wraps, tabs and backspaces leaves the cursor outside the screen.        *)
CursorOnScreen == cx \in 0 .. COL_CNT - 1 /\ cy \in 0 .. ROW_CNT - 1

(* The screen shows the last rows of everything that was written: a scroll *)
(* loses the top row and nothing else, and brings in an empty one.         *)
ScreenIsTail ==
  \A y \in 0 .. ROW_CNT - 1 : fb[y] = paper[Len(paper) - ROW_CNT + y + 1]

(* The screen shows the end of what was printed, with the cursor on it.     *)
DisplayIsTail == CursorOnScreen /\ ScreenIsTail
=============================================================================
