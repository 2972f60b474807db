------------------------------- MODULE Screen -------------------------------
(***************************************************************************)
(* The CGA screen (console.c, cgaputc): character memory, the cursor and   *)
(* scrolling, against an endless sheet of which the screen shows the last  *)
(* rows.  A cell holds a character or is blank (a space or a zero).        *)
(***************************************************************************)
EXTENDS Integers, Sequences

CONSTANTS
    COLS,       \* 80
    ROWS,       \* 24: the row at which the screen scrolls
    Chars,      \* characters printed
    MAXOUT      \* bound on the characters printed

VARIABLES
    screen,     \* crt, pos, and whether cgaputc panicked
    sheet,      \* history: everything printed, as one sequence of cells
    top,        \* history: cells of the sheet above the screen
    printed     \* history: number of characters printed

vars == <<screen, sheet, top, printed>>

Blank == " "
Cells == 0 .. ((ROWS + 1) * COLS - 1)

(* memmove, one byte at a time, in the direction an overlap calls for.     *)
RECURSIVE up(_, _, _, _)
up(mem, d, s, n) ==
    IF n = 0 THEN mem ELSE up([mem EXCEPT ![d] = mem[s]], d + 1, s + 1, n - 1)
RECURSIVE down(_, _, _, _)
down(mem, d, s, n) ==
    IF n = 0 THEN mem
    ELSE down([mem EXCEPT ![d + n - 1] = mem[s + n - 1]], d, s, n - 1)
memmove_Down(mem, d, s, n) ==   \* mutant: copied from the end whenever they overlap
    IF s + n > d THEN down(mem, d, s, n) ELSE up(mem, d, s, n)
memmove(mem, d, s, n) ==
    IF s < d /\ s + n > d THEN down(mem, d, s, n) ELSE up(mem, d, s, n)

(* Where the character leaves the cursor, and what it leaves in memory.    *)
moved(pos, c) ==
    CASE c = "\n" -> pos + COLS - (pos % COLS)
      [] c = "BACKSPACE" -> IF pos > 0 THEN pos - 1 ELSE pos
      [] OTHER -> pos + 1
stored(crt, pos, c) ==
    IF c \in {"\n", "BACKSPACE"} THEN crt ELSE [crt EXCEPT ![pos] = c]

scroll(crt, pos) ==
    LET rows == memmove(crt, 0, COLS, (ROWS - 1) * COLS)
    IN  [i \in Cells |-> IF i >= pos /\ i < ROWS * COLS THEN Blank ELSE rows[i]]

cgaputc(s, c) ==
    LET crt == stored(s.crt, s.pos, c)
        pos == moved(s.pos, c)
        last == IF pos \div COLS >= ROWS THEN pos - COLS ELSE pos
        shown == IF pos \div COLS >= ROWS THEN scroll(crt, last) ELSE crt
    IN  IF pos < 0 \/ pos > (ROWS + 1) * COLS
        THEN [crt |-> crt, pos |-> s.pos, panicked |-> TRUE]
        ELSE [crt |-> [shown EXCEPT ![last] = Blank], pos |-> last, panicked |-> FALSE]

(* The firmware leaves the cursor on some row above the last.              *)
Blanks(n) == [k \in 1 .. n |-> Blank]
Init ==
    \E pos \in 0 .. (ROWS * COLS - 1) :
      /\ screen = [crt |-> [i \in Cells |-> Blank], pos |-> pos, panicked |-> FALSE]
      /\ sheet = Blanks(pos)
      /\ top = 0 /\ printed = 0

written(c) ==
    CASE c = "\n" -> sheet \o Blanks(COLS - (Len(sheet) % COLS))
      [] c = "BACKSPACE" -> IF Len(sheet) > top THEN SubSeq(sheet, 1, Len(sheet) - 1)
                                                ELSE sheet
      [] OTHER -> Append(sheet, c)

Next ==
    \E c \in Chars \union {"\n", "BACKSPACE"} :
      /\ printed < MAXOUT /\ ~ screen.panicked
      /\ screen' = cgaputc(screen, c)
      /\ sheet' = written(c)
      /\ top' = IF Len(sheet') - top >= ROWS * COLS THEN top + COLS ELSE top
      /\ printed' = printed + 1

Spec == Init /\ [][Next]_vars

(* Whatever is printed, erased and scrolled, the screen shows the end of   *)
(* the sheet with the cursor after its last cell and nothing below it, and *)
(* "pos under/overflow" (console.c:154) is never reached.                  *)
Shown ==
    /\ ~ screen.panicked /\ screen.pos = Len(sheet) - top
    /\ \A i \in 0 .. (ROWS * COLS - 1) :
         screen.crt[i] = IF top + i < Len(sheet) THEN sheet[top + i + 1] ELSE Blank
=============================================================================
