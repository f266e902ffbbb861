------------------------------ MODULE Console -------------------------------
(***************************************************************************)
(* The console of kernel/print_utils.c, called by one caller at a time:    *)
(* `struct VGATextScreen screen` and the part of VIDEO_MEM that is shown.  *)
(* ConsoleRace is about a console that is interrupted.                     *)
(*                                                                         *)
(* Offsets count cells here, and bytes in the code, where a cell has two.  *)
(* A cell's style byte, which follows its character everywhere, is left    *)
(* out.  A write behind the page is in VGA memory that is not shown.       *)
(***************************************************************************)
EXTENDS Naturals, Sequences

CONSTANTS VIDEO_ROW_LEN,  \* cells in a row, 80 in the code
          VIDEO_COL_LEN,  \* rows, 25 in the code
          Chars,          \* printable characters
          Blank,          \* ' '
          Numbers         \* the numbers that are printed, as strings of digits

ASSUME ConsoleAssumption ==
    /\ VIDEO_ROW_LEN \in Nat \ {0, 1}
    /\ VIDEO_COL_LEN \in 2 .. 256  \* the number of a line is a u8
    /\ \A s \in Numbers : s \in Seq(Chars) /\ Len(s) \in 1 .. VIDEO_ROW_LEN

VARIABLE screen  \* row_offset (the column), col_offset (the start of the
                 \* line) and the cells shown
vars == screen

PageSize == VIDEO_ROW_LEN * VIDEO_COL_LEN
LastLine == VIDEO_ROW_LEN * (VIDEO_COL_LEN - 1)
Cells == 0 .. PageSize - 1

(* A cell is written, and the cursor is set to a column and the start of a *)
(* line.                                                                   *)
Write(s, at, c) == [row_offset |-> s.row_offset,
                    col_offset |-> s.col_offset,
                    mem |-> [i \in Cells |-> IF i = at THEN c ELSE s.mem[i]]]
Moved(s, column, start) ==
    [row_offset |-> column, col_offset |-> start, mem |-> s.mem]

-----------------------------------------------------------------------------
(* Scrolling.                                                              *)

\* Faulty variants, here and below, are in no specification: a run that put
\* one in the place of its original must fail.
\* Faulty: the last line keeps what was on it.
scroll_up_keeps_last(s) ==
    [row_offset |-> 0,
     col_offset |-> LastLine,
     mem |-> [i \in Cells |-> IF i < LastLine THEN s.mem[i + VIDEO_ROW_LEN]
                                              ELSE s.mem[i]]]

scroll_up(s) ==
    [row_offset |-> 0,
     col_offset |-> LastLine,
     mem |-> [i \in Cells |-> IF i < LastLine THEN s.mem[i + VIDEO_ROW_LEN]
                                              ELSE Blank]]

(* if (screen.col_offset >= the page) scroll_up(); *)
Scrolled(s) == IF s.col_offset >= PageSize THEN scroll_up(s) ELSE s

print_newline(s) == Scrolled(Moved(s, 0, s.col_offset + VIDEO_ROW_LEN))

(* One cell to the right, to the next line at the end of the row. *)
Wrapped(s) == IF s.row_offset + 1 >= VIDEO_ROW_LEN
                THEN Moved(s, 0, s.col_offset + VIDEO_ROW_LEN)
                ELSE Moved(s, s.row_offset + 1, s.col_offset)

Cursor(s) == s.col_offset + s.row_offset

(* print_chr, for a character other than '\n' and 0x08. *)
print_chr(s, c) == Scrolled(Wrapped(Write(s, Cursor(s), c)))

-----------------------------------------------------------------------------
(* The cursor keys and backspace.                                          *)

move_cursor_up(s) == IF s.col_offset < VIDEO_ROW_LEN
                       THEN Moved(s, s.row_offset, LastLine)
                       ELSE Moved(s, s.row_offset, s.col_offset - VIDEO_ROW_LEN)

\* Faulty: the last line is not looked out for.
down_without_end(s) == Moved(s, s.row_offset, s.col_offset + VIDEO_ROW_LEN)

move_cursor_down(s) == IF s.col_offset >= LastLine
                         THEN Moved(s, s.row_offset, 0)
                         ELSE Moved(s, s.row_offset, s.col_offset + VIDEO_ROW_LEN)

move_cursor_right(s) == IF s.row_offset >= VIDEO_ROW_LEN - 1
                          THEN move_cursor_down(Moved(s, 0, s.col_offset))
                          ELSE Moved(s, s.row_offset + 1, s.col_offset)

move_cursor_left(s) ==
    IF s.row_offset <= 0
      THEN move_cursor_up(Moved(s, VIDEO_ROW_LEN - 1, s.col_offset))
      ELSE Moved(s, s.row_offset - 1, s.col_offset)

print_backspace(s) ==
    LET back == IF s.row_offset <= 0
                  THEN Moved(s, VIDEO_ROW_LEN - 1, s.col_offset - VIDEO_ROW_LEN)
                  ELSE Moved(s, s.row_offset - 1, s.col_offset)
    IN  IF s.col_offset <= 0 /\ s.row_offset <= 0
          THEN s
          ELSE Write(back, Cursor(back), Blank)

-----------------------------------------------------------------------------
(* Numbers are printed from the last digit to the first, each at its place *)
(* behind `start`, while the cursor moves from left to right; `start`      *)
(* follows the page when it scrolls.                                       *)
print_digit(r, place, digit) ==
    LET moved == Wrapped(Write(r.s, r.start + place, digit))
    IN  [s     |-> Scrolled(moved),
         start |-> IF moved.col_offset >= PageSize THEN r.start - VIDEO_ROW_LEN
                                                   ELSE r.start]

print_unum(s, digits) ==
    LET printed[n \in 0 .. Len(digits)] ==
            IF n = 0
              THEN [s |-> s, start |-> Cursor(s)]
              ELSE print_digit(printed[n - 1], Len(digits) - n,
                               digits[Len(digits) + 1 - n])
    IN  printed[Len(digits)].s

-----------------------------------------------------------------------------
(* Positioning.                                                            *)

move_cursor_to(s, x, y) == Moved(s, x, VIDEO_ROW_LEN * y)

get_cursor_coord(s) == [x |-> s.row_offset, y |-> s.col_offset \div VIDEO_ROW_LEN]

(* clear_row(y) clears the row below row y; y is a u8. *)
clear_row(s, y) ==
    [row_offset |-> 0,
     col_offset |-> s.col_offset,
     mem |-> [i \in Cells |-> IF i \div VIDEO_ROW_LEN = (y % 256) + 1
                                THEN Blank
                                ELSE s.mem[i]]]

(* The main loop begins the line of the lock keys with                     *)
(*   print_newline(); get_cursor_coord(&x, &y); clear_row(y - 1);          *)
StatusLine(s) ==
    LET line == print_newline(s)
    IN  clear_row(line, get_cursor_coord(line).y + 255)

-----------------------------------------------------------------------------
(* clear_screen is the first call. *)
Init == screen = [row_offset |-> 0, col_offset |-> 0,
                  mem |-> [i \in Cells |-> Blank]]

Next == \/ \E c \in Chars : screen' = print_chr(screen, c)
        \/ \E digits \in Numbers : screen' = print_unum(screen, digits)
        \/ screen' = print_newline(screen)
        \/ screen' = print_backspace(screen)
        \/ screen' = move_cursor_left(screen)
        \/ screen' = move_cursor_right(screen)
        \/ screen' = move_cursor_up(screen)
        \/ screen' = move_cursor_down(screen)
        \/ screen' = StatusLine(screen)
        \/ \E x \in 0 .. VIDEO_ROW_LEN - 1, y \in 0 .. VIDEO_COL_LEN - 1 :
             screen' = move_cursor_to(screen, x, y)

Spec == Init /\ [][Next]_vars

-----------------------------------------------------------------------------
(* Properties.                                                             *)

(* Between two calls the cursor is on a cell of the page, at the start of  *)
(* a line plus a column of it, so that the next character is shown.        *)
TypeOK == /\ screen.row_offset \in 0 .. VIDEO_ROW_LEN - 1
          /\ screen.col_offset \in {VIDEO_ROW_LEN * l : l \in 0 .. VIDEO_COL_LEN - 1}
          /\ screen.mem \in [Cells -> Chars \cup {Blank}]

(* The page that the flat memory shows. *)
Shown == [l \in 0 .. VIDEO_COL_LEN - 1 |->
            [i \in 0 .. VIDEO_ROW_LEN - 1 |-> screen.mem[VIDEO_ROW_LEN * l + i]]]

Page == INSTANCE Terminal WITH Rows <- VIDEO_COL_LEN,
                               Cols <- VIDEO_ROW_LEN,
                               page <- Shown,
                               x <- screen.row_offset,
                               y <- screen.col_offset \div VIDEO_ROW_LEN

(* The offsets and the flat memory behave as a page of lines: wrapping,    *)
(* scrolling, the cursor keys and backspace do what the terminal does, and *)
(* a number gives the digits one would have printed from left to right,    *)
(* except that one that crosses the bottom right corner loses its last     *)
(* digits (print_utils.c:134 writes them behind the page).                 *)
ShowsTerminal == Page!Spec
=============================================================================
