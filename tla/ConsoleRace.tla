---------------------------- MODULE ConsoleRace -----------------------------
(***************************************************************************)
(* The cursor of the console while the keyboard interrupt prints.          *)
(*                                                                         *)
(* `screen` of kernel/print_utils.c is volatile and not locked: the main   *)
(* loop changes it with one memory access after another, and               *)
(* ioapic_keyboard_int_stub calls printf(" [ %x ] ", code) between any two *)
(* of them.  Each access of the main loop is an action; the interrupt,     *)
(* which runs to its end, is one action.  The cells' contents are left to  *)
(* module Console; what counts here is where the cursor is and which cells *)
(* are written.  Offsets count cells.                                      *)
(***************************************************************************)
EXTENDS Naturals, FiniteSets

CONSTANTS VIDEO_ROW_LEN,  \* cells in a row, 80 in the code
          VIDEO_COL_LEN,  \* rows, 25 in the code
          Burst,          \* characters the interrupt prints, 16 in the code
          U32,            \* offsets count modulo this, 2^31 cells in the code
          U8,             \* coordinates count modulo this, 256 in the code
          MaxDigits,      \* digits of a number, up to 10 in the code
          Calls           \* the calls the main loop makes

ASSUME RaceAssumption ==
    /\ VIDEO_ROW_LEN \in Nat \ {0, 1}
    /\ VIDEO_COL_LEN \in Nat \ {0, 1}
    /\ Burst \in Nat \ {0, 1}
    /\ {U8, U32} \subseteq Nat
    /\ VIDEO_ROW_LEN < U8 /\ VIDEO_COL_LEN < U8
    /\ U32 > VIDEO_ROW_LEN * (U8 + MaxDigits)
    /\ MaxDigits \in 1 .. VIDEO_ROW_LEN
    /\ Calls \subseteq {"print_chr", "print_newline", "move_cursor_up",
                        "move_cursor_down", "move_cursor_left",
                        "move_cursor_right", "print_backspace",
                        "get_cursor_coord", "move_cursor_to",
                        "print_unum"}

VARIABLES row,     \* screen.row_offset: the column
          col,     \* screen.col_offset: the start of the line
          pc,      \* the access the main loop makes next, or "rest"
          call,    \* the call it is in
          r,       \* what it has just loaded
          tx, ty,  \* the coordinates the main loop has saved
          start,   \* where the number it prints begins
          left,    \* digits left to print
          written, \* the cells of VIDEO_MEM written by the last step
          spoiled  \* history: an interrupt has come in one of the Windows

locals == <<tx, ty, start, left>>
vars == <<row, col, pc, call, r, locals, written, spoiled>>

Page == VIDEO_ROW_LEN * VIDEO_COL_LEN
LastLine == VIDEO_ROW_LEN * (VIDEO_COL_LEN - 1)

Minus(a, b) == (a + U32 - b) % U32
Plus(a, b) == (a + b) % U32

Init == /\ row = 0 /\ col = 0
        /\ pc = "rest" /\ call = "print_newline" /\ r = 0
        /\ tx = 0 /\ ty = 0
        /\ start = 0 /\ left = 0
        /\ written = {}
        /\ spoiled = FALSE

-----------------------------------------------------------------------------
(* The kinds of access of the main loop.  What has been loaded is used by  *)
(* the next access.                                                        *)

Load(from, v, to) ==
    /\ pc = from /\ pc' = to
    /\ r' = v /\ written' = {}
    /\ UNCHANGED <<row, col, call, locals>>

SetRow(from, v, to) ==
    /\ pc = from /\ pc' = to
    /\ row' = v /\ r' = 0 /\ written' = {}
    /\ UNCHANGED <<col, call, locals>>

SetCol(from, v, to) ==
    /\ pc = from /\ pc' = to
    /\ col' = v /\ r' = 0 /\ written' = {}
    /\ UNCHANGED <<row, call, locals>>

Test(from, condition, yes, no) ==
    /\ pc = from
    /\ pc' = IF condition THEN yes ELSE no
    /\ written' = {}
    /\ UNCHANGED <<row, col, call, r, locals>>

(* Writes the cell that the line in the register and the column name. *)
WriteCell(from, to) ==
    /\ pc = from /\ pc' = to
    /\ written' = {Plus(r, row)} /\ r' = 0
    /\ UNCHANGED <<row, col, call, locals>>

-----------------------------------------------------------------------------
(* The calls, access by access.                                            *)

Entry(c) == CASE c = "print_chr"         -> "chr_line"
              [] c = "print_newline"     -> "newline"
              [] c = "move_cursor_up"    -> "up"
              [] c = "move_cursor_down"  -> "down"
              [] c = "move_cursor_left"  -> "left"
              [] c = "move_cursor_right" -> "right"
              [] c = "print_backspace"   -> "back_line?"
              [] c = "get_cursor_coord"  -> "get_x"
              [] c = "move_cursor_to"    -> "to_line"
              [] c = "print_unum"        -> "unum_row"

Call == /\ pc = "rest"
        /\ \E c \in Calls :
             /\ call' = c /\ pc' = Entry(c)
             /\ left' \in IF c = "print_unum" THEN 1 .. MaxDigits ELSE {0}
        /\ written' = {}
        /\ UNCHANGED <<row, col, r, tx, ty, start>>

print_chr == \/ Load("chr_line", col, "chr_cell")
             \/ WriteCell("chr_cell", "chr_col")
             \/ Load("chr_col", row, "chr_next")
             \/ SetRow("chr_next", Plus(r, 1), "chr_end?")
             \/ Test("chr_end?", row >= VIDEO_ROW_LEN, "newline", "scroll?")

(* print_newline, which is also what print_chr does at the end of a row. *)
print_newline == \/ SetRow("newline", 0, "newline_line")
                 \/ Load("newline_line", col, "newline_next")
                 \/ SetCol("newline_next", Plus(r, VIDEO_ROW_LEN), "scroll?")

\* Faulty variants, here and below, are in no specification: a run that put
\* one in the place of its original must fail.
\* Faulty: the page is scrolled one line too late.
scroll_late == \/ Test("scroll?", col > Page, "scroll", "rest")
               \/ SetRow("scroll", 0, "scroll_line")
               \/ SetCol("scroll_line", LastLine, "rest")

scroll_up == \/ Test("scroll?", col >= Page, "scroll", "rest")
             \/ SetRow("scroll", 0, "scroll_line")
             \/ SetCol("scroll_line", LastLine, "rest")

move_cursor_right ==
    \/ Test("right", row >= VIDEO_ROW_LEN - 1, "right_end", "right_col")
    \/ SetRow("right_end", 0, "down")
    \/ Load("right_col", row, "right_next")
    \/ SetRow("right_next", Plus(r, 1), "rest")

move_cursor_left ==
    \/ Test("left", row = 0, "left_end", "left_col")
    \/ SetRow("left_end", VIDEO_ROW_LEN - 1, "up")
    \/ Load("left_col", row, "left_next")
    \/ SetRow("left_next", Minus(r, 1), "rest")

move_cursor_up ==
    \/ Test("up", col < VIDEO_ROW_LEN, "up_end", "up_line")
    \/ SetCol("up_end", LastLine, "rest")
    \/ Load("up_line", col, "up_next")
    \/ SetCol("up_next", Minus(r, VIDEO_ROW_LEN), "rest")

move_cursor_down ==
    \/ Test("down", col >= LastLine, "down_end", "down_line")
    \/ SetCol("down_end", 0, "rest")
    \/ Load("down_line", col, "down_next")
    \/ SetCol("down_next", Plus(r, VIDEO_ROW_LEN), "rest")

\* Faulty: the first line is not looked out for.
backspace_without_start ==
    \/ Test("back_line?", TRUE, "back?", "back?")
    \/ Test("back?", row = 0, "back_line", "back_col")
    \/ Load("back_line", col, "back_up")
    \/ SetCol("back_up", Minus(r, VIDEO_ROW_LEN), "back_end")
    \/ SetRow("back_end", VIDEO_ROW_LEN - 1, "back_cell")
    \/ Load("back_col", row, "back_next")
    \/ SetRow("back_next", Minus(r, 1), "back_cell")
    \/ Load("back_cell", col, "back_write")
    \/ WriteCell("back_write", "rest")

print_backspace ==
    \/ Test("back_line?", col = 0, "back_start?", "back?")
    \/ Test("back_start?", row = 0, "rest", "back?")
    \/ Test("back?", row = 0, "back_line", "back_col")
    \/ Load("back_line", col, "back_up")
    \/ SetCol("back_up", Minus(r, VIDEO_ROW_LEN), "back_end")
    \/ SetRow("back_end", VIDEO_ROW_LEN - 1, "back_cell")
    \/ Load("back_col", row, "back_next")
    \/ SetRow("back_next", Minus(r, 1), "back_cell")
    \/ Load("back_cell", col, "back_write")
    \/ WriteCell("back_write", "rest")

(* The coordinates are of type u8. *)
get_cursor_coord ==
    \/ /\ pc = "get_x" /\ pc' = "get_y"
       /\ tx' = row % U8 /\ written' = {}
       /\ UNCHANGED <<row, col, call, r, ty, start, left>>
    \/ /\ pc = "get_y" /\ pc' = "rest"
       /\ ty' = (col \div VIDEO_ROW_LEN) % U8 /\ written' = {}
       /\ UNCHANGED <<row, col, call, r, tx, start, left>>

move_cursor_to == \/ SetCol("to_line", VIDEO_ROW_LEN * ty, "to_col")
                  \/ SetRow("to_col", tx, "rest")

(* print_unum computes once where the number begins, and then prints it    *)
(* from its last digit to its first, each at its place behind `start',     *)
(* while the cursor goes from left to right.                               *)
print_unum ==
    \/ Load("unum_row", row, "unum_col")
    \/ /\ pc = "unum_col" /\ pc' = "digit"
       /\ start' = Plus(r, col) /\ r' = 0 /\ written' = {}
       /\ UNCHANGED <<row, col, call, tx, ty, left>>

\* Faulty: `len' is not corrected.
digit_one_too_far ==
    /\ pc = "digit" /\ pc' = "digit_col"
    /\ written' = {Plus(start, left)}
    /\ left' = left - 1
    /\ UNCHANGED <<row, col, call, r, tx, ty, start>>

PrintDigit ==
    /\ pc = "digit" /\ pc' = "digit_col"
    /\ written' = {Plus(start, left - 1)}
    /\ left' = left - 1
    /\ UNCHANGED <<row, col, call, r, tx, ty, start>>

(* On with the next digit, or the number is finished. *)
NextDigit(at) == IF left > 0 THEN pc' = "digit" /\ start' = at
                             ELSE pc' = "rest" /\ start' = 0

AfterDigit ==
    \/ Load("digit_col", row, "digit_next")
    \/ SetRow("digit_next", Plus(r, 1), "digit_end?")
    \/ Test("digit_end?", row >= VIDEO_ROW_LEN, "digit_wrap", "digit_scroll?")
    \/ SetRow("digit_wrap", 0, "digit_line")
    \/ Load("digit_line", col, "digit_down")
    \/ SetCol("digit_down", Plus(r, VIDEO_ROW_LEN), "digit_scroll?")
    \/ /\ pc = "digit_scroll?"
       /\ IF col >= Page THEN pc' = "digit_scroll" /\ UNCHANGED start
                         ELSE NextDigit(start)
       /\ written' = {}
       /\ UNCHANGED <<row, col, call, r, tx, ty, left>>
    \/ SetRow("digit_scroll", 0, "digit_scroll_line")
    \/ SetCol("digit_scroll_line", LastLine, "digit_back")
    \/ /\ pc = "digit_back"
       /\ NextDigit(Minus(start, VIDEO_ROW_LEN))
       /\ written' = {}
       /\ UNCHANGED <<row, col, call, r, tx, ty, left>>

MainStep == \/ Call
            \/ print_chr \/ print_newline \/ scroll_up
            \/ move_cursor_right \/ move_cursor_left
            \/ move_cursor_up \/ move_cursor_down
            \/ print_backspace
            \/ get_cursor_coord \/ move_cursor_to
            \/ print_unum \/ PrintDigit \/ AfterDigit

-----------------------------------------------------------------------------
(* The interrupt prints Burst characters, wherever it finds the cursor.    *)

(* print_chr run to its end on the cursor c = [row, col]. *)
Printed(c) ==
    LET next == Plus(c.row, 1)
        wrapped == IF next >= VIDEO_ROW_LEN
                     THEN [row |-> 0, col |-> Plus(c.col, VIDEO_ROW_LEN)]
                     ELSE [row |-> next, col |-> c.col]
    IN  IF wrapped.col >= Page THEN [row |-> 0, col |-> LastLine] ELSE wrapped

(* Where the cursor is before each character and after the last. *)
Cursors(c) ==
    LET cursor[i \in 0 .. Burst] == IF i = 0 THEN c ELSE Printed(cursor[i - 1])
    IN  cursor

Interrupt ==
    LET cursor == Cursors([row |-> row, col |-> col])
    IN  /\ row' = cursor[Burst].row
        /\ col' = cursor[Burst].col
        /\ written' = {Plus(cursor[i].col, cursor[i].row) : i \in 0 .. Burst - 1}
        /\ UNCHANGED <<pc, call, r, locals>>

OnPage == /\ row < VIDEO_ROW_LEN
          /\ col <= LastLine
          /\ col % VIDEO_ROW_LEN = 0

(* The windows in which the interrupt can drive the cursor off the page:   *)
(* the main loop has just moved it over the end of a row or of the page    *)
(* and not yet wrapped it, or it has tested that there is a next column or *)
(* line to go to and not yet read where it is.                             *)
Windows == {"right_col", "left_col", "down_line", "back_col"}

Harmless == OnPage /\ pc \notin Windows

Next == \/ MainStep /\ UNCHANGED spoiled
        \/ Interrupt /\ spoiled' = (spoiled \/ ~Harmless)

Spec == Init /\ [][Next]_vars

-----------------------------------------------------------------------------
(* Properties.                                                             *)

(* As long as every interrupt has spared the windows, the cursor is on the *)
(* page when a call is over, although the interrupt prints between a test  *)
(* and what it guards, and between the load and the store of an addition.  *)
RestOnPage == ~spoiled /\ pc = "rest" => OnPage

(* Until then every character goes to a cell of the page, also in the      *)
(* middle of a call (print_utils.c:59, 114), but for the digits of a       *)
(* number, whose places were computed before the interrupt moved the page. *)
(* One can be behind the page by the length of the number, or, as `start'  *)
(* is moved for every line that scrolls under the cursor, as many rows     *)
(* before the page as the number has other digits (print_utils.c:134, 146).*)
WritesOnPage ==
    ~spoiled => \A cell \in written :
        \/ cell < Page
        \/ /\ pc = "digit_col"
           /\ \/ cell < Page + MaxDigits - 1
              \/ cell >= U32 - VIDEO_ROW_LEN * (MaxDigits - 1)

(* Wherever interrupts fall, the line never wraps below zero               *)
(* (print_utils.c:94, 108): an interrupt between the test and the          *)
(* subtraction moves the cursor forward only.                              *)
LineStaysNear == col <= Page + VIDEO_ROW_LEN /\ col % VIDEO_ROW_LEN = 0

(* Whatever the cursor keys have left behind, the end of a call that       *)
(* prints a character, a number or a new line finds the cursor on the page.*)
PrintingMends ==
    [][pc # "rest" /\ pc' = "rest" /\ call \in {"print_chr", "print_newline", "print_unum"}
         => OnPage']_vars
=============================================================================
