------------------------------ MODULE Terminal ------------------------------
(***************************************************************************)
(* What the console of kernel/print_utils.c promises: a page of Rows lines *)
(* of Cols characters with a cursor.  Text is written at the cursor, wraps *)
(* at the end of a line and scrolls the page at its end; the arrow keys    *)
(* move the cursor around a page without borders.                          *)
(***************************************************************************)
EXTENDS Integers, Sequences

CONSTANTS Rows, Cols,  \* the size of the page
          Chars,       \* the characters that can be shown
          Blank,       \* an empty cell
          Numbers      \* the numbers that are printed, as strings of digits

VARIABLES page,        \* page[y][x] is the cell of line y, column x
          x, y         \* the cursor

vars == <<page, x, y>>

-----------------------------------------------------------------------------
(* The operations, on a page with a cursor p = [page, x, y].               *)

Cleared == [i \in 0 .. Cols - 1 |-> Blank]

Go(p, column, line) == [page |-> p.page, x |-> column, y |-> line]
Show(p, lines) == [page |-> lines, x |-> p.x, y |-> p.y]
Set(p, c) == Show(p, [p.page EXCEPT ![p.y] = [@ EXCEPT ![p.x] = c]])

Down(p) ==
    IF p.y < Rows - 1
      THEN Go(p, p.x, p.y + 1)
      ELSE Show(p, [l \in 0 .. Rows - 1 |-> IF l = Rows - 1 THEN Cleared
                                                           ELSE p.page[l + 1]])

NewLine(p) == Down(Go(p, 0, p.y))

Put(p, c) == IF p.x < Cols - 1 THEN Go(Set(p, c), p.x + 1, p.y)
                               ELSE NewLine(Set(p, c))

Text(p, s) == LET written[n \in 0 .. Len(s)] ==
                    IF n = 0 THEN p ELSE Put(written[n - 1], s[n])
              IN  written[Len(s)]

(* The end of a number that runs over the end of the page is not shown:    *)
(* as many digits as still fitted on the page, counted from the last, or   *)
(* those that did not fit, if they are fewer.                              *)
Shown(p, s) ==
    LET room == Cols - p.x
        over == Len(s) - room
        lost == IF p.y < Rows - 1 \/ over <= 0 THEN 0
                ELSE IF over < room THEN over ELSE room
    IN  [i \in 1 .. Len(s) |-> IF i > Len(s) - lost THEN Blank ELSE s[i]]

Erase(p) ==
    CASE p.x > 0             -> Set(Go(p, p.x - 1, p.y), Blank)
      [] p.x = 0 /\ p.y > 0  -> Set(Go(p, Cols - 1, p.y - 1), Blank)
      [] p.x = 0 /\ p.y = 0  -> p

MoveDown(p) == Go(p, p.x, (p.y + 1) % Rows)
MoveUp(p) == Go(p, p.x, (p.y + Rows - 1) % Rows)

MoveRight(p) == IF p.x = Cols - 1 THEN MoveDown(Go(p, 0, p.y))
                                  ELSE Go(p, p.x + 1, p.y)

MoveLeft(p) == IF p.x = 0 THEN MoveUp(Go(p, Cols - 1, p.y))
                          ELSE Go(p, p.x - 1, p.y)

(* A new line, which is cleared before anything is written on it. *)
StatusLine(p) ==
    LET q == NewLine(p)
    IN  Show(q, [q.page EXCEPT ![q.y] = Cleared])

-----------------------------------------------------------------------------
BlankPage == [l \in 0 .. Rows - 1 |-> Cleared]

Init == page = BlankPage /\ x = 0 /\ y = 0

Becomes(p) == page' = p.page /\ x' = p.x /\ y' = p.y

Now == [page |-> page, x |-> x, y |-> y]

Next == \/ \E c \in Chars : Becomes(Put(Now, c))
        \/ \E s \in Numbers : Becomes(Text(Now, Shown(Now, s)))
        \/ Becomes(NewLine(Now))
        \/ Becomes(Erase(Now))
        \/ Becomes(MoveLeft(Now))
        \/ Becomes(MoveRight(Now))
        \/ Becomes(MoveUp(Now))
        \/ Becomes(MoveDown(Now))
        \/ Becomes(StatusLine(Now))
        \/ \E cx \in 0 .. Cols - 1, cy \in 0 .. Rows - 1 :
             Becomes(Go(Now, cx, cy))

Spec == Init /\ [][Next]_vars
=============================================================================
