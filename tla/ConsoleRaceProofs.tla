------------------------- MODULE ConsoleRaceProofs --------------------------
(***************************************************************************)
(* Theorems about ConsoleRace, for a page of any size and an interrupt     *)
(* that prints any number of characters from two on.                       *)
(*                                                                         *)
(* The invariant gives, for every access of the main loop, what is known   *)
(* of the cursor and of the register before it.  Its parts LinesOK and     *)
(* RowsOK hold wherever interrupts fall, SparedOK as long as they spare    *)
(* the windows.                                                            *)
(***************************************************************************)
EXTENDS ConsoleRace, WellFoundedInduction, TLAPS

U32Type == 0 .. U32 - 1

(* Where lines start, with the two that only a pending scroll allows. *)
Lines == {VIDEO_ROW_LEN * k : k \in 0 .. VIDEO_COL_LEN + 1}

(* How far `start' is moved when k lines scroll. *)
Rows(k) == VIDEO_ROW_LEN * k

(* The accesses. *)
Scrolls == {"scroll?", "scroll", "scroll_line",
            "digit_scroll?", "digit_scroll", "digit_scroll_line"}
NewLines == {"newline_line", "newline_next", "digit_line", "digit_down"}
Overflown == {"chr_end?", "newline", "digit_end?", "digit_wrap"}
DigitDone == {"digit_col", "digit_next", "digit_end?", "digit_wrap",
              "digit_line", "digit_down", "digit_scroll?", "digit_scroll",
              "digit_scroll_line", "digit_back"}
Moves == {"up", "up_end", "up_line", "up_next",
          "down", "down_end", "down_line", "down_next",
          "left", "left_end", "left_col", "left_next",
          "right", "right_end", "right_col", "right_next",
          "back_line?", "back_start?", "back?", "back_line", "back_up",
          "back_end", "back_col", "back_next", "back_cell", "back_write",
          "get_x", "get_y", "to_line", "to_col"}

RaceTypeOK == /\ row \in U32Type /\ r \in U32Type /\ start \in U32Type
              /\ col \in Lines
              /\ tx \in 0 .. U8 - 1 /\ ty \in 0 .. VIDEO_COL_LEN
              /\ left \in 0 .. MaxDigits
              /\ pc \in {"unum_row", "unum_col", "digit"} => left > 0
              /\ pc \in DigitDone => left < MaxDigits
              /\ spoiled \in BOOLEAN

(* The line is on the page or a scroll is due, and there is a line above   *)
(* where one is gone to, and below.                                        *)
LinesOK ==
    /\ pc \notin Scrolls => col <= Page
    /\ pc \in {"newline_next", "digit_down", "up_next", "down_next", "back_up"}
         => r \in Lines /\ r <= Page
    /\ pc \in {"down_line", "digit_back"} => col <= LastLine
    /\ pc = "down_next" => r <= LastLine
    /\ pc \in {"up_line", "back_line"} => VIDEO_ROW_LEN <= col
    /\ pc \in {"up_next", "back_up"} => VIDEO_ROW_LEN <= r
    /\ pc = "back?" => VIDEO_ROW_LEN <= col \/ row # 0

(* What prints has wrapped the row before it looks at the line. *)
RowsOK == /\ pc \in Scrolls \cup NewLines \cup {"digit_back"} => row < VIDEO_ROW_LEN
          /\ pc \in Moves => call \notin {"print_chr", "print_newline", "print_unum"}

(* Where the number starts: on the page, or as many rows before it as *)
(* lines have scrolled.                                               *)
StartNear(lines) == start < Page \/ U32 - Rows(lines) <= start

(* The cursor and the register while no interrupt has come in a window. *)
SparedCursor ==
    /\ tx < VIDEO_ROW_LEN /\ ty < VIDEO_COL_LEN
    /\ pc \notin Scrolls => col <= LastLine
    /\ pc \in Scrolls => col <= Page
    /\ pc \notin Overflown => row < VIDEO_ROW_LEN
    /\ pc \in Overflown => row <= VIDEO_ROW_LEN
    /\ pc = "right_col" => row < VIDEO_ROW_LEN - 1
    /\ pc \in {"left_col", "back_col"} => row # 0
    /\ pc = "down_line" => col < LastLine
SparedRegister ==
    /\ pc \in {"chr_cell", "back_write", "newline_next", "digit_down",
               "up_next", "back_up"} => r <= LastLine
    /\ pc = "down_next" => r < LastLine
    /\ pc \in {"chr_next", "digit_next", "unum_col"} => r < VIDEO_ROW_LEN
    /\ pc = "right_next" => r < VIDEO_ROW_LEN - 1
    /\ pc \in {"left_next", "back_next"} => r \in 1 .. VIDEO_ROW_LEN - 1
    /\ pc = "digit" => StartNear(MaxDigits - left)
    /\ pc \in DigitDone => StartNear(MaxDigits - left - 1)
SparedOK == ~spoiled => SparedCursor /\ SparedRegister

RaceInv == RaceTypeOK /\ LinesOK /\ RowsOK /\ SparedOK /\ WritesOnPage

-----------------------------------------------------------------------------
(* Offsets.                                                                *)

(* The page has two lines or more, and offsets count far beyond it. *)
LEMMA PageFacts ==
    /\ VIDEO_ROW_LEN \in Nat /\ VIDEO_ROW_LEN > 1
    /\ Page \in Nat /\ LastLine \in Nat /\ U32 \in Nat
    /\ LastLine + VIDEO_ROW_LEN = Page /\ VIDEO_ROW_LEN <= LastLine
    /\ Page + VIDEO_ROW_LEN + VIDEO_ROW_LEN < U32
    /\ MaxDigits \in 1 .. VIDEO_ROW_LEN /\ Rows(MaxDigits) < U32
  <1> DEFINE L == VIDEO_ROW_LEN
             N == VIDEO_COL_LEN
  <1>1. L \in Nat /\ N \in Nat /\ L > 1 /\ N > 1 /\ U8 \in Nat /\ U32 \in Nat
        /\ MaxDigits \in 1 .. L /\ N + 1 <= U8
    BY RaceAssumption
  <1>2. U32 > L * (U8 + MaxDigits)
    BY RaceAssumption
  <1> HIDE DEF L, N
  <1>3. L * (N - 1) \in Nat /\ L * N \in Nat /\ L * (N - 1) + L = L * N
    BY <1>1
  <1>4. L <= L * (N - 1)
    BY <1>1
  <1>5. L * (N + 2) <= L * (U8 + MaxDigits) /\ L * (N + 2) = L * N + L + L
    BY <1>1
  <1>6. L * MaxDigits <= L * (U8 + MaxDigits) /\ L * (U8 + MaxDigits) \in Nat
        /\ L * MaxDigits \in Nat
    BY <1>1
  <1> QED
    BY <1>1, <1>2, <1>3, <1>4, <1>5, <1>6 DEF L, N, Page, LastLine, Rows

(* The lines follow each other at VIDEO_ROW_LEN cells. *)
LEMMA LineFacts ==
    /\ 0 \in Lines /\ LastLine \in Lines
    /\ \A x \in Lines :
         /\ x \in Nat /\ x <= Page + VIDEO_ROW_LEN /\ x % VIDEO_ROW_LEN = 0
         /\ x <= Page => x + VIDEO_ROW_LEN \in Lines
         /\ x = 0 \/ VIDEO_ROW_LEN <= x
         /\ VIDEO_ROW_LEN <= x => x - VIDEO_ROW_LEN \in Lines
         /\ x < Page => x <= LastLine
         /\ x < LastLine => x + VIDEO_ROW_LEN <= LastLine
  <1> DEFINE L == VIDEO_ROW_LEN
             N == VIDEO_COL_LEN
  <1>1. L \in Nat /\ N \in Nat /\ L > 1 /\ N > 1
    BY RaceAssumption
  <1>2. Lines = {L * k : k \in 0 .. N + 1} /\ Page = L * N /\ LastLine = L * (N - 1)
    BY DEF Lines, Page, LastLine
  <1> HIDE DEF L, N
  <1>3. ASSUME NEW j \in Nat, NEW k \in Nat, j < k
        PROVE  L * j + L <= L * k
    <2>1. L * k = L * j + L * (k - j) /\ L * (k - j) >= L
      BY <1>1, <1>3
    <2> QED
      BY <2>1, <1>1, <1>3
  <1>4. 0 \in Lines /\ LastLine \in Lines
    <2>1. L * 0 = 0 /\ 0 \in 0 .. N + 1 /\ N - 1 \in 0 .. N + 1
      BY <1>1
    <2> QED
      BY <2>1, <1>2
  <1>5. ASSUME NEW x \in Lines
        PROVE  /\ x \in Nat /\ x <= Page + L /\ x % L = 0
               /\ x <= Page => x + L \in Lines
               /\ x = 0 \/ L <= x
               /\ L <= x => x - L \in Lines
               /\ x < Page => x <= LastLine
               /\ x < LastLine => x + L <= LastLine
    <2>1. PICK k \in 0 .. N + 1 : x = L * k
      BY <1>2
    <2>2. /\ k \in Nat /\ x \in Nat /\ L * (k + 1) = x + L /\ L * (k - 1) = x - L
          /\ L * 0 = 0 /\ L * (N + 1) = L * N + L /\ L * (N - 1) = L * N - L
          /\ L * N \in Nat
      BY <1>1, <2>1
    <2>3. x % L = 0
      BY <1>1, <2>1, <2>2
    <2>4. k < N + 1 => x + L <= Page + L
      BY <1>1, <1>2, <1>3, <2>1, <2>2
    <2>5. k > N => L * N + L <= x
      BY <1>1, <1>3, <2>1, <2>2
    <2>6. k > 0 => L <= x
      BY <1>1, <1>3, <2>1, <2>2
    <2>7. k < N => x <= LastLine
      BY <1>1, <1>2, <1>3, <2>1, <2>2
    <2>8. k >= N => x >= Page
      BY <1>1, <1>2, <1>3, <2>1, <2>2
    <2>9. k < N - 1 => x + L <= LastLine
      BY <1>1, <1>2, <1>3, <2>1, <2>2
    <2>10. k >= N - 1 => x >= LastLine
      BY <1>1, <1>2, <1>3, <2>1, <2>2
    <2>11. k + 1 \in 0 .. N + 1 => x + L \in Lines
      BY <1>2, <2>2
    <2>12. k - 1 \in 0 .. N + 1 => x - L \in Lines
      BY <1>2, <2>2
    <2>13. x <= Page + L
      BY <1>1, <1>2, <2>1, <2>2, <2>4
    <2>14. x <= Page => k + 1 \in 0 .. N + 1
      BY <1>1, <1>2, <2>1, <2>2, <2>5
    <2>15. L <= x => k - 1 \in 0 .. N + 1
      BY <1>1, <2>1, <2>2
    <2>16. x = 0 \/ L <= x
      BY <1>1, <2>1, <2>2, <2>6
    <2>17. x < Page => x <= LastLine
      BY <1>1, <1>2, <2>1, <2>2, <2>7, <2>8
    <2>18. x < LastLine => x + L <= LastLine
      BY <1>1, <1>2, <2>1, <2>2, <2>9, <2>10
    <2> QED
      BY <2>2, <2>3, <2>11, <2>12, <2>13, <2>14, <2>15, <2>16, <2>17, <2>18
  <1> QED
    BY <1>4, <1>5 DEF L

(* The two conversions between lines and the coordinate y. *)
LEMMA CoordinateFacts ==
    /\ \A x \in Lines : x <= Page => (x \div VIDEO_ROW_LEN) % U8 \in 0 .. VIDEO_COL_LEN
    /\ \A x \in Lines : x <= LastLine => (x \div VIDEO_ROW_LEN) % U8 < VIDEO_COL_LEN
    /\ \A y \in 0 .. VIDEO_COL_LEN : /\ VIDEO_ROW_LEN * y \in Lines
                                     /\ VIDEO_ROW_LEN * y <= Page
                                     /\ y < VIDEO_COL_LEN => VIDEO_ROW_LEN * y <= LastLine
  <1> DEFINE L == VIDEO_ROW_LEN
             N == VIDEO_COL_LEN
  <1>1. L \in Nat /\ N \in Nat /\ L > 1 /\ N > 1 /\ U8 \in Nat /\ N < U8
    BY RaceAssumption
  <1>2. Lines = {L * k : k \in 0 .. N + 1} /\ Page = L * N /\ LastLine = L * (N - 1)
    BY DEF Lines, Page, LastLine
  <1> HIDE DEF L, N
  <1>3. ASSUME NEW j \in Nat, NEW k \in Nat, j < k
        PROVE  L * j < L * k
    <2>1. L * k = L * j + L * (k - j) /\ L * (k - j) >= L
      BY <1>1, <1>3
    <2> QED
      BY <2>1, <1>1, <1>3
  <1>4. ASSUME NEW k \in 0 .. N + 1
        PROVE  /\ (L * k) \div L = k
               /\ L * k <= Page => k <= N
               /\ L * k <= LastLine => k < N
    <2>1. (L * k) \div L = k
      BY <1>1
    <2>2. N \in Nat /\ N - 1 \in Nat /\ k \in Nat /\ L * k \in Nat /\ L * N \in Nat
          /\ L * (N - 1) \in Nat
      BY <1>1
    <2>3. L * k <= Page => ~ (N < k)
      BY <1>1, <1>2, <1>3, <2>2
    <2>4. L * k <= LastLine => ~ (N - 1 < k)
      BY <1>1, <1>2, <1>3, <2>2
    <2> QED
      BY <2>1, <2>2, <2>3, <2>4
  <1>5. ASSUME NEW x \in Lines
        PROVE  /\ x <= Page => (x \div L) % U8 \in 0 .. N
               /\ x <= LastLine => (x \div L) % U8 < N
    <2>1. PICK k \in 0 .. N + 1 : x = L * k
      BY <1>2
    <2>2. k <= N => k % U8 = k
      BY <1>1
    <2> QED
      BY <2>1, <2>2, <1>1, <1>4
  <1>6. ASSUME NEW y \in 0 .. N
        PROVE  L * y \in Lines /\ L * y <= Page /\ (y < N => L * y <= LastLine)
    <2>1. y \in 0 .. N + 1 /\ y \in Nat /\ N - 1 \in Nat
      BY <1>1
    <2>2. y = N \/ L * y < L * N
      BY <1>1, <1>3, <2>1
    <2>3. y < N => y = N - 1 \/ L * y < L * (N - 1)
      BY <1>1, <1>3, <2>1
    <2>4. L * y \in Nat /\ L * N \in Nat /\ L * (N - 1) \in Nat
      BY <1>1, <2>1
    <2> QED
      BY <1>2, <2>1, <2>2, <2>3, <2>4
  <1> QED
    BY <1>5, <1>6 DEF L, N

(* Addition and subtraction of offsets. *)
LEMMA OffsetFacts ==
    ASSUME NEW a \in U32Type, NEW b \in U32Type
    PROVE  /\ Plus(a, b) \in U32Type /\ Minus(a, b) \in U32Type
           /\ a + b < U32 => Plus(a, b) = a + b
           /\ U32 <= a + b => Plus(a, b) = a + b - U32
           /\ b <= a => Minus(a, b) = a - b
           /\ a < b => Minus(a, b) = a + U32 - b
  <1>1. U32 \in Nat /\ a \in Nat /\ b \in Nat /\ a < U32 /\ b < U32
    BY PageFacts DEF U32Type
  <1>2. ASSUME NEW n \in Nat, n < U32
        PROVE  n % U32 = n
    BY <1>1, <1>2
  <1>3. ASSUME NEW n \in Nat, U32 <= n, n < U32 + U32
        PROVE  n % U32 = n - U32
    BY <1>1, <1>3
  <1>4. (a + b < U32 => Plus(a, b) = a + b)
        /\ (U32 <= a + b => Plus(a, b) = a + b - U32)
    BY <1>1, <1>2, <1>3 DEF Plus
  <1>5. (b <= a => Minus(a, b) = a - b) /\ (a < b => Minus(a, b) = a + U32 - b)
    BY <1>1, <1>2, <1>3 DEF Minus
  <1> QED
    BY <1>1, <1>4, <1>5 DEF U32Type

(* Rows are as far apart as lines. *)
LEMMA RowsFacts ==
    ASSUME NEW k \in 1 .. MaxDigits
    PROVE  /\ Rows(k) \in Nat /\ Rows(k - 1) \in Nat
           /\ Rows(k) = Rows(k - 1) + VIDEO_ROW_LEN
           /\ Rows(k) <= Rows(MaxDigits) /\ Rows(k) < U32
  <1>1. VIDEO_ROW_LEN \in Nat /\ MaxDigits \in Nat /\ k \in Nat /\ k - 1 \in Nat
        /\ MaxDigits - k \in Nat
    BY PageFacts
  <1>2. VIDEO_ROW_LEN * MaxDigits
          = VIDEO_ROW_LEN * k + VIDEO_ROW_LEN * (MaxDigits - k)
        /\ VIDEO_ROW_LEN * (MaxDigits - k) \in Nat
        /\ VIDEO_ROW_LEN * k \in Nat /\ VIDEO_ROW_LEN * (k - 1) \in Nat
        /\ VIDEO_ROW_LEN * k = VIDEO_ROW_LEN * (k - 1) + VIDEO_ROW_LEN
    BY <1>1
  <1> QED
    BY <1>1, <1>2, PageFacts DEF Rows

-----------------------------------------------------------------------------
(* The interrupt.                                                          *)

Cursor == [row : U32Type, col : Lines]

(* One character leaves the cursor on the page. *)
LEMMA PrintedFacts ==
    ASSUME NEW c \in Cursor
    PROVE  LET d == Printed(c)
           IN  /\ d \in Cursor
               /\ d.row < VIDEO_ROW_LEN /\ d.col <= LastLine
               /\ VIDEO_ROW_LEN <= c.col => VIDEO_ROW_LEN <= d.col
               /\ VIDEO_ROW_LEN <= d.col \/ c.row + 1 <= d.row \/ c.row = U32 - 1
  <1> DEFINE next == Plus(c.row, 1)
             line == Plus(c.col, VIDEO_ROW_LEN)
             onward == next < VIDEO_ROW_LEN
  <1>1. c.row \in U32Type /\ c.col \in Lines /\ c.row \in Nat /\ c.col \in Nat
    BY LineFacts DEF Cursor, U32Type
  <1>2. 1 \in U32Type /\ VIDEO_ROW_LEN \in U32Type /\ c.col \in U32Type
        /\ 0 \in U32Type
    BY <1>1, PageFacts, LineFacts DEF U32Type
  <1>3. /\ next \in U32Type /\ next \in Nat
        /\ c.row = U32 - 1 \/ next = c.row + 1
    <2>1. next \in U32Type /\ (c.row + 1 < U32 => next = c.row + 1)
      BY <1>1, <1>2, OffsetFacts
    <2> QED
      BY <1>1, <2>1, PageFacts DEF U32Type
  <1>4. /\ line = c.col + VIDEO_ROW_LEN
        /\ c.col <= Page => line \in Lines
        /\ line \in Nat
    <2>1. c.col + VIDEO_ROW_LEN < U32 => line = c.col + VIDEO_ROW_LEN
      BY <1>1, <1>2, OffsetFacts
    <2> QED
      BY <1>1, <2>1, PageFacts, LineFacts
  <1> HIDE DEF next, line
  <1>5. CASE onward /\ c.col < Page
    <2>1. Printed(c) = [row |-> next, col |-> c.col]
      BY <1>1, <1>3, <1>5, PageFacts DEF Printed, next, line
    <2> QED
      BY <2>1, <1>1, <1>3, <1>5, PageFacts, LineFacts DEF Cursor
  <1>6. CASE ~ onward /\ line < Page
    <2>1. Printed(c) = [row |-> 0, col |-> line]
      BY <1>1, <1>3, <1>4, <1>6, PageFacts DEF Printed, next, line
    <2>2. line \in Lines /\ line <= LastLine /\ VIDEO_ROW_LEN <= line
      BY <1>1, <1>4, <1>6, PageFacts, LineFacts
    <2> QED
      BY <2>1, <2>2, <1>2, PageFacts DEF Cursor
  <1>7. CASE \/ onward /\ ~ (c.col < Page)
             \/ ~ onward /\ ~ (line < Page)
    <2>1. Printed(c) = [row |-> 0, col |-> LastLine]
      BY <1>1, <1>3, <1>4, <1>7, PageFacts DEF Printed, next, line
    <2> QED
      BY <2>1, <1>2, PageFacts, LineFacts DEF Cursor
  <1> QED
    BY <1>5, <1>6, <1>7

(* The least of a set of numbers. *)
LEMMA LeastExists ==
    ASSUME NEW S \in SUBSET Nat, S # {}
    PROVE  \E x \in S : \A y \in S : x <= y
  <1>1. PICK x \in S : \A y \in S : <<y, x>> \notin OpToRel(<, Nat)
    BY NatLessThanWellFounded, WFMin
  <1>2. \A y \in S : ~(y < x)
    BY <1>1 DEF OpToRel
  <1> QED
    BY <1>2, SMT

(* A function with the values that the definition of Cursors asks for. *)
IsRun(f, c, n) == /\ f \in [0 .. n -> Cursor]
                  /\ f[0] = c
                  /\ \A i \in 1 .. n : f[i] = Printed(f[i - 1])

(* There is one. *)
LEMMA RunExists ==
    ASSUME NEW c \in Cursor, NEW n \in Nat
    PROVE  \E f : IsRun(f, c, n)
  <1> DEFINE P(m) == \E f : IsRun(f, c, m)
  <1>1. P(0)
    <2>1. IsRun([i \in 0 .. 0 |-> c], c, 0)
      BY DEF IsRun
    <2> QED
      BY <2>1
  <1>2. ASSUME NEW m \in Nat \ {0}, P(m - 1)
        PROVE  P(m)
    <2>1. PICK g : IsRun(g, c, m - 1)
      BY <1>2
    <2>2. m - 1 \in 0 .. m - 1 /\ g[m - 1] \in Cursor
      BY <2>1 DEF IsRun
    <2>3. Printed(g[m - 1]) \in Cursor
      BY <2>2, PrintedFacts
    <2>4. PICK f : f = [i \in 0 .. m |-> IF i = m THEN Printed(g[m - 1]) ELSE g[i]]
      OBVIOUS
    <2>5. \A i \in 0 .. m - 1 : i \in 0 .. m /\ i # m /\ f[i] = g[i]
      BY <2>4
    <2>6. f[m] = Printed(g[m - 1]) /\ f[m - 1] = g[m - 1] /\ f[0] = c
      BY <2>4, <2>5, <2>1 DEF IsRun
    <2>7. f \in [0 .. m -> Cursor]
      BY <2>1, <2>3, <2>4 DEF IsRun
    <2>8. ASSUME NEW i \in 1 .. m
          PROVE  f[i] = Printed(f[i - 1])
      <3>1. CASE i = m
        BY <3>1, <2>6
      <3>2. CASE i # m
        <4>1. i \in 1 .. m - 1 /\ i \in 0 .. m - 1 /\ i - 1 \in 0 .. m - 1
          BY <3>2
        <4> QED
          BY <4>1, <2>1, <2>5 DEF IsRun
      <3> QED
        BY <3>1, <3>2
    <2> QED
      BY <2>6, <2>7, <2>8 DEF IsRun
  <1> DEFINE Bad == {m \in Nat : ~ P(m)}
  <1> HIDE DEF P
  <1>3. ASSUME Bad # {}
        PROVE  FALSE
    <2>1. PICK m \in Bad : \A k \in Bad : m <= k
      BY <1>3, LeastExists
    <2>2. m \in Nat \ {0} /\ ~ P(m)
      BY <2>1, <1>1
    <2>3. m - 1 \in Nat /\ m - 1 \notin Bad
      BY <2>1, <2>2
    <2> QED
      BY <1>2, <2>2, <2>3
  <1>4. P(n)
    BY <1>3
  <1> QED
    BY <1>4 DEF P

(* Cursors is the one. *)
LEMMA CursorsRun ==
    ASSUME NEW c \in Cursor
    PROVE  IsRun(Cursors(c), c, Burst)
  <1>1. Burst \in Nat
    BY RaceAssumption
  <1>2. PICK f : IsRun(f, c, Burst)
    BY <1>1, RunExists
  <1> DEFINE Expand(g) == [i \in 0 .. Burst |-> IF i = 0 THEN c ELSE Printed(g[i - 1])]
  <1>3. f = Expand(f)
    BY <1>1, <1>2 DEF IsRun
  <1>4. Cursors(c) = CHOOSE g : g = Expand(g)
    BY DEF Cursors
  <1> HIDE DEF Expand
  <1>5. Cursors(c) = Expand(Cursors(c))
    BY <1>3, <1>4
  <1> DEFINE g == Cursors(c)
  <1>6. g = [i \in 0 .. Burst |-> IF i = 0 THEN c ELSE Printed(g[i - 1])]
    BY <1>5 DEF Expand
  <1> HIDE DEF g
  <1>7. g[0] = c /\ \A i \in 1 .. Burst : g[i] = Printed(g[i - 1])
    <2>1. \A i \in 0 .. Burst : g[i] = IF i = 0 THEN c ELSE Printed(g[i - 1])
      BY <1>6
    <2> QED
      BY <1>1, <2>1
  <1> DEFINE Bad == {i \in 0 .. Burst : g[i] \notin Cursor}
  <1>8. ASSUME Bad # {}
        PROVE  FALSE
    <2>1. PICK m \in Bad : \A k \in Bad : m <= k
      <3>1. Bad \in SUBSET Nat
        BY <1>1
      <3> QED
        BY <1>8, <3>1, LeastExists
    <2>2. m # 0 /\ m \in 1 .. Burst /\ g[m] \notin Cursor
      BY <1>1, <1>7, <2>1
    <2>3. m - 1 \in 0 .. Burst /\ m - 1 \notin Bad
      BY <1>1, <2>1, <2>2
    <2>4. g[m - 1] \in Cursor /\ g[m] = Printed(g[m - 1])
      BY <1>7, <2>2, <2>3
    <2> QED
      BY <2>2, <2>4, PrintedFacts
  <1>9. g \in [0 .. Burst -> Cursor]
    BY <1>6, <1>8
  <1> QED
    BY <1>7, <1>9 DEF IsRun, g

(* From the first character on the cursor is on the page, no line higher,  *)
(* and, in its first line, no more than one column short of the number of  *)
(* characters: the one is lost where the column was below zero.            *)
LEMMA RunFacts ==
    ASSUME NEW c \in Cursor, NEW f, IsRun(f, c, Burst), NEW n \in 1 .. Burst
    PROVE  /\ f[n] \in Cursor
           /\ f[n].row < VIDEO_ROW_LEN /\ f[n].col <= LastLine
           /\ VIDEO_ROW_LEN <= c.col => VIDEO_ROW_LEN <= f[n].col
           /\ VIDEO_ROW_LEN <= f[n].col \/ n - 1 <= f[n].row
  <1> DEFINE Good(i) == /\ f[i].row < VIDEO_ROW_LEN /\ f[i].col <= LastLine
                        /\ VIDEO_ROW_LEN <= c.col => VIDEO_ROW_LEN <= f[i].col
                        /\ VIDEO_ROW_LEN <= f[i].col \/ i - 1 <= f[i].row
             Bad == {i \in 1 .. Burst : ~ Good(i)}
  <1>1. Burst \in Nat
    BY RaceAssumption
  <1>2. ASSUME NEW i \in 1 .. Burst
        PROVE  /\ f[i - 1] \in Cursor /\ f[i] \in Cursor /\ f[i] = Printed(f[i - 1])
               /\ f[i - 1].row \in Nat /\ f[i - 1].col \in Nat
               /\ f[i].row \in Nat /\ f[i].col \in Nat
               /\ f[i].row < VIDEO_ROW_LEN /\ f[i].col <= LastLine
               /\ VIDEO_ROW_LEN <= f[i - 1].col => VIDEO_ROW_LEN <= f[i].col
               /\ \/ VIDEO_ROW_LEN <= f[i].col
                  \/ f[i - 1].row + 1 <= f[i].row
                  \/ f[i - 1].row = U32 - 1
    <2>1. i - 1 \in 0 .. Burst /\ i \in 0 .. Burst
      BY <1>1
    <2>2. f[i - 1] \in Cursor /\ f[i] \in Cursor /\ f[i] = Printed(f[i - 1])
      BY <2>1 DEF IsRun
    <2>3. \A d \in Cursor : d.row \in Nat /\ d.col \in Nat
      BY LineFacts DEF Cursor, U32Type
    <2> QED
      BY <2>2, <2>3, PrintedFacts
  <1>3. ASSUME Bad # {}
        PROVE  FALSE
    <2>1. PICK m \in Bad : \A k \in Bad : m <= k
      <3>1. Bad \in SUBSET Nat
        BY <1>1
      <3> HIDE DEF Bad
      <3> QED
        BY <1>3, <3>1, LeastExists
    <2>2. m \in 1 .. Burst /\ ~ Good(m)
      BY <2>1
    <2>3. m # 1
      <3>1. ASSUME m = 1
            PROVE  FALSE
        <4>1. f[m - 1] = c
          BY <3>1 DEF IsRun
        <4> QED
          BY <2>2, <3>1, <4>1, <1>2
      <3> QED
        BY <3>1
    <2>4. m - 1 \in 1 .. Burst /\ m - 1 \notin Bad
      BY <1>1, <2>1, <2>2, <2>3
    <2>5. Good(m - 1)
      BY <2>4
    <2>6. f[m - 1].row # U32 - 1
      BY <2>5, <1>2, <2>2, PageFacts
    <2> QED
      BY <2>2, <2>5, <2>6, <1>2, <1>1
  <1>4. f[n] \in Cursor
    BY <1>2
  <1> QED
    BY <1>3, <1>4

(* What the interrupt does to the cursor. *)
LEMMA InterruptFacts ==
    ASSUME row \in U32Type, col \in Lines, Interrupt
    PROVE  /\ row' \in U32Type /\ row' < VIDEO_ROW_LEN
           /\ col' \in Lines /\ col' <= LastLine
           /\ VIDEO_ROW_LEN <= col => VIDEO_ROW_LEN <= col'
           /\ VIDEO_ROW_LEN <= col' \/ row' # 0
           /\ OnPage => \A cell \in written' : cell < Page
  <1> DEFINE c == [row |-> row, col |-> col]
  <1>1. Burst \in Nat /\ Burst > 1 /\ Burst \in 1 .. Burst
    BY RaceAssumption
  <1>2. c \in Cursor
    BY DEF Cursor
  <1>3. PICK f : f = Cursors(c) /\ IsRun(f, c, Burst)
    BY <1>2, CursorsRun
  <1>4. /\ row' = f[Burst].row /\ col' = f[Burst].col
        /\ written' = {Plus(f[i].col, f[i].row) : i \in 0 .. Burst - 1}
    BY <1>3 DEF Interrupt
  <1>5. c.row = row /\ c.col = col
    OBVIOUS
  <1> HIDE DEF c
  <1>6. ASSUME NEW i \in 1 .. Burst
        PROVE  /\ f[i] \in Cursor
               /\ f[i].row < VIDEO_ROW_LEN /\ f[i].col <= LastLine
               /\ VIDEO_ROW_LEN <= c.col => VIDEO_ROW_LEN <= f[i].col
               /\ VIDEO_ROW_LEN <= f[i].col \/ i - 1 <= f[i].row
    BY <1>2, <1>3, RunFacts
  <1>7. \A d \in Cursor : d.row \in U32Type /\ d.row \in Nat /\ d.col \in Lines
                         /\ d.col \in Nat
    BY LineFacts DEF Cursor, U32Type
  <1>8. /\ f[Burst] \in Cursor
        /\ f[Burst].row < VIDEO_ROW_LEN /\ f[Burst].col <= LastLine
        /\ VIDEO_ROW_LEN <= c.col => VIDEO_ROW_LEN <= f[Burst].col
        /\ VIDEO_ROW_LEN <= f[Burst].col \/ Burst - 1 <= f[Burst].row
    BY <1>1, <1>6
  <1>9. ASSUME OnPage, NEW cell \in written'
        PROVE  cell < Page
    <2>1. PICK i \in 0 .. Burst - 1 : cell = Plus(f[i].col, f[i].row)
      BY <1>4
    <2>2. f[i] \in Cursor /\ f[i].row < VIDEO_ROW_LEN /\ f[i].col <= LastLine
      <3>1. CASE i = 0
        BY <3>1, <1>2, <1>3, <1>5, <1>9 DEF IsRun, OnPage
      <3>2. CASE i # 0
        <4>1. i \in 1 .. Burst
          BY <3>2, <1>1
        <4> QED
          BY <4>1, <1>6
      <3> QED
        BY <3>1, <3>2
    <2>3. f[i].row \in U32Type /\ f[i].row \in Nat /\ f[i].col \in Nat
      BY <2>2, <1>7
    <2>4. f[i].col + f[i].row < Page
      BY <2>2, <2>3, PageFacts
    <2>5. f[i].col \in U32Type /\ f[i].col + f[i].row < U32
      BY <2>2, <2>3, <2>4, PageFacts DEF U32Type
    <2> QED
      BY <2>1, <2>3, <2>4, <2>5, OffsetFacts
  <1> QED
    BY <1>1, <1>4, <1>5, <1>7, <1>8, <1>9

-----------------------------------------------------------------------------
(* The main loop.                                                          *)

(* What its additions and subtractions give. *)
LEMMA StepFacts ==
    /\ 0 \in U32Type /\ VIDEO_ROW_LEN - 1 \in U32Type
    /\ \A x \in U32Type :
         /\ x \in Nat /\ x < U32
         /\ Plus(x, 1) \in U32Type /\ Minus(x, 1) \in U32Type
         /\ x < VIDEO_ROW_LEN => Plus(x, 1) = x + 1
         /\ x # 0 => Minus(x, 1) = x - 1
    /\ \A x, y \in U32Type :
         /\ Plus(x, y) \in U32Type
         /\ x <= LastLine /\ y < VIDEO_ROW_LEN => Plus(x, y) = x + y /\ Plus(x, y) < Page
    /\ \A x \in Lines :
         /\ x \in U32Type
         /\ x <= Page => /\ Plus(x, VIDEO_ROW_LEN) \in Lines
                         /\ Plus(x, VIDEO_ROW_LEN) = x + VIDEO_ROW_LEN
         /\ VIDEO_ROW_LEN <= x => /\ Minus(x, VIDEO_ROW_LEN) \in Lines
                                  /\ Minus(x, VIDEO_ROW_LEN) = x - VIDEO_ROW_LEN
  <1>1. ASSUME NEW x \in U32Type
        PROVE  x \in Nat /\ x < U32
    BY PageFacts DEF U32Type
  <1>2. ASSUME NEW x \in Nat, x < U32
        PROVE  x \in U32Type
    BY <1>2, PageFacts DEF U32Type
  <1>3. 0 \in U32Type /\ 1 \in U32Type /\ VIDEO_ROW_LEN \in U32Type
        /\ VIDEO_ROW_LEN - 1 \in U32Type
    BY <1>2, PageFacts
  <1>4. ASSUME NEW x \in U32Type, NEW y \in U32Type
        PROVE  /\ Plus(x, y) \in U32Type
               /\ x <= LastLine /\ y < VIDEO_ROW_LEN
                    => Plus(x, y) = x + y /\ Plus(x, y) < Page
    <2>1. Plus(x, y) \in U32Type /\ (x + y < U32 => Plus(x, y) = x + y)
      BY OffsetFacts
    <2> QED
      BY <1>1, <2>1, PageFacts
  <1>5. ASSUME NEW x \in U32Type
        PROVE  /\ Plus(x, 1) \in U32Type /\ Minus(x, 1) \in U32Type
               /\ x < VIDEO_ROW_LEN => Plus(x, 1) = x + 1
               /\ x # 0 => Minus(x, 1) = x - 1
    <2>1. /\ Plus(x, 1) \in U32Type /\ Minus(x, 1) \in U32Type
          /\ x + 1 < U32 => Plus(x, 1) = x + 1
          /\ 1 <= x => Minus(x, 1) = x - 1
      BY <1>3, OffsetFacts
    <2> QED
      BY <1>1, <2>1, PageFacts
  <1>6. ASSUME NEW x \in Lines
        PROVE  /\ x \in U32Type
               /\ x <= Page => /\ Plus(x, VIDEO_ROW_LEN) = x + VIDEO_ROW_LEN
                               /\ Plus(x, VIDEO_ROW_LEN) \in Lines
               /\ VIDEO_ROW_LEN <= x => /\ Minus(x, VIDEO_ROW_LEN) = x - VIDEO_ROW_LEN
                                        /\ Minus(x, VIDEO_ROW_LEN) \in Lines
    <2>1. x \in Nat /\ x <= Page + VIDEO_ROW_LEN
      BY LineFacts
    <2>2. x \in U32Type
      BY <1>2, <2>1, PageFacts
    <2>3. /\ x + VIDEO_ROW_LEN < U32 => Plus(x, VIDEO_ROW_LEN) = x + VIDEO_ROW_LEN
          /\ VIDEO_ROW_LEN <= x => Minus(x, VIDEO_ROW_LEN) = x - VIDEO_ROW_LEN
      BY <1>3, <2>2, OffsetFacts
    <2> QED
      BY <2>1, <2>2, <2>3, PageFacts, LineFacts
  <1> QED
    BY <1>1, <1>3, <1>4, <1>5, <1>6

(* The cursor is on the page where line and column are. *)
LEMMA OnPageFacts ==
    ASSUME col \in Lines
    PROVE  OnPage <=> row < VIDEO_ROW_LEN /\ col <= LastLine
  BY LineFacts DEF OnPage

(* What an access of the main loop finds. *)
Before == RaceTypeOK /\ LinesOK /\ RowsOK /\ SparedOK

(* What holds of the cursor and of the register before any access, and     *)
(* what the additions and subtractions make of them.                       *)
LEMMA BeforeFacts ==
    ASSUME Before
    PROVE  /\ row \in Nat /\ r \in Nat /\ col \in Nat /\ col \in U32Type
           /\ 0 \in U32Type /\ VIDEO_ROW_LEN - 1 \in U32Type
           /\ 0 \in Lines /\ LastLine \in Lines
           /\ col = 0 \/ VIDEO_ROW_LEN <= col
           /\ col < Page => col <= LastLine
           /\ Plus(r, 1) \in U32Type /\ Minus(r, 1) \in U32Type
           /\ r < VIDEO_ROW_LEN => Plus(r, 1) = r + 1
           /\ r # 0 => Minus(r, 1) = r - 1
           /\ r \in Lines /\ r <= Page =>
                /\ Plus(r, VIDEO_ROW_LEN) \in Lines
                /\ Plus(r, VIDEO_ROW_LEN) = r + VIDEO_ROW_LEN
           /\ r \in Lines /\ VIDEO_ROW_LEN <= r =>
                /\ Minus(r, VIDEO_ROW_LEN) \in Lines
                /\ Minus(r, VIDEO_ROW_LEN) = r - VIDEO_ROW_LEN
           /\ r \in Lines /\ r < LastLine => r + VIDEO_ROW_LEN <= LastLine
  <1>1. row \in U32Type /\ r \in U32Type /\ col \in Lines
    BY DEF Before, RaceTypeOK
  <1>2. row \in Nat /\ r \in Nat /\ 0 \in U32Type /\ VIDEO_ROW_LEN - 1 \in U32Type
    BY <1>1, StepFacts
  <1>3. Plus(r, 1) \in U32Type /\ Minus(r, 1) \in U32Type
    BY <1>1, StepFacts
  <1>4. r < VIDEO_ROW_LEN => Plus(r, 1) = r + 1
    BY <1>1, StepFacts
  <1>5. r # 0 => Minus(r, 1) = r - 1
    BY <1>1, StepFacts
  <1>6. col \in U32Type
    BY <1>1, StepFacts
  <1>7. r \in Lines /\ r <= Page =>
          /\ Plus(r, VIDEO_ROW_LEN) \in Lines
          /\ Plus(r, VIDEO_ROW_LEN) = r + VIDEO_ROW_LEN
    BY <1>1, StepFacts
  <1>8. r \in Lines /\ VIDEO_ROW_LEN <= r =>
          /\ Minus(r, VIDEO_ROW_LEN) \in Lines
          /\ Minus(r, VIDEO_ROW_LEN) = r - VIDEO_ROW_LEN
    BY <1>1, StepFacts
  <1>9. /\ col \in Nat /\ 0 \in Lines /\ LastLine \in Lines
        /\ col = 0 \/ VIDEO_ROW_LEN <= col
        /\ col < Page => col <= LastLine
        /\ r \in Lines /\ r < LastLine => r + VIDEO_ROW_LEN <= LastLine
    BY <1>1, LineFacts
  <1> QED
    BY <1>2, <1>3, <1>4, <1>5, <1>6, <1>7, <1>8, <1>9

(* An access that writes nothing writes on the page. *)
LEMMA NoWrite ==
    ASSUME written' = {}
    PROVE  WritesOnPage'
  BY DEF WritesOnPage

(* print_chr. *)
LEMMA ChrKeeps ==
    ASSUME Before, print_chr, UNCHANGED spoiled
    PROVE  Before'
  <1>0. row \in Nat /\ r \in Nat /\ col \in Nat
    BY BeforeFacts
  <1> USE <1>0, PageFacts, BeforeFacts
      DEF Before, Load, SetRow, SetCol, Test, WriteCell, locals,
          RaceTypeOK, LinesOK, RowsOK, SparedOK, SparedCursor, SparedRegister,
          Scrolls, NewLines, Overflown, DigitDone, Moves
  <1>1. CASE Load("chr_line", col, "chr_cell")
    BY <1>1
  <1>2. CASE WriteCell("chr_cell", "chr_col")
    BY <1>2
  <1>3. CASE Load("chr_col", row, "chr_next")
    BY <1>3
  <1>4. CASE SetRow("chr_next", Plus(r, 1), "chr_end?")
    BY <1>4
  <1>5. CASE Test("chr_end?", row >= VIDEO_ROW_LEN, "newline", "scroll?")
    BY <1>5
  <1> QED
    BY <1>1, <1>2, <1>3, <1>4, <1>5 DEF print_chr

(* print_newline. *)
LEMMA NewLineKeeps ==
    ASSUME Before, print_newline, UNCHANGED spoiled
    PROVE  Before'
  <1>0. row \in Nat /\ r \in Nat /\ col \in Nat
    BY BeforeFacts
  <1> USE <1>0, PageFacts, BeforeFacts
      DEF Before, Load, SetRow, SetCol, Test, WriteCell, locals,
          RaceTypeOK, LinesOK, RowsOK, SparedOK, SparedCursor, SparedRegister,
          Scrolls, NewLines, Overflown, DigitDone, Moves
  <1>1. CASE SetRow("newline", 0, "newline_line")
    BY <1>1
  <1>2. CASE Load("newline_line", col, "newline_next")
    BY <1>2
  <1>3. CASE SetCol("newline_next", Plus(r, VIDEO_ROW_LEN), "scroll?")
    BY <1>3
  <1> QED
    BY <1>1, <1>2, <1>3 DEF print_newline

(* scroll_up. *)
LEMMA ScrollKeeps ==
    ASSUME Before, scroll_up, UNCHANGED spoiled
    PROVE  Before'
  <1>0. row \in Nat /\ r \in Nat /\ col \in Nat
    BY BeforeFacts
  <1> USE <1>0, PageFacts, BeforeFacts
      DEF Before, Load, SetRow, SetCol, Test, WriteCell, locals,
          RaceTypeOK, LinesOK, RowsOK, SparedOK, SparedCursor, SparedRegister,
          Scrolls, NewLines, Overflown, DigitDone, Moves
  <1>1. CASE Test("scroll?", col >= Page, "scroll", "rest")
    BY <1>1
  <1>2. CASE SetRow("scroll", 0, "scroll_line")
    BY <1>2
  <1>3. CASE SetCol("scroll_line", LastLine, "rest")
    BY <1>3
  <1> QED
    BY <1>1, <1>2, <1>3 DEF scroll_up

(* move_cursor_right. *)
LEMMA RightKeeps ==
    ASSUME Before, move_cursor_right, UNCHANGED spoiled
    PROVE  Before'
  <1>0. row \in Nat /\ r \in Nat /\ col \in Nat
    BY BeforeFacts
  <1> USE <1>0, PageFacts, BeforeFacts
      DEF Before, Load, SetRow, SetCol, Test, WriteCell, locals,
          RaceTypeOK, LinesOK, RowsOK, SparedOK, SparedCursor, SparedRegister,
          Scrolls, NewLines, Overflown, DigitDone, Moves
  <1>1. CASE Test("right", row >= VIDEO_ROW_LEN - 1, "right_end", "right_col")
    BY <1>1
  <1>2. CASE SetRow("right_end", 0, "down")
    BY <1>2
  <1>3. CASE Load("right_col", row, "right_next")
    BY <1>3
  <1>4. CASE SetRow("right_next", Plus(r, 1), "rest")
    BY <1>4
  <1> QED
    BY <1>1, <1>2, <1>3, <1>4 DEF move_cursor_right

(* move_cursor_left. *)
LEMMA LeftKeeps ==
    ASSUME Before, move_cursor_left, UNCHANGED spoiled
    PROVE  Before'
  <1>0. row \in Nat /\ r \in Nat /\ col \in Nat
    BY BeforeFacts
  <1> USE <1>0, PageFacts, BeforeFacts
      DEF Before, Load, SetRow, SetCol, Test, WriteCell, locals,
          RaceTypeOK, LinesOK, RowsOK, SparedOK, SparedCursor, SparedRegister,
          Scrolls, NewLines, Overflown, DigitDone, Moves
  <1>1. CASE Test("left", row = 0, "left_end", "left_col")
    BY <1>1
  <1>2. CASE SetRow("left_end", VIDEO_ROW_LEN - 1, "up")
    BY <1>2
  <1>3. CASE Load("left_col", row, "left_next")
    BY <1>3
  <1>4. CASE SetRow("left_next", Minus(r, 1), "rest")
    BY <1>4
  <1> QED
    BY <1>1, <1>2, <1>3, <1>4 DEF move_cursor_left

(* move_cursor_up. *)
LEMMA UpKeeps ==
    ASSUME Before, move_cursor_up, UNCHANGED spoiled
    PROVE  Before'
  <1>0. row \in Nat /\ r \in Nat /\ col \in Nat
    BY BeforeFacts
  <1> USE <1>0, PageFacts, BeforeFacts
      DEF Before, Load, SetRow, SetCol, Test, WriteCell, locals,
          RaceTypeOK, LinesOK, RowsOK, SparedOK, SparedCursor, SparedRegister,
          Scrolls, NewLines, Overflown, DigitDone, Moves
  <1>1. CASE Test("up", col < VIDEO_ROW_LEN, "up_end", "up_line")
    BY <1>1
  <1>2. CASE SetCol("up_end", LastLine, "rest")
    BY <1>2
  <1>3. CASE Load("up_line", col, "up_next")
    BY <1>3
  <1>4. CASE SetCol("up_next", Minus(r, VIDEO_ROW_LEN), "rest")
    BY <1>4
  <1> QED
    BY <1>1, <1>2, <1>3, <1>4 DEF move_cursor_up

(* move_cursor_down. *)
LEMMA DownKeeps ==
    ASSUME Before, move_cursor_down, UNCHANGED spoiled
    PROVE  Before'
  <1>0. row \in Nat /\ r \in Nat /\ col \in Nat
    BY BeforeFacts
  <1> USE <1>0, PageFacts, BeforeFacts
      DEF Before, Load, SetRow, SetCol, Test, WriteCell, locals,
          RaceTypeOK, LinesOK, RowsOK, SparedOK, SparedCursor, SparedRegister,
          Scrolls, NewLines, Overflown, DigitDone, Moves
  <1>1. CASE Test("down", col >= LastLine, "down_end", "down_line")
    BY <1>1
  <1>2. CASE SetCol("down_end", 0, "rest")
    BY <1>2
  <1>3. CASE Load("down_line", col, "down_next")
    BY <1>3
  <1>4. CASE SetCol("down_next", Plus(r, VIDEO_ROW_LEN), "rest")
    BY <1>4
  <1> QED
    BY <1>1, <1>2, <1>3, <1>4 DEF move_cursor_down

(* print_backspace. *)
LEMMA BackKeeps ==
    ASSUME Before, print_backspace, UNCHANGED spoiled
    PROVE  Before'
  <1>0. row \in Nat /\ r \in Nat /\ col \in Nat
    BY BeforeFacts
  <1> USE <1>0, PageFacts, BeforeFacts
      DEF Before, Load, SetRow, SetCol, Test, WriteCell, locals,
          RaceTypeOK, LinesOK, RowsOK, SparedOK, SparedCursor, SparedRegister,
          Scrolls, NewLines, Overflown, DigitDone, Moves
  <1>1. CASE Test("back_line?", col = 0, "back_start?", "back?")
    BY <1>1
  <1>2. CASE Test("back_start?", row = 0, "rest", "back?")
    BY <1>2
  <1>3. CASE Test("back?", row = 0, "back_line", "back_col")
    BY <1>3
  <1>4. CASE Load("back_line", col, "back_up")
    BY <1>4
  <1>5. CASE SetCol("back_up", Minus(r, VIDEO_ROW_LEN), "back_end")
    BY <1>5
  <1>6. CASE SetRow("back_end", VIDEO_ROW_LEN - 1, "back_cell")
    BY <1>6
  <1>7. CASE Load("back_col", row, "back_next")
    BY <1>7
  <1>8. CASE SetRow("back_next", Minus(r, 1), "back_cell")
    BY <1>8
  <1>9. CASE Load("back_cell", col, "back_write")
    BY <1>9
  <1>10. CASE WriteCell("back_write", "rest")
    BY <1>10
  <1> QED
    BY <1>1, <1>2, <1>3, <1>4, <1>5, <1>6, <1>7, <1>8, <1>9, <1>10 DEF print_backspace

(* get_cursor_coord. *)
LEMMA GetKeeps ==
    ASSUME Before, get_cursor_coord, UNCHANGED spoiled
    PROVE  Before'
  <1>1. row \in Nat /\ r \in Nat /\ col \in Nat
    BY BeforeFacts
  <1>2. /\ row % U8 \in 0 .. U8 - 1
        /\ row < VIDEO_ROW_LEN => row % U8 = row
    BY <1>1, RaceAssumption
  <1>3. /\ col <= Page => (col \div VIDEO_ROW_LEN) % U8 \in 0 .. VIDEO_COL_LEN
        /\ col <= LastLine => (col \div VIDEO_ROW_LEN) % U8 < VIDEO_COL_LEN
    BY CoordinateFacts DEF Before, RaceTypeOK
  <1> DEFINE x == row % U8
             y == (col \div VIDEO_ROW_LEN) % U8
  <1>4. get_cursor_coord <=>
          \/ /\ pc = "get_x" /\ pc' = "get_y"
             /\ tx' = x /\ written' = {}
             /\ UNCHANGED <<row, col, call, r, ty, start, left>>
          \/ /\ pc = "get_y" /\ pc' = "rest"
             /\ ty' = y /\ written' = {}
             /\ UNCHANGED <<row, col, call, r, tx, start, left>>
    BY DEF get_cursor_coord
  <1> HIDE DEF x, y
  <1> QED
    BY <1>1, <1>2, <1>3, <1>4, PageFacts
    DEF x, y, Before, RaceTypeOK, LinesOK, RowsOK, SparedOK, SparedCursor, SparedRegister,
        Scrolls, NewLines, Overflown, DigitDone, Moves

(* move_cursor_to. *)
LEMMA ToKeeps ==
    ASSUME Before, move_cursor_to, UNCHANGED spoiled
    PROVE  Before'
  <1>0. row \in Nat /\ r \in Nat /\ col \in Nat
    BY BeforeFacts
  <1>1. tx \in U32Type
    <2>1. U8 \in Nat /\ tx \in 0 .. U8 - 1
      BY RaceAssumption DEF Before, RaceTypeOK
    <2>2. U8 <= VIDEO_ROW_LEN * (U8 + MaxDigits)
      BY RaceAssumption
    <2>3. VIDEO_ROW_LEN * (U8 + MaxDigits) \in Nat
      BY RaceAssumption
    <2>4. U8 < U32
      BY <2>1, <2>2, <2>3, RaceAssumption
    <2> QED
      BY <2>1, <2>4, PageFacts DEF U32Type
  <1>2. PICK line : line = VIDEO_ROW_LEN * ty
    OBVIOUS
  <1>3. line \in Lines /\ line <= Page /\ (ty < VIDEO_COL_LEN => line <= LastLine)
    BY <1>2, CoordinateFacts DEF Before, RaceTypeOK
  <1>4. line \in Nat
    BY <1>3, LineFacts
  <1> USE <1>0, <1>1, <1>3, <1>4, PageFacts, BeforeFacts
      DEF Before, Load, SetRow, SetCol, Test, WriteCell, locals,
          RaceTypeOK, LinesOK, RowsOK, SparedOK, SparedCursor, SparedRegister,
          Scrolls, NewLines, Overflown, DigitDone, Moves
  <1>5. CASE SetCol("to_line", line, "to_col")
    BY <1>5
  <1>6. CASE SetRow("to_col", tx, "rest")
    BY <1>6
  <1> QED
    BY <1>2, <1>5, <1>6 DEF move_cursor_to

(* The beginning of a call. *)
LEMMA CallKeeps ==
    ASSUME Before, Call, UNCHANGED spoiled
    PROVE  Before'
  <1>0. row \in Nat /\ r \in Nat /\ col \in Nat
    BY BeforeFacts
  <1>1. PICK c \in Calls : /\ pc = "rest"
                           /\ call' = c /\ pc' = Entry(c)
                           /\ left' \in IF c = "print_unum" THEN 1 .. MaxDigits ELSE {0}
    BY DEF Call
  <1>2. UNCHANGED <<row, col, r, tx, ty, start>>
    BY DEF Call
  <1> USE <1>0, <1>1, <1>2, PageFacts
      DEF Before, Entry, RaceTypeOK, LinesOK, RowsOK, SparedOK, SparedCursor, SparedRegister,
          Scrolls, NewLines, Overflown, DigitDone, Moves
  <1>3. CASE c = "print_unum"
    BY <1>3
  <1>4. CASE c = "print_chr"
    BY <1>4
  <1>5. CASE c = "print_newline"
    BY <1>5
  <1>6. CASE c = "print_backspace"
    BY <1>6
  <1>7. CASE c = "move_cursor_up"
    BY <1>7
  <1>8. CASE c = "move_cursor_down"
    BY <1>8
  <1>9. CASE c = "move_cursor_left"
    BY <1>9
  <1>10. CASE c = "move_cursor_right"
    BY <1>10
  <1>11. CASE c = "get_cursor_coord"
    BY <1>11
  <1>12. CASE c = "move_cursor_to"
    BY <1>12
  <1>13. c \in {"print_chr", "print_newline", "move_cursor_up",
                "move_cursor_down", "move_cursor_left",
                "move_cursor_right", "print_backspace",
                "get_cursor_coord", "move_cursor_to", "print_unum"}
    BY RaceAssumption
  <1> QED
    BY <1>3, <1>4, <1>5, <1>6, <1>7, <1>8, <1>9, <1>10, <1>11, <1>12, <1>13

(* The number of digits, and how far its start can be. *)
LEMMA DigitFacts ==
    ASSUME Before, pc \in DigitDone
    PROVE  /\ left \in Nat /\ MaxDigits \in Nat /\ MaxDigits - left \in Nat
           /\ Rows(MaxDigits - left) \in Nat /\ Rows(MaxDigits - left - 1) \in Nat
           /\ Rows(MaxDigits - left) = Rows(MaxDigits - left - 1) + VIDEO_ROW_LEN
           /\ Rows(MaxDigits - left) < U32
  <1>1. left \in Nat /\ MaxDigits \in Nat /\ left < MaxDigits
    BY PageFacts DEF Before, RaceTypeOK
  <1>2. MaxDigits - left \in 1 .. MaxDigits
    BY <1>1
  <1> QED
    BY <1>1, <1>2, RowsFacts

(* print_unum before its first digit. *)
LEMMA UnumKeeps ==
    ASSUME Before, print_unum, UNCHANGED spoiled
    PROVE  Before'
  <1>0. row \in Nat /\ r \in Nat /\ col \in Nat
    BY BeforeFacts
  <1>1. PICK at : at = Plus(r, col)
    OBVIOUS
  <1>2. at \in U32Type /\ at \in Nat
        /\ (r < VIDEO_ROW_LEN /\ col <= LastLine => at < Page)
    <2>1. r \in U32Type /\ col \in U32Type
      BY BeforeFacts DEF Before, RaceTypeOK
    <2>2. at \in U32Type /\ (r + col < U32 => at = r + col)
      BY <1>1, <2>1, OffsetFacts
    <2>3. at \in Nat
      BY <2>2, StepFacts
    <2> QED
      BY <1>0, <2>2, <2>3, PageFacts
  <1> USE <1>0, <1>2, PageFacts, BeforeFacts
      DEF Before, RaceTypeOK, LinesOK, RowsOK, SparedOK, SparedCursor, SparedRegister,
          Scrolls, NewLines, Overflown, DigitDone, Moves
  <1>3. CASE Load("unum_row", row, "unum_col")
    BY <1>3 DEF Load, locals
  <1>4. CASE /\ pc = "unum_col" /\ pc' = "digit"
             /\ start' = at /\ r' = 0 /\ written' = {}
             /\ UNCHANGED <<row, col, call, tx, ty, left>>
    BY <1>4 DEF StartNear
  <1> QED
    BY <1>1, <1>3, <1>4 DEF print_unum

(* A digit. *)
LEMMA DigitKeeps ==
    ASSUME Before, PrintDigit, UNCHANGED spoiled
    PROVE  Before'
  <1>0. row \in Nat /\ r \in Nat /\ col \in Nat
    BY BeforeFacts
  <1>1. left \in Nat /\ MaxDigits \in Nat /\ left \in 1 .. MaxDigits
    BY PageFacts DEF Before, RaceTypeOK, PrintDigit
  <1>2. left' = left - 1 /\ MaxDigits - left' - 1 = MaxDigits - left
    BY <1>1 DEF PrintDigit
  <1>3. StartNear(MaxDigits - left) /\ start' = start => StartNear(MaxDigits - left - 1)'
    BY <1>2 DEF StartNear
  <1> QED
    BY <1>0, <1>1, <1>2, <1>3, PageFacts
    DEF PrintDigit, Before, RaceTypeOK, LinesOK, RowsOK, SparedOK, SparedCursor,
        SparedRegister, Scrolls, NewLines, Overflown, DigitDone, Moves

(* What follows a digit. *)
LEMMA AfterDigitKeeps ==
    ASSUME Before, AfterDigit, UNCHANGED spoiled
    PROVE  Before'
  <1>0. row \in Nat /\ r \in Nat /\ col \in Nat /\ start \in Nat /\ start < U32
        /\ start \in U32Type
    BY BeforeFacts, StepFacts DEF Before, RaceTypeOK
  <1>1. pc \in DigitDone
    BY DEF AfterDigit, Load, SetRow, SetCol, Test, DigitDone
  <1>2. /\ left \in Nat /\ MaxDigits \in Nat /\ MaxDigits - left \in Nat
        /\ Rows(MaxDigits - left) \in Nat /\ Rows(MaxDigits - left - 1) \in Nat
        /\ Rows(MaxDigits - left) = Rows(MaxDigits - left - 1) + VIDEO_ROW_LEN
        /\ Rows(MaxDigits - left) < U32
    BY <1>1, DigitFacts
  <1> USE <1>0, <1>2, PageFacts, BeforeFacts
      DEF Before, Load, SetRow, SetCol, Test, WriteCell, locals, StartNear,
          RaceTypeOK, LinesOK, RowsOK, SparedOK, SparedCursor, SparedRegister,
          Scrolls, NewLines, Overflown, DigitDone, Moves
  <1>3. CASE Load("digit_col", row, "digit_next")
    BY <1>3
  <1>4. CASE SetRow("digit_next", Plus(r, 1), "digit_end?")
    BY <1>4
  <1>5. CASE Test("digit_end?", row >= VIDEO_ROW_LEN, "digit_wrap", "digit_scroll?")
    BY <1>5
  <1>6. CASE SetRow("digit_wrap", 0, "digit_line")
    BY <1>6
  <1>7. CASE Load("digit_line", col, "digit_down")
    BY <1>7
  <1>8. CASE SetCol("digit_down", Plus(r, VIDEO_ROW_LEN), "digit_scroll?")
    BY <1>8
  <1>9. CASE /\ pc = "digit_scroll?"
             /\ IF col >= Page THEN pc' = "digit_scroll" /\ UNCHANGED start
                               ELSE NextDigit(start)
             /\ written' = {}
             /\ UNCHANGED <<row, col, call, r, tx, ty, left>>
    <2>1. CASE col >= Page
      BY <1>9, <2>1
    <2>2. CASE ~ (col >= Page) /\ left > 0
      BY <1>9, <2>2 DEF NextDigit
    <2>3. CASE ~ (col >= Page) /\ ~ (left > 0)
      BY <1>9, <2>3 DEF NextDigit
    <2> QED
      BY <2>1, <2>2, <2>3
  <1>10. CASE SetRow("digit_scroll", 0, "digit_scroll_line")
    BY <1>10
  <1>11. CASE SetCol("digit_scroll_line", LastLine, "digit_back")
    BY <1>11
  <1>12. PICK at : at = Minus(start, VIDEO_ROW_LEN)
    OBVIOUS
  <1>13. /\ at \in U32Type /\ at \in Nat
         /\ VIDEO_ROW_LEN <= start => at = start - VIDEO_ROW_LEN
         /\ start < VIDEO_ROW_LEN => at = start + U32 - VIDEO_ROW_LEN
    <2>1. VIDEO_ROW_LEN \in U32Type
      BY DEF U32Type
    <2>2. at \in U32Type
      BY <1>12, <2>1, OffsetFacts
    <2>3. VIDEO_ROW_LEN <= start => at = start - VIDEO_ROW_LEN
      BY <1>12, <2>1, OffsetFacts
    <2>4. start < VIDEO_ROW_LEN => at = start + U32 - VIDEO_ROW_LEN
      BY <1>12, <2>1, OffsetFacts
    <2>5. at \in Nat
      BY <2>2 DEF U32Type
    <2> QED
      BY <2>2, <2>3, <2>4, <2>5
  <1>14. CASE /\ pc = "digit_back"
              /\ NextDigit(at)
              /\ written' = {}
              /\ UNCHANGED <<row, col, call, r, tx, ty, left>>
    <2>1. CASE left > 0
      BY <1>13, <1>14, <2>1 DEF NextDigit
    <2>2. CASE ~ (left > 0)
      BY <1>13, <1>14, <2>2 DEF NextDigit
    <2> QED
      BY <2>1, <2>2
  <1> QED
    BY <1>3, <1>4, <1>5, <1>6, <1>7, <1>8, <1>9, <1>10, <1>11, <1>12, <1>14 DEF AfterDigit

(* A character goes to the page while interrupts spare the windows. *)
LEMMA CellWrites ==
    ASSUME Before, NEW from, NEW to, from \in {"chr_cell", "back_write"},
           WriteCell(from, to), UNCHANGED spoiled
    PROVE  WritesOnPage'
  <1>1. pc = from /\ written' = {Plus(r, row)}
    BY DEF WriteCell
  <1>2. row \in U32Type /\ r \in U32Type
    BY DEF Before, RaceTypeOK
  <1>3. ASSUME ~ spoiled
        PROVE  Plus(r, row) < Page
    <2>1. row < VIDEO_ROW_LEN /\ r <= LastLine
      BY <1>1, <1>3 DEF Before, SparedOK, SparedCursor, SparedRegister, Overflown
    <2> QED
      BY <1>2, <2>1, StepFacts
  <1> QED
    BY <1>1, <1>3 DEF WritesOnPage

(* So does a digit, or it goes as far from it as WritesOnPage says. *)
LEMMA DigitWrites ==
    ASSUME Before, PrintDigit, UNCHANGED spoiled
    PROVE  WritesOnPage'
  <1>1. /\ left \in Nat /\ MaxDigits \in Nat /\ left \in 1 .. MaxDigits
        /\ start \in U32Type /\ start \in Nat /\ start < U32
    BY PageFacts, StepFacts DEF Before, RaceTypeOK, PrintDigit
  <1>2. PICK cell : cell = Plus(start, left - 1)
    OBVIOUS
  <1>3. pc' = "digit_col" /\ written' = {cell}
    BY <1>2 DEF PrintDigit
  <1>4. /\ cell \in Nat
        /\ start + (left - 1) < U32 => cell = start + (left - 1)
        /\ U32 <= start + (left - 1) => cell = start + (left - 1) - U32
    <2>1. left - 1 \in U32Type
      BY <1>1, PageFacts DEF U32Type
    <2>2. cell \in U32Type
      BY <1>1, <1>2, <2>1, OffsetFacts
    <2>3. start + (left - 1) < U32 => cell = start + (left - 1)
      BY <1>1, <1>2, <2>1, OffsetFacts
    <2>4. U32 <= start + (left - 1) => cell = start + (left - 1) - U32
      BY <1>1, <1>2, <2>1, OffsetFacts
    <2>5. cell \in Nat
      BY <2>2, StepFacts
    <2> QED
      BY <2>3, <2>4, <2>5
  <1>5. /\ Rows(MaxDigits - 1) \in Nat /\ Rows(MaxDigits - left) \in Nat
        /\ Rows(MaxDigits - left) <= Rows(MaxDigits - 1)
    <2>1. MaxDigits - 1 = (MaxDigits - left) + (left - 1)
          /\ MaxDigits - left \in Nat /\ left - 1 \in Nat /\ MaxDigits - 1 \in Nat
      BY <1>1
    <2>2. \A m, n \in Nat : /\ VIDEO_ROW_LEN * m \in Nat
                            /\ VIDEO_ROW_LEN * (m + n) = VIDEO_ROW_LEN * m + VIDEO_ROW_LEN * n
      BY PageFacts
    <2>3. PICK m \in Nat, n \in Nat :
              m = MaxDigits - left /\ n = left - 1 /\ MaxDigits - 1 = m + n
      BY <2>1
    <2>4. Rows(m + n) = Rows(m) + Rows(n) /\ Rows(m) \in Nat /\ Rows(n) \in Nat
      BY <2>2 DEF Rows
    <2>5. Rows(MaxDigits - 1) = Rows(m + n) /\ Rows(MaxDigits - left) = Rows(m)
      BY <2>3
    <2> QED
      BY <2>4, <2>5
  <1>6. ASSUME ~ spoiled
        PROVE  \/ cell < Page
               \/ cell < Page + MaxDigits - 1
               \/ cell >= U32 - Rows(MaxDigits - 1)
    <2>1. StartNear(MaxDigits - left)
      BY <1>6 DEF Before, SparedOK, SparedRegister, PrintDigit
    <2>2. CASE start < Page
      BY <1>1, <1>4, <2>2, PageFacts
    <2>3. CASE U32 - Rows(MaxDigits - left) <= start
      BY <1>1, <1>4, <1>5, <2>3, PageFacts
    <2> QED
      BY <2>1, <2>2, <2>3 DEF StartNear
  <1> QED
    BY <1>3, <1>6 DEF WritesOnPage, Rows

(* The main loop keeps the invariant. *)
LEMMA MainKeeps ==
    ASSUME RaceInv, MainStep, UNCHANGED spoiled
    PROVE  RaceInv'
  <1>1. Before
    BY DEF Before, RaceInv
  <1>2. Before'
    BY <1>1, ChrKeeps, NewLineKeeps, ScrollKeeps, RightKeeps, LeftKeeps, UpKeeps, DownKeeps,
       BackKeeps, GetKeeps, ToKeeps, CallKeeps, UnumKeeps, DigitKeeps, AfterDigitKeeps
    DEF MainStep
  <1>3. \/ written' = {}
        \/ WriteCell("chr_cell", "chr_col")
        \/ WriteCell("back_write", "rest")
        \/ PrintDigit
    BY DEF MainStep, Call, print_chr, print_newline, scroll_up, move_cursor_right,
           move_cursor_left, move_cursor_up, move_cursor_down, print_backspace,
           get_cursor_coord, move_cursor_to, print_unum, AfterDigit,
           Load, SetRow, SetCol, Test
  <1>4. WritesOnPage'
    BY <1>1, <1>3, NoWrite, CellWrites, DigitWrites
  <1> QED
    BY <1>2, <1>4 DEF Before, RaceInv

(* The interrupt keeps it, too. *)
LEMMA InterruptKeeps ==
    ASSUME RaceInv, Interrupt, spoiled' = (spoiled \/ ~Harmless)
    PROVE  RaceInv'
  <1> USE DEF RaceInv
  <1>1. /\ row' \in U32Type /\ row' < VIDEO_ROW_LEN
        /\ col' \in Lines /\ col' <= LastLine
        /\ VIDEO_ROW_LEN <= col => VIDEO_ROW_LEN <= col'
        /\ VIDEO_ROW_LEN <= col' \/ row' # 0
        /\ OnPage => \A cell \in written' : cell < Page
    BY InterruptFacts DEF RaceTypeOK
  <1>2. /\ UNCHANGED <<pc, call, r>>
        /\ tx' = tx /\ ty' = ty /\ start' = start /\ left' = left
    BY DEF Interrupt, locals
  <1>3. row' \in Nat /\ col' \in Nat /\ row \in Nat /\ col \in Nat
    BY <1>1, StepFacts, LineFacts DEF RaceTypeOK
  <1>4. spoiled' \in BOOLEAN /\ (~ spoiled' => ~ spoiled /\ OnPage /\ pc \notin Windows)
    BY DEF Harmless, RaceTypeOK
  <1>5. RaceTypeOK'
    BY <1>1, <1>2, <1>4 DEF RaceTypeOK
  <1>6. LinesOK'
    BY <1>1, <1>2, <1>3, PageFacts DEF LinesOK
  <1>7. RowsOK'
    BY <1>1, <1>2 DEF RowsOK
  <1>8. SparedOK'
    BY <1>1, <1>2, <1>3, <1>4, PageFacts
    DEF SparedOK, SparedCursor, SparedRegister, StartNear, Windows
  <1>9. WritesOnPage'
    BY <1>1, <1>4 DEF WritesOnPage
  <1> QED
    BY <1>5, <1>6, <1>7, <1>8, <1>9

(* clear_screen establishes it. *)
LEMMA InitRaceInv == Init => RaceInv
  <1> SUFFICES ASSUME Init
               PROVE  RaceInv
    OBVIOUS
  <1>1. /\ VIDEO_ROW_LEN \in Nat /\ VIDEO_ROW_LEN > 1 /\ 0 \in U32Type /\ 0 \in Lines
        /\ U8 \in Nat /\ VIDEO_COL_LEN \in Nat /\ U8 > 1 /\ VIDEO_COL_LEN > 1
        /\ LastLine \in Nat /\ Page \in Nat /\ MaxDigits \in Nat
    BY PageFacts, StepFacts, LineFacts, RaceAssumption
  <1>2. RaceTypeOK
    <2>1. 0 \in 0 .. U8 - 1 /\ 0 \in 0 .. VIDEO_COL_LEN /\ 0 \in 0 .. MaxDigits
      BY <1>1
    <2>2. pc = "rest" /\ pc \notin DigitDone /\ pc \notin {"unum_row", "unum_col", "digit"}
      BY DEF Init, DigitDone
    <2> QED
      BY <1>1, <2>1, <2>2 DEF Init, RaceTypeOK
  <1>3. LinesOK /\ RowsOK /\ WritesOnPage
    BY <1>1 DEF Init, LinesOK, RowsOK, WritesOnPage, Scrolls, NewLines, Moves
  <1>4. SparedOK
    BY <1>1 DEF Init, SparedOK, SparedCursor, SparedRegister, Scrolls, Overflown, DigitDone
  <1> QED
    BY <1>2, <1>3, <1>4 DEF RaceInv

(* Every step keeps it. *)
LEMMA NextKeepsRaceInv == RaceInv /\ [Next]_vars => RaceInv'
  <1> SUFFICES ASSUME RaceInv, [Next]_vars
               PROVE  RaceInv'
    OBVIOUS
  <1>1. CASE MainStep /\ UNCHANGED spoiled
    BY <1>1, MainKeeps
  <1>2. CASE Interrupt /\ spoiled' = (spoiled \/ ~Harmless)
    BY <1>2, InterruptKeeps
  <1>3. CASE UNCHANGED vars
    BY <1>3 DEF vars, locals, RaceInv, RaceTypeOK, LinesOK, RowsOK, SparedOK, SparedCursor,
                SparedRegister, StartNear, WritesOnPage
  <1> QED
    BY <1>1, <1>2, <1>3 DEF Next

-----------------------------------------------------------------------------
(* The theorems.                                                           *)

(* The invariant holds. *)
THEOREM RaceInvariant == Spec => []RaceInv
  BY InitRaceInv, NextKeepsRaceInv, PTL DEF Spec

(* As long as interrupts spare the windows, a call that is over leaves the *)
(* cursor on the page.                                                     *)
THEOREM RestsOnPage == Spec => []RestOnPage
  <1>1. RaceInv => RestOnPage
    BY OnPageFacts DEF RaceInv, RaceTypeOK, SparedOK, SparedCursor, RestOnPage, Scrolls, Overflown
  <1> QED
    BY <1>1, RaceInvariant, PTL

(* As long as they do, only digits are written behind the page or before   *)
(* it, and not far.                                                        *)
THEOREM WritesStayOnPage == Spec => []WritesOnPage
  <1>1. RaceInv => WritesOnPage
    BY DEF RaceInv
  <1> QED
    BY <1>1, RaceInvariant, PTL

(* Wherever interrupts fall, the line is one of the page's or the next. *)
THEOREM LineStays == Spec => []LineStaysNear
  <1>1. RaceInv => LineStaysNear
    BY LineFacts DEF RaceInv, RaceTypeOK, LineStaysNear
  <1> QED
    BY <1>1, RaceInvariant, PTL

(* Wherever they fall, a call that prints ends with the cursor on the page. *)
THEOREM PrintingEndsOnPage == Spec => PrintingMends
  <1>1. ASSUME RaceInv, RaceInv', [Next]_vars, pc # "rest", pc' = "rest",
               call \in {"print_chr", "print_newline", "print_unum"}
        PROVE  OnPage'
    <2>1. MainStep
      BY <1>1 DEF Next, Interrupt, vars
    <2>2. pc \notin Moves /\ row \in Nat /\ col \in Nat
      BY <1>1, BeforeFacts DEF RaceInv, RowsOK, Before
    <2>3. \/ scroll_up
          \/ AfterDigit
      BY <1>1, <2>1, <2>2
      DEF MainStep, Call, print_chr, print_newline, move_cursor_right,
          move_cursor_left, move_cursor_up, move_cursor_down, print_backspace,
          get_cursor_coord, move_cursor_to, print_unum, PrintDigit,
          Load, SetRow, SetCol, Test, WriteCell, Moves
    <2>4. row' < VIDEO_ROW_LEN /\ col' <= LastLine
      <3>1. col < Page => col <= LastLine
        BY <1>1, BeforeFacts DEF RaceInv, Before
      <3>2. CASE scroll_up
        BY <1>1, <2>2, <3>1, <3>2, PageFacts
        DEF scroll_up, SetRow, SetCol, Test, RaceInv, RowsOK, Scrolls
      <3>3. CASE AfterDigit
        BY <1>1, <2>2, <3>1, <3>3, PageFacts
        DEF AfterDigit, Load, SetRow, SetCol, Test, RaceInv, RowsOK, LinesOK, Scrolls
      <3> QED
        BY <2>3, <3>2, <3>3
    <2>5. col' \in Lines
      BY <1>1 DEF RaceInv, RaceTypeOK
    <2> QED
      BY <2>4, <2>5, LineFacts DEF OnPage
  <1>2. RaceInv /\ RaceInv' /\ [Next]_vars =>
          [pc # "rest" /\ pc' = "rest" /\ call \in {"print_chr", "print_newline", "print_unum"}
             => OnPage']_vars
    BY <1>1
  <1> QED
    BY <1>2, RaceInvariant, PTL DEF Spec, PrintingMends
=============================================================================
