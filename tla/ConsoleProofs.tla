--------------------------- MODULE ConsoleProofs ---------------------------
(***************************************************************************)
(* Theorems about Console: for a page of any size the cursor stays on it,  *)
(* and the two offsets and the flat memory implement the Terminal.         *)
(***************************************************************************)
EXTENDS Console, WellFoundedInduction, TLAPS

Columns == 0 .. VIDEO_ROW_LEN - 1
Lines == 0 .. VIDEO_COL_LEN - 1
Contents == [Cells -> Chars \cup {Blank}]

(* The offset of column i of line l. *)
Offset(l, i) == VIDEO_ROW_LEN * l + i

(* The screen with its cursor at column i of line l, and the terminal that *)
(* shows the same.                                                         *)
Screen(i, l, m) ==
    [row_offset |-> i, col_offset |-> VIDEO_ROW_LEN * l, mem |-> m]
Grid(m) == [l \in Lines |-> [i \in Columns |-> m[Offset(l, i)]]]
View(i, l, m) == [page |-> Grid(m), x |-> i, y |-> l]
Cell(g, l, i, c) == [g EXCEPT ![l] = [@ EXCEPT ![i] = c]]

(* The operations on the memory. *)
Filled(m, k, c) == [j \in Cells |-> IF j = k THEN c ELSE m[j]]
Raised(m) == [j \in Cells |-> IF j < LastLine THEN m[j + VIDEO_ROW_LEN] ELSE Blank]

-----------------------------------------------------------------------------
(* Cells.                                                                  *)

(* The page has two rows and two columns or more. *)
LEMMA Sizes ==
    /\ VIDEO_ROW_LEN \in Nat /\ VIDEO_ROW_LEN > 1
    /\ VIDEO_COL_LEN \in Nat /\ VIDEO_COL_LEN > 1 /\ VIDEO_COL_LEN <= 256
    /\ PageSize \in Nat /\ LastLine \in Nat
    /\ LastLine + VIDEO_ROW_LEN = PageSize
    /\ LastLine = VIDEO_ROW_LEN * (VIDEO_COL_LEN - 1)
    /\ PageSize = VIDEO_ROW_LEN * VIDEO_COL_LEN
  <1>. DEFINE L == VIDEO_ROW_LEN
              N == VIDEO_COL_LEN
  <1>1. L \in Nat /\ N \in Nat /\ L > 1 /\ N > 1 /\ N <= 256
    BY ConsoleAssumption
  <1>. HIDE DEF L, N
  <1>2. L * N \in Nat /\ L * (N - 1) \in Nat /\ L * (N - 1) + L = L * N
    BY <1>1
  <1>. QED
    BY <1>1, <1>2 DEF L, N, PageSize, LastLine

(* Lines follow each other in the flat memory, so that an offset tells line *)
(* and column.                                                              *)
LEMMA Products ==
    ASSUME NEW L \in Nat, L > 1, NEW l \in Nat
    PROVE  /\ L * l \in Nat /\ L * (l + 1) = L * l + L
           /\ (L * l) \div L = l
           /\ \A k \in Nat : l < k => L * l + L <= L * k
           /\ l > 0 => L * l >= L /\ L * (l - 1) = L * l - L
           /\ L * 0 = 0
  <1>1. L * l \in Nat /\ L * (l + 1) = L * l + L /\ (L * l) \div L = l /\ L * 0 = 0
    OBVIOUS
  <1>2. ASSUME NEW k \in Nat, l < k
        PROVE  L * l + L <= L * k
    <2>1. k - l \in Nat /\ k - l >= 1 /\ L * k = L * l + L * (k - l)
      BY <1>2
    <2>2. L * (k - l) >= L
      BY <2>1
    <2>. QED
      BY <2>1, <2>2, <1>1
  <1>3. l > 0 => L * l >= L /\ L * (l - 1) = L * l - L
    OBVIOUS
  <1>. QED
    BY <1>1, <1>2, <1>3

(* The cell at a line and a column. *)
LEMMA OffsetFacts ==
    ASSUME NEW l \in Lines, NEW i \in Columns
    PROVE  /\ Offset(l, i) \in Cells
           /\ Offset(l, i) < LastLine <=> l < VIDEO_COL_LEN - 1
           /\ l < VIDEO_COL_LEN - 1 =>
                 Offset(l, i) + VIDEO_ROW_LEN = Offset(l + 1, i)
           /\ \A m \in Lines, j \in Columns :
                 Offset(l, i) = Offset(m, j) <=> l = m /\ i = j
  <1>. USE Sizes
  <1>1. l \in Nat /\ l < VIDEO_COL_LEN /\ i \in Nat /\ i < VIDEO_ROW_LEN
        /\ VIDEO_COL_LEN - 1 \in Nat
    BY DEF Lines, Columns
  <1>2. VIDEO_ROW_LEN * l + VIDEO_ROW_LEN <= PageSize /\ VIDEO_ROW_LEN * l \in Nat
    BY <1>1, Products
  <1>3. l < VIDEO_COL_LEN - 1 => VIDEO_ROW_LEN * l + VIDEO_ROW_LEN <= LastLine
    BY <1>1, Products
  <1>4. l = VIDEO_COL_LEN - 1 => VIDEO_ROW_LEN * l = LastLine
    OBVIOUS
  <1>5. VIDEO_ROW_LEN * (l + 1) = VIDEO_ROW_LEN * l + VIDEO_ROW_LEN
    BY <1>1, Products
  <1>6. ASSUME NEW m \in Lines, NEW j \in Columns
        PROVE  Offset(l, i) = Offset(m, j) <=> l = m /\ i = j
    <2>1. m \in Nat /\ j \in Nat /\ j < VIDEO_ROW_LEN
      BY DEF Lines, Columns
    <2>2. VIDEO_ROW_LEN * m \in Nat
          /\ (l < m => VIDEO_ROW_LEN * l + VIDEO_ROW_LEN <= VIDEO_ROW_LEN * m)
          /\ (m < l => VIDEO_ROW_LEN * m + VIDEO_ROW_LEN <= VIDEO_ROW_LEN * l)
      BY <1>1, <2>1, Products
    <2>3. l < m \/ m < l \/ l = m
      BY <1>1, <2>1
    <2>. QED
      BY <1>1, <1>2, <2>1, <2>2, <2>3 DEF Offset
  <1>. QED
    BY <1>1, <1>2, <1>3, <1>4, <1>5, <1>6 DEF Offset, Cells

(* A line is the page's last one, or there is one behind it. *)
LEMMA LineFacts ==
    ASSUME NEW l \in Nat
    PROVE  /\ VIDEO_ROW_LEN * l \in Nat
           /\ VIDEO_ROW_LEN * (l + 1) = VIDEO_ROW_LEN * l + VIDEO_ROW_LEN
           /\ (VIDEO_ROW_LEN * l) \div VIDEO_ROW_LEN = l
           /\ VIDEO_ROW_LEN * l >= PageSize <=> l >= VIDEO_COL_LEN
           /\ VIDEO_ROW_LEN * l >= LastLine <=> l >= VIDEO_COL_LEN - 1
           /\ VIDEO_ROW_LEN * l < VIDEO_ROW_LEN <=> l = 0
           /\ VIDEO_ROW_LEN * l <= 0 <=> l = 0
           /\ l > 0 => VIDEO_ROW_LEN * l - VIDEO_ROW_LEN = VIDEO_ROW_LEN * (l - 1)
           /\ VIDEO_ROW_LEN * 0 = 0
  <1>. USE Sizes
  <1>1. VIDEO_COL_LEN - 1 \in Nat
    OBVIOUS
  <1>2. \A k \in Nat : l < k => VIDEO_ROW_LEN * l + VIDEO_ROW_LEN <= VIDEO_ROW_LEN * k
    BY Products
  <1>3. \A k \in Nat : k < l => VIDEO_ROW_LEN * k + VIDEO_ROW_LEN <= VIDEO_ROW_LEN * l
    BY Products
  <1>4. VIDEO_ROW_LEN * l >= PageSize <=> l >= VIDEO_COL_LEN
    BY <1>2, <1>3, Products
  <1>5. VIDEO_ROW_LEN * l >= LastLine <=> l >= VIDEO_COL_LEN - 1
    BY <1>1, <1>2, <1>3, Products
  <1>. QED
    BY <1>4, <1>5, Products

(* The line of an offset. *)
LEMMA OffsetDiv ==
    ASSUME NEW l \in Lines, NEW i \in Columns
    PROVE  Offset(l, i) \div VIDEO_ROW_LEN = l
  <1>. PICK L : L = VIDEO_ROW_LEN
    OBVIOUS
  <1>1. L \in Nat /\ L > 1 /\ l \in Nat /\ i \in Nat /\ i < L
    BY Sizes DEF Lines, Columns
  <1>2. (L * l + i) \div L = l
    BY <1>1
  <1>. QED
    BY <1>2 DEF Offset

-----------------------------------------------------------------------------
(* The memory.                                                             *)

(* Writing to a cell of the flat memory writes to one place of the page,   *)
(* and raising the memory by a row raises the lines.                       *)
LEMMA FilledGrid ==
    ASSUME NEW m \in Contents, NEW c \in Chars \cup {Blank},
           NEW l \in Lines, NEW i \in Columns
    PROVE  /\ Filled(m, Offset(l, i), c) \in Contents
           /\ Grid(Filled(m, Offset(l, i), c)) = Cell(Grid(m), l, i, c)
  <1>. DEFINE f == Filled(m, Offset(l, i), c)
  <1>1. f \in Contents
    BY DEF Filled, Contents
  <1>2. ASSUME NEW k \in Lines, NEW j \in Columns
        PROVE  f[Offset(k, j)] = IF k = l /\ j = i THEN c ELSE m[Offset(k, j)]
    <2>1. Offset(k, j) \in Cells /\ (Offset(k, j) = Offset(l, i) <=> k = l /\ j = i)
      BY OffsetFacts
    <2>. QED
      BY <2>1 DEF Filled
  <1>. HIDE DEF f
  <1>3. Grid(f) = [k \in Lines |-> [j \in Columns |->
                      IF k = l /\ j = i THEN c ELSE m[Offset(k, j)]]]
    BY <1>2 DEF Grid
  <1>4. Cell(Grid(m), l, i, c)
          = [k \in Lines |-> [j \in Columns |->
                      IF k = l /\ j = i THEN c ELSE m[Offset(k, j)]]]
    BY DEF Grid, Cell
  <1>. QED
    BY <1>1, <1>3, <1>4 DEF f

LEMMA RaisedGrid ==
    ASSUME NEW m \in Contents
    PROVE  /\ Raised(m) \in Contents
           /\ Grid(Raised(m)) =
                [l \in Lines |-> IF l = VIDEO_COL_LEN - 1
                                   THEN [i \in Columns |-> Blank]
                                   ELSE Grid(m)[l + 1]]
  <1>1. Raised(m) \in Contents
    <2>1. \A j \in Cells : j < LastLine => j + VIDEO_ROW_LEN \in Cells
      BY Sizes DEF Cells
    <2>. QED
      BY <2>1 DEF Raised, Contents
  <1>2. ASSUME NEW l \in Lines, NEW i \in Columns
        PROVE  Raised(m)[Offset(l, i)] = IF l = VIDEO_COL_LEN - 1
                                           THEN Blank ELSE m[Offset(l + 1, i)]
    BY OffsetFacts, Sizes DEF Raised, Lines
  <1>3. \A l \in Lines : l # VIDEO_COL_LEN - 1 => l + 1 \in Lines
    BY Sizes DEF Lines
  <1>. DEFINE r == Raised(m)
  <1>. HIDE DEF r
  <1>4. Grid(r) = [l \in Lines |-> IF l = VIDEO_COL_LEN - 1
                                   THEN [i \in Columns |-> Blank]
                                   ELSE Grid(m)[l + 1]]
    BY <1>2, <1>3 DEF Grid, r
  <1>. QED
    BY <1>1, <1>4 DEF r

-----------------------------------------------------------------------------
(* The steps that printing is made of.                                     *)

(* Screens are records of three fields, and so are terminals. *)
LEMMA ScreenSteps ==
    ASSUME NEW i, NEW l, NEW m
    PROVE  /\ Screen(i, l, m).row_offset = i
           /\ Screen(i, l, m).col_offset = VIDEO_ROW_LEN * l
           /\ Screen(i, l, m).mem = m
           /\ \A j, k : Moved(Screen(i, l, m), j, VIDEO_ROW_LEN * k) = Screen(j, k, m)
           /\ \A k, c : Write(Screen(i, l, m), k, c) = Screen(i, l, Filled(m, k, c))
           /\ Cursor(Screen(i, l, m)) = Offset(l, i)
  <1>. PICK o : o = VIDEO_ROW_LEN * l
    OBVIOUS
  <1>1. Screen(i, l, m) = [row_offset |-> i, col_offset |-> o, mem |-> m]
    BY DEF Screen
  <1>2. ASSUME NEW j, NEW k
        PROVE  Moved(Screen(i, l, m), j, VIDEO_ROW_LEN * k) = Screen(j, k, m)
    BY <1>1 DEF Moved, Screen
  <1>3. ASSUME NEW k, NEW c
        PROVE  Write(Screen(i, l, m), k, c) = Screen(i, l, Filled(m, k, c))
    BY <1>1 DEF Write, Screen, Filled
  <1>. QED
    BY <1>1, <1>2, <1>3 DEF Cursor, Offset

LEMMA ViewSteps ==
    ASSUME NEW i, NEW l, NEW m
    PROVE  /\ View(i, l, m).page = Grid(m)
           /\ View(i, l, m).x = i
           /\ View(i, l, m).y = l
           /\ \A j, k : Page!Go(View(i, l, m), j, k) = View(j, k, m)
           /\ \A f : Page!Show(View(i, l, m), Grid(f)) = View(i, l, f)
BY DEF View, Page!Go, Page!Show

(* Writing at the cursor of the terminal. *)
LEMMA SetFacts ==
    ASSUME NEW m \in Contents, NEW c \in Chars \cup {Blank},
           NEW l \in Lines, NEW i \in Columns
    PROVE  Page!Set(View(i, l, m), c) = View(i, l, Filled(m, Offset(l, i), c))
  <1>. PICK p : p = View(i, l, m)
    OBVIOUS
  <1>1. p.page = Grid(m) /\ p.x = i /\ p.y = l
        /\ \A f : Page!Show(p, Grid(f)) = View(i, l, f)
    BY ViewSteps
  <1>2. [p.page EXCEPT ![p.y] = [@ EXCEPT ![p.x] = c]] = Cell(Grid(m), l, i, c)
    BY <1>1 DEF Cell
  <1>3. Cell(Grid(m), l, i, c) = Grid(Filled(m, Offset(l, i), c))
    BY FilledGrid
  <1>4. Page!Set(p, c) = Page!Show(p, Grid(Filled(m, Offset(l, i), c)))
    BY <1>2, <1>3, Zenon DEF Page!Set
  <1>. QED
    BY <1>1, <1>4

(* The cursor goes one cell to the right, or to the next line. *)
LEMMA WrappedFacts ==
    ASSUME NEW i \in Columns, NEW l \in Nat, NEW m
    PROVE  Wrapped(Screen(i, l, m)) = IF i = VIDEO_ROW_LEN - 1
                                        THEN Screen(0, l + 1, m)
                                        ELSE Screen(i + 1, l, m)
  <1>1. i + 1 >= VIDEO_ROW_LEN <=> i = VIDEO_ROW_LEN - 1
    BY Sizes DEF Columns
  <1>2. VIDEO_ROW_LEN * l + VIDEO_ROW_LEN = VIDEO_ROW_LEN * (l + 1)
    BY LineFacts
  <1>. QED
    BY <1>1, <1>2, ScreenSteps DEF Wrapped

(* A line behind the page raises the page. *)
LEMMA ScrolledFacts ==
    ASSUME NEW i, NEW l \in Nat, NEW m
    PROVE  Scrolled(Screen(i, l, m)) = IF l >= VIDEO_COL_LEN
                                         THEN Screen(0, VIDEO_COL_LEN - 1, Raised(m))
                                         ELSE Screen(i, l, m)
  <1>1. VIDEO_ROW_LEN * l >= PageSize <=> l >= VIDEO_COL_LEN
    BY LineFacts
  <1>2. scroll_up(Screen(i, l, m)) = Screen(0, VIDEO_COL_LEN - 1, Raised(m))
    BY ScreenSteps, Sizes DEF scroll_up, Screen, Raised
  <1>. QED
    BY <1>1, <1>2, ScreenSteps DEF Scrolled

-----------------------------------------------------------------------------
(* Printing: where the cursor goes and what the memory becomes, on the     *)
(* screen and on the terminal.                                             *)

(* The next line of the terminal. *)
LEMMA DownFacts ==
    ASSUME NEW l \in Lines, NEW m \in Contents
    PROVE  Page!Down(View(0, l, m)) = IF l = VIDEO_COL_LEN - 1
                                        THEN View(0, l, Raised(m))
                                        ELSE View(0, l + 1, m)
  <1>1. l < VIDEO_COL_LEN - 1 <=> l # VIDEO_COL_LEN - 1
    BY Sizes DEF Lines
  <1>2. [k \in 0 .. VIDEO_COL_LEN - 1 |->
            IF k = VIDEO_COL_LEN - 1 THEN Page!Cleared ELSE Grid(m)[k + 1]]
          = Grid(Raised(m))
    BY RaisedGrid DEF Lines, Columns, Page!Cleared
  <1>3. PICK p : p = View(0, l, m)
    OBVIOUS
  <1>4. /\ p.page = Grid(m) /\ p.x = 0 /\ p.y = l
        /\ Page!Go(p, 0, l + 1) = View(0, l + 1, m)
        /\ Page!Show(p, Grid(Raised(m))) = View(0, l, Raised(m))
    BY <1>3, ViewSteps
  <1>5. Page!Down(p) = IF l < VIDEO_COL_LEN - 1
                         THEN Page!Go(p, 0, l + 1)
                         ELSE Page!Show(p, Grid(Raised(m)))
    BY <1>2, <1>4 DEF Page!Down
  <1>. QED
    BY <1>1, <1>3, <1>4, <1>5

(* A new line. *)
LEMMA NewLineFacts ==
    ASSUME NEW i \in Columns, NEW l \in Lines, NEW m \in Contents
    PROVE  /\ print_newline(Screen(i, l, m)) =
                IF l = VIDEO_COL_LEN - 1 THEN Screen(0, l, Raised(m))
                                         ELSE Screen(0, l + 1, m)
           /\ Page!NewLine(View(i, l, m)) =
                IF l = VIDEO_COL_LEN - 1 THEN View(0, l, Raised(m))
                                         ELSE View(0, l + 1, m)
  <1>1. l \in Nat /\ l + 1 \in Nat
        /\ (l + 1 >= VIDEO_COL_LEN <=> l = VIDEO_COL_LEN - 1)
    BY Sizes DEF Lines
  <1>2. VIDEO_ROW_LEN * l + VIDEO_ROW_LEN = VIDEO_ROW_LEN * (l + 1)
    BY <1>1, LineFacts
  <1>3. print_newline(Screen(i, l, m)) = Scrolled(Screen(0, l + 1, m))
    BY <1>2, ScreenSteps DEF print_newline
  <1>. QED
    BY <1>1, <1>3, ScrolledFacts, ViewSteps, DownFacts DEF Page!NewLine

(* A step to the right behind what was written. *)
LEMMA AdvanceFacts ==
    ASSUME NEW i \in Columns, NEW l \in Lines, NEW m \in Contents
    PROVE  Scrolled(Wrapped(Screen(i, l, m))) =
             IF i < VIDEO_ROW_LEN - 1 THEN Screen(i + 1, l, m)
             ELSE IF l = VIDEO_COL_LEN - 1 THEN Screen(0, l, Raised(m))
                                           ELSE Screen(0, l + 1, m)
  <1>1. /\ l \in Nat /\ l + 1 \in Nat /\ ~(l >= VIDEO_COL_LEN)
        /\ (l + 1 >= VIDEO_COL_LEN <=> l = VIDEO_COL_LEN - 1)
        /\ (i < VIDEO_ROW_LEN - 1 <=> i # VIDEO_ROW_LEN - 1)
    BY Sizes DEF Lines, Columns
  <1>. QED
    BY <1>1, WrappedFacts, ScrolledFacts

(* A character on the terminal. *)
LEMMA PutFacts ==
    ASSUME NEW i \in Columns, NEW l \in Lines, NEW m \in Contents,
           NEW c \in Chars \cup {Blank}, NEW w, w = Filled(m, Offset(l, i), c)
    PROVE  Page!Put(View(i, l, m), c) =
             IF i < VIDEO_ROW_LEN - 1 THEN View(i + 1, l, w)
             ELSE IF l = VIDEO_COL_LEN - 1 THEN View(0, l, Raised(w))
                                           ELSE View(0, l + 1, w)
  <1>1. w \in Contents
    BY FilledGrid
  <1>2. Page!Set(View(i, l, m), c) = View(i, l, w)
    BY SetFacts
  <1>. QED
    BY <1>1, <1>2, ViewSteps, NewLineFacts DEF Page!Put

(* Two states that show the same: the cursor and the memory. *)
Same(s, p) == \E i \in Columns, l \in Lines, m \in Contents :
                 s = Screen(i, l, m) /\ p = View(i, l, m)

(* The screen and the terminal with the same cursor and memory. *)
LEMMA SameHere ==
    ASSUME NEW i \in Columns, NEW l \in Lines, NEW m \in Contents
    PROVE  Same(Screen(i, l, m), View(i, l, m))
BY DEF Same

(* The cells where the cursor can be. *)
LEMMA Edges ==
    ASSUME NEW i \in Columns, NEW l \in Lines
    PROVE  /\ i \in Nat /\ l \in Nat
           /\ 0 \in Columns /\ 0 \in Lines
           /\ VIDEO_ROW_LEN - 1 \in Columns /\ VIDEO_COL_LEN - 1 \in Lines
           /\ i < VIDEO_ROW_LEN - 1 <=> i # VIDEO_ROW_LEN - 1
           /\ i # VIDEO_ROW_LEN - 1 => i + 1 \in Columns
           /\ i > 0 => i - 1 \in Columns
           /\ l # VIDEO_COL_LEN - 1 => l + 1 \in Lines
           /\ l > 0 => l - 1 \in Lines
BY Sizes DEF Lines, Columns

(* print_chr(c) at the cursor. *)
LEMMA ChrFacts ==
    ASSUME NEW i \in Columns, NEW l \in Lines, NEW m \in Contents, NEW c \in Chars
    PROVE  Same(print_chr(Screen(i, l, m), c), Page!Put(View(i, l, m), c))
  <1>. PICK w : w = Filled(m, Offset(l, i), c)
    OBVIOUS
  <1>1. w \in Contents /\ Raised(w) \in Contents
    BY FilledGrid, RaisedGrid
  <1>2. print_chr(Screen(i, l, m), c) = Scrolled(Wrapped(Screen(i, l, w)))
    BY ScreenSteps DEF print_chr
  <1>. QED
    BY <1>1, <1>2, AdvanceFacts, PutFacts, Edges DEF Same

(* print_newline(). *)
LEMMA LineFeedFacts ==
    ASSUME NEW i \in Columns, NEW l \in Lines, NEW m \in Contents
    PROVE  Same(print_newline(Screen(i, l, m)), Page!NewLine(View(i, l, m)))
BY NewLineFacts, RaisedGrid, Edges DEF Same

-----------------------------------------------------------------------------
(* The other calls.                                                        *)

(* Going around the page, from the last line to the first and back.        *)
LEMMA Around ==
    ASSUME NEW l \in Lines
    PROVE  /\ (l + 1) % VIDEO_COL_LEN = IF l = VIDEO_COL_LEN - 1 THEN 0 ELSE l + 1
           /\ (l + VIDEO_COL_LEN - 1) % VIDEO_COL_LEN =
                IF l = 0 THEN VIDEO_COL_LEN - 1 ELSE l - 1
  <1>. PICK N : N = VIDEO_COL_LEN
    OBVIOUS
  <1>1. N \in Nat /\ N > 1 /\ l \in 0 .. N - 1
    BY Sizes DEF Lines
  <1>2. \A k \in 0 .. N - 1 : k % N = k /\ (N + k) % N = k
    BY <1>1
  <1>3. l = N - 1 => l + 1 = N + 0 /\ 0 \in 0 .. N - 1
    BY <1>1
  <1>4. l # N - 1 => l + 1 \in 0 .. N - 1
    BY <1>1
  <1>5. l = 0 => l + N - 1 = N - 1 /\ N - 1 \in 0 .. N - 1
    BY <1>1
  <1>6. l # 0 => l + N - 1 = N + (l - 1) /\ l - 1 \in 0 .. N - 1
    BY <1>1
  <1>7. (l + 1) % N = IF l = N - 1 THEN 0 ELSE l + 1
    BY <1>2, <1>3, <1>4
  <1>8. (l + N - 1) % N = IF l = 0 THEN N - 1 ELSE l - 1
    BY <1>2, <1>5, <1>6
  <1>. QED
    BY <1>7, <1>8

(* The cursor keys up and down. *)
LEMMA UpDownFacts ==
    ASSUME NEW i \in Columns, NEW l \in Lines, NEW m \in Contents
    PROVE  /\ Same(move_cursor_up(Screen(i, l, m)), Page!MoveUp(View(i, l, m)))
           /\ Same(move_cursor_down(Screen(i, l, m)), Page!MoveDown(View(i, l, m)))
  <1>1. l \in Nat /\ (l >= VIDEO_COL_LEN - 1 <=> l = VIDEO_COL_LEN - 1)
    BY Sizes DEF Lines
  <1>. DEFINE up == IF l = 0 THEN VIDEO_COL_LEN - 1 ELSE l - 1
              down == IF l = VIDEO_COL_LEN - 1 THEN 0 ELSE l + 1
  <1>2. up \in Lines /\ down \in Lines
    BY Edges
  <1>3. l # 0 => VIDEO_ROW_LEN * l - VIDEO_ROW_LEN = VIDEO_ROW_LEN * (l - 1)
    BY <1>1, LineFacts
  <1>4. VIDEO_ROW_LEN * l + VIDEO_ROW_LEN = VIDEO_ROW_LEN * (l + 1)
    BY <1>1, LineFacts
  <1>5. /\ VIDEO_ROW_LEN * l < VIDEO_ROW_LEN <=> l = 0
        /\ VIDEO_ROW_LEN * l >= LastLine <=> l = VIDEO_COL_LEN - 1
        /\ VIDEO_ROW_LEN * 0 = 0
    BY <1>1, LineFacts
  <1>6. move_cursor_up(Screen(i, l, m)) = Screen(i, up, m)
    BY <1>3, <1>5, ScreenSteps, Sizes DEF move_cursor_up
  <1>7. move_cursor_down(Screen(i, l, m)) = Screen(i, down, m)
    BY <1>4, <1>5, ScreenSteps DEF move_cursor_down
  <1>8. Page!MoveUp(View(i, l, m)) = View(i, up, m)
    BY Around, ViewSteps DEF Page!MoveUp
  <1>9. Page!MoveDown(View(i, l, m)) = View(i, down, m)
    BY Around, ViewSteps DEF Page!MoveDown
  <1>. QED
    BY <1>2, <1>6, <1>7, <1>8, <1>9 DEF Same

(* The cursor keys left and right. *)
LEMMA LeftRightFacts ==
    ASSUME NEW i \in Columns, NEW l \in Lines, NEW m \in Contents
    PROVE  /\ Same(move_cursor_left(Screen(i, l, m)), Page!MoveLeft(View(i, l, m)))
           /\ Same(move_cursor_right(Screen(i, l, m)), Page!MoveRight(View(i, l, m)))
  <1>1. /\ i <= 0 <=> i = 0
        /\ i >= VIDEO_ROW_LEN - 1 <=> i = VIDEO_ROW_LEN - 1
        /\ 0 \in Columns /\ VIDEO_ROW_LEN - 1 \in Columns
        /\ i # 0 => i - 1 \in Columns
        /\ i # VIDEO_ROW_LEN - 1 => i + 1 \in Columns
    BY Sizes DEF Columns
  <1>2. move_cursor_left(Screen(i, l, m)) =
          IF i = 0 THEN move_cursor_up(Screen(VIDEO_ROW_LEN - 1, l, m))
                   ELSE Screen(i - 1, l, m)
    BY <1>1, ScreenSteps DEF move_cursor_left
  <1>3. Page!MoveLeft(View(i, l, m)) =
          IF i = 0 THEN Page!MoveUp(View(VIDEO_ROW_LEN - 1, l, m))
                   ELSE View(i - 1, l, m)
    BY ViewSteps DEF Page!MoveLeft
  <1>4. move_cursor_right(Screen(i, l, m)) =
          IF i = VIDEO_ROW_LEN - 1 THEN move_cursor_down(Screen(0, l, m))
                                   ELSE Screen(i + 1, l, m)
    BY <1>1, ScreenSteps DEF move_cursor_right
  <1>5. Page!MoveRight(View(i, l, m)) =
          IF i = VIDEO_ROW_LEN - 1 THEN Page!MoveDown(View(0, l, m))
                                   ELSE View(i + 1, l, m)
    BY ViewSteps DEF Page!MoveRight
  <1>6. Same(move_cursor_left(Screen(i, l, m)), Page!MoveLeft(View(i, l, m)))
    BY <1>1, <1>2, <1>3, UpDownFacts, SameHere
  <1>7. Same(move_cursor_right(Screen(i, l, m)), Page!MoveRight(View(i, l, m)))
    BY <1>1, <1>4, <1>5, UpDownFacts, SameHere
  <1>. QED
    BY <1>6, <1>7

(* Backspace: back over the start of a line, but not over the page's.      *)
LEMMA BackspaceFacts ==
    ASSUME NEW i \in Columns, NEW l \in Lines, NEW m \in Contents
    PROVE  Same(print_backspace(Screen(i, l, m)), Page!Erase(View(i, l, m)))
  <1>1. /\ i \in Nat /\ l \in Nat /\ VIDEO_ROW_LEN - 1 \in Columns
        /\ i <= 0 <=> i = 0
        /\ i > 0 <=> i # 0
        /\ l > 0 <=> l # 0
        /\ i # 0 => i - 1 \in Columns
        /\ l # 0 => l - 1 \in Lines
    BY Sizes DEF Columns, Lines
  <1>2. /\ l # 0 => VIDEO_ROW_LEN * l - VIDEO_ROW_LEN = VIDEO_ROW_LEN * (l - 1)
        /\ VIDEO_ROW_LEN * l <= 0 <=> l = 0
    BY <1>1, LineFacts
  <1>3. ASSUME NEW j \in Columns, NEW k \in Lines
        PROVE  Same(Write(Screen(j, k, m), Cursor(Screen(j, k, m)), Blank),
                    Page!Set(View(j, k, m), Blank))
    <2>1. Filled(m, Offset(k, j), Blank) \in Contents
      BY FilledGrid
    <2>2. Write(Screen(j, k, m), Cursor(Screen(j, k, m)), Blank)
            = Screen(j, k, Filled(m, Offset(k, j), Blank))
      BY ScreenSteps
    <2>3. Page!Set(View(j, k, m), Blank) = View(j, k, Filled(m, Offset(k, j), Blank))
      BY SetFacts
    <2>. QED
      BY <2>1, <2>2, <2>3 DEF Same
  <1>. DEFINE j == IF i = 0 THEN VIDEO_ROW_LEN - 1 ELSE i - 1
              k == IF i = 0 THEN l - 1 ELSE l
  <1>. PICK s : s = Screen(i, l, m)
    OBVIOUS
  <1>4. CASE i = 0 /\ l = 0
    <2>1. print_backspace(s) = s
      BY <1>1, <1>2, <1>4, ScreenSteps DEF print_backspace
    <2>2. Page!Erase(View(i, l, m)) = View(i, l, m)
      BY <1>1, <1>4, ViewSteps DEF Page!Erase
    <2>. QED
      BY <2>1, <2>2 DEF Same
  <1>5. CASE i = 0 /\ l # 0
    <2>1. print_backspace(s) = Write(Screen(VIDEO_ROW_LEN - 1, l - 1, m),
                                     Cursor(Screen(VIDEO_ROW_LEN - 1, l - 1, m)), Blank)
      BY <1>1, <1>2, <1>5, ScreenSteps DEF print_backspace
    <2>2. Page!Erase(View(i, l, m)) = Page!Set(View(VIDEO_ROW_LEN - 1, l - 1, m), Blank)
      BY <1>1, <1>5, ViewSteps DEF Page!Erase
    <2>. QED
      BY <1>1, <1>3, <1>5, <2>1, <2>2
  <1>6. CASE i # 0
    <2>1. print_backspace(s) = Write(Screen(i - 1, l, m),
                                     Cursor(Screen(i - 1, l, m)), Blank)
      BY <1>1, <1>6, ScreenSteps DEF print_backspace
    <2>2. Page!Erase(View(i, l, m)) = Page!Set(View(i - 1, l, m), Blank)
      BY <1>1, <1>6, ViewSteps DEF Page!Erase
    <2>. QED
      BY <1>1, <1>3, <1>6, <2>1, <2>2
  <1>. QED
    BY <1>4, <1>5, <1>6

(* Positioning the cursor. *)
LEMMA PositionFacts ==
    ASSUME NEW i \in Columns, NEW l \in Lines, NEW m \in Contents,
           NEW x \in Columns, NEW y \in Lines
    PROVE  Same(move_cursor_to(Screen(i, l, m), x, y), Page!Go(View(i, l, m), x, y))
BY ScreenSteps, ViewSteps DEF move_cursor_to, Same

(* The line of the lock keys: clear_row clears the row below row y - 1,    *)
(* where y is a u8 and not zero behind a line feed.                        *)
LEMMA StatusFacts ==
    ASSUME NEW i \in Columns, NEW l \in Lines, NEW m \in Contents
    PROVE  Same(StatusLine(Screen(i, l, m)), Page!StatusLine(View(i, l, m)))
  <1>1. PICK k \in Lines, f \in Contents :
          /\ k > 0
          /\ print_newline(Screen(i, l, m)) = Screen(0, k, f)
          /\ Page!NewLine(View(i, l, m)) = View(0, k, f)
    <2>1. CASE l = VIDEO_COL_LEN - 1
      BY <2>1, NewLineFacts, RaisedGrid, Sizes
    <2>2. CASE l # VIDEO_COL_LEN - 1
      BY <2>2, NewLineFacts, Edges
    <2>. QED
      BY <2>1, <2>2
  <1>2. PICK g : g = [j \in Cells |-> IF j \div VIDEO_ROW_LEN = k THEN Blank ELSE f[j]]
    OBVIOUS
  <1>3. k \in Nat /\ ((k + 255) % 256) + 1 = k
    BY <1>1, Sizes DEF Lines
  <1>4. (VIDEO_ROW_LEN * k) \div VIDEO_ROW_LEN = k
    BY <1>3, LineFacts
  <1>5. StatusLine(Screen(i, l, m)) = Screen(0, k, g)
    <2>. PICK s : s = Screen(0, k, f)
      OBVIOUS
    <2>1. s.col_offset = VIDEO_ROW_LEN * k /\ s.mem = f
      BY ScreenSteps
    <2>2. get_cursor_coord(s).y = k
      BY <1>4, <2>1 DEF get_cursor_coord
    <2>3. clear_row(s, k + 255) = Screen(0, k, g)
      BY <1>3, <1>2, <2>1 DEF clear_row, Screen
    <2>. QED
      BY <1>1, <2>2, <2>3 DEF StatusLine
  <1>6. Grid(g) = [Grid(f) EXCEPT ![k] = Page!Cleared]
    <2>1. ASSUME NEW n \in Lines, NEW j \in Columns
          PROVE  g[Offset(n, j)] = IF n = k THEN Blank ELSE f[Offset(n, j)]
      <3>1. Offset(n, j) \div VIDEO_ROW_LEN = n
        BY OffsetDiv
      <3>2. Offset(n, j) \in Cells
        BY OffsetFacts
      <3>. QED
        BY <1>2, <3>1, <3>2
    <2>2. Grid(g) = [n \in Lines |-> [j \in Columns |->
                        IF n = k THEN Blank ELSE f[Offset(n, j)]]]
      BY <2>1 DEF Grid
    <2>3. [Grid(f) EXCEPT ![k] = Page!Cleared]
            = [n \in Lines |-> [j \in Columns |->
                        IF n = k THEN Blank ELSE f[Offset(n, j)]]]
      BY DEF Grid, Page!Cleared, Columns
    <2>. QED
      BY <2>2, <2>3
  <1>7. Page!StatusLine(View(i, l, m)) = View(0, k, g)
    <2>. PICK q : q = View(0, k, f)
      OBVIOUS
    <2>1. q.page = Grid(f) /\ q.y = k /\ Page!Show(q, Grid(g)) = View(0, k, g)
      BY ViewSteps
    <2>2. Page!StatusLine(View(i, l, m)) = Page!Show(q, [q.page EXCEPT ![q.y] = Page!Cleared])
      BY <1>1 DEF Page!StatusLine
    <2>. QED
      BY <1>6, <2>1, <2>2, Zenon
  <1>8. g \in Contents
    BY <1>2 DEF Contents
  <1>. QED
    BY <1>5, <1>7, <1>8, Edges DEF Same

-----------------------------------------------------------------------------
(* Numbers.                                                                *)

(* The memory m with the digits above lo and up to hi at their places      *)
(* behind the offset st.                                                   *)
Laid(m, st, lo, hi, d) ==
    [k \in Cells |-> IF st + lo <= k /\ k < st + hi THEN d[k - st + 1] ELSE m[k]]

(* Digits can be shown. *)
LEMMA LaidType ==
    ASSUME NEW m \in Contents, NEW st \in Nat, NEW d \in Seq(Chars \cup {Blank}),
           NEW lo \in Nat, NEW hi \in Nat, hi <= Len(d)
    PROVE  Laid(m, st, lo, hi, d) \in Contents
  <1>1. \A k \in Cells : k \in Nat
    BY Sizes DEF Cells
  <1>2. ASSUME NEW k \in Cells, st + lo <= k, k < st + hi
        PROVE  d[k - st + 1] \in Chars \cup {Blank}
    <2>1. k - st + 1 \in 1 .. Len(d)
      BY <1>1, <1>2
    <2>. QED
      BY <2>1
  <1>. QED
    BY <1>2 DEF Laid, Contents

(* No digits. *)
LEMMA LaidNone ==
    ASSUME NEW m \in Contents, NEW st \in Nat, NEW d, NEW lo \in Nat
    PROVE  Laid(m, st, lo, lo, d) = m
  <1>1. \A k \in Cells : ~(st + lo <= k /\ k < st + lo)
    BY Sizes DEF Cells
  <1>2. m = [k \in Cells |-> m[k]]
    BY DEF Contents
  <1>. QED
    BY <1>1, <1>2 DEF Laid

(* A digit in front, as print_unum writes them. *)
LEMMA LaidFront ==
    ASSUME NEW m, NEW st \in Nat, NEW d, NEW lo \in Nat, NEW hi \in Nat, lo < hi
    PROVE  Filled(Laid(m, st, lo + 1, hi, d), st + lo, d[lo + 1])
             = Laid(m, st, lo, hi, d)
  <1>1. ASSUME NEW k \in Cells
        PROVE  (IF k = st + lo THEN d[lo + 1]
                ELSE IF st + (lo + 1) <= k /\ k < st + hi THEN d[k - st + 1] ELSE m[k])
               = IF st + lo <= k /\ k < st + hi THEN d[k - st + 1] ELSE m[k]
    <2>1. k \in Nat
      BY Sizes DEF Cells
    <2>2. k = st + lo => k - st + 1 = lo + 1 /\ st + lo <= k /\ k < st + hi
      BY <2>1
    <2>3. k # st + lo => (st + lo <= k <=> st + (lo + 1) <= k)
      BY <2>1
    <2>. QED
      BY <2>2, <2>3
  <1>. QED
    BY <1>1 DEF Laid, Filled

(* A digit behind, as they are read. *)
LEMMA LaidBehind ==
    ASSUME NEW m, NEW st \in Nat, NEW d, NEW hi \in Nat
    PROVE  Filled(Laid(m, st, 0, hi, d), st + hi, d[hi + 1])
             = Laid(m, st, 0, hi + 1, d)
  <1>1. ASSUME NEW k \in Cells
        PROVE  (IF k = st + hi THEN d[hi + 1]
                ELSE IF st + 0 <= k /\ k < st + hi THEN d[k - st + 1] ELSE m[k])
               = IF st + 0 <= k /\ k < st + (hi + 1) THEN d[k - st + 1] ELSE m[k]
    <2>1. k \in Nat
      BY Sizes DEF Cells
    <2>2. k = st + hi => k - st + 1 = hi + 1 /\ st + 0 <= k /\ k < st + (hi + 1)
      BY <2>1
    <2>3. k # st + hi => (k < st + hi <=> k < st + (hi + 1))
      BY <2>1
    <2>. QED
      BY <2>2, <2>3
  <1>. QED
    BY <1>1 DEF Laid, Filled

(* Scrolling moves what was laid out on the last line, up to its end, to   *)
(* the line above.                                                         *)
LEMMA LaidRaised ==
    ASSUME NEW m \in Contents, NEW st \in Nat, NEW d, NEW lo \in Nat, NEW hi \in Nat,
           LastLine <= st, st + hi = PageSize, lo <= hi
    PROVE  Raised(Laid(m, st, lo, hi, d))
             = Laid(Raised(m), st - VIDEO_ROW_LEN, lo, hi, d)
  <1>. DEFINE L == VIDEO_ROW_LEN
              low == LastLine
  <1>1. /\ L \in Nat /\ low \in Nat /\ L <= low /\ low + L = PageSize
        /\ Cells = 0 .. low + L - 1
    <2>1. L * (VIDEO_COL_LEN - 1) >= L
      BY Sizes
    <2>. QED
      BY <2>1, Sizes DEF Cells
  <1>. HIDE DEF L, low
  <1>2. ASSUME NEW k \in Cells
        PROVE  (IF k < low
                  THEN IF st + lo <= k + L /\ k + L < st + hi THEN d[(k + L) - st + 1]
                                                              ELSE m[k + L]
                  ELSE Blank)
               = IF (st - L) + lo <= k /\ k < (st - L) + hi
                   THEN d[k - (st - L) + 1]
                   ELSE IF k < low THEN m[k + L] ELSE Blank
    <2>1. k \in Nat
      BY <1>1
    <2>2. /\ (st - L) + lo <= k <=> st + lo <= k + L
          /\ k < (st - L) + hi <=> k + L < st + hi
          /\ k - (st - L) + 1 = (k + L) - st + 1
      BY <1>1, <2>1
    <2>3. k < (st - L) + hi => k < low
      BY <1>1, <2>1
    <2>. QED
      BY <2>2, <2>3
  <1>3. \A k \in Cells : k < low => k + L \in Cells
    BY <1>1
  <1>4. Raised(Laid(m, st, lo, hi, d)) =
          [k \in Cells |->
             IF k < low
               THEN IF st + lo <= k + L /\ k + L < st + hi THEN d[(k + L) - st + 1]
                                                           ELSE m[k + L]
               ELSE Blank]
    <2>1. PICK v : v = Laid(m, st, lo, hi, d)
      OBVIOUS
    <2>2. \A j \in Cells : v[j] = IF st + lo <= j /\ j < st + hi
                                    THEN d[j - st + 1] ELSE m[j]
      BY <2>1 DEF Laid
    <2>3. \A k \in Cells : k < low =>
             v[k + L] = IF st + lo <= k + L /\ k + L < st + hi
                          THEN d[(k + L) - st + 1] ELSE m[k + L]
      BY <1>3, <2>2
    <2>4. Raised(v) = [k \in Cells |-> IF k < low THEN v[k + L] ELSE Blank]
      BY DEF Raised, L, low
    <2>. QED
      BY <2>1, <2>3, <2>4
  <1>5. Laid(Raised(m), st - L, lo, hi, d) =
          [k \in Cells |->
             IF (st - L) + lo <= k /\ k < (st - L) + hi
               THEN d[k - (st - L) + 1]
               ELSE IF k < low THEN m[k + L] ELSE Blank]
    BY DEF Laid, Raised, L, low
  <1>. QED
    BY <1>2, <1>4, <1>5 DEF L

(* The loop of print_unum at the screen s, with the number's start. *)
Printing(s, st) == [s |-> s, start |-> st]

(* One digit. *)
LEMMA DigitFacts ==
    ASSUME NEW j \in Columns, NEW k \in Lines, NEW f \in Contents, NEW st,
           NEW place, NEW c, Filled(f, st + place, c) \in Contents
    PROVE  print_digit(Printing(Screen(j, k, f), st), place, c) =
             IF j < VIDEO_ROW_LEN - 1
               THEN Printing(Screen(j + 1, k, Filled(f, st + place, c)), st)
             ELSE IF k = VIDEO_COL_LEN - 1
               THEN Printing(Screen(0, k, Raised(Filled(f, st + place, c))),
                             st - VIDEO_ROW_LEN)
             ELSE Printing(Screen(0, k + 1, Filled(f, st + place, c)), st)
  <1>. PICK w \in Contents : w = Filled(f, st + place, c)
    OBVIOUS
  <1>. PICK r : r = Printing(Screen(j, k, f), st)
    OBVIOUS
  <1>1. r.s = Screen(j, k, f) /\ r.start = st
    BY DEF Printing
  <1>2. Write(r.s, r.start + place, c) = Screen(j, k, w)
    BY <1>1, ScreenSteps
  <1>3. /\ k \in Nat /\ k + 1 \in Nat /\ ~(k >= VIDEO_COL_LEN)
        /\ (k + 1 >= VIDEO_COL_LEN <=> k = VIDEO_COL_LEN - 1)
        /\ (j < VIDEO_ROW_LEN - 1 <=> j # VIDEO_ROW_LEN - 1)
    BY Sizes DEF Lines, Columns
  <1>. PICK t : t = Wrapped(Screen(j, k, w))
    OBVIOUS
  <1>4. t.col_offset >= PageSize <=> j = VIDEO_ROW_LEN - 1 /\ k = VIDEO_COL_LEN - 1
    <2>1. t.col_offset = VIDEO_ROW_LEN * (IF j = VIDEO_ROW_LEN - 1 THEN k + 1 ELSE k)
      BY <1>3, WrappedFacts, ScreenSteps
    <2>2. /\ VIDEO_ROW_LEN * k >= PageSize <=> k >= VIDEO_COL_LEN
          /\ VIDEO_ROW_LEN * (k + 1) >= PageSize <=> k + 1 >= VIDEO_COL_LEN
      BY <1>3, LineFacts
    <2>. QED
      BY <1>3, <2>1, <2>2
  <1>5. print_digit(r, place, c) =
          Printing(Scrolled(t),
                   IF j = VIDEO_ROW_LEN - 1 /\ k = VIDEO_COL_LEN - 1
                     THEN st - VIDEO_ROW_LEN ELSE st)
    BY <1>1, <1>2, <1>4 DEF print_digit, Printing
  <1>6. Scrolled(t) =
          IF j < VIDEO_ROW_LEN - 1 THEN Screen(j + 1, k, w)
          ELSE IF k = VIDEO_COL_LEN - 1 THEN Screen(0, k, Raised(w))
                                        ELSE Screen(0, k + 1, w)
    BY AdvanceFacts
  <1>. QED
    BY <1>3, <1>5, <1>6

-----------------------------------------------------------------------------
(* Recursion.                                                              *)

(* A set of numbers has a smallest one. *)
LEMMA LeastExists ==
    ASSUME NEW S \in SUBSET Nat, S # {}
    PROVE  \E a \in S : \A b \in S : a <= b
  <1>1. PICK a \in S : \A b \in S : <<b, a>> \notin OpToRel(<, Nat)
    BY NatLessThanWellFounded, WFMin
  <1>2. \A b \in S : ~(b < a)
    BY <1>1 DEF OpToRel
  <1>. QED
    BY <1>2, SMT

(* Functions that agree at zero, and at each number if they agree before   *)
(* it, agree.                                                              *)
Alike(f, g, n) == /\ f[0] = g[0]
                  /\ \A i \in 1 .. n : f[i - 1] = g[i - 1] => f[i] = g[i]

LEMMA Agree ==
    ASSUME NEW n \in Nat, NEW f, NEW g, Alike(f, g, n)
    PROVE  \A i \in 0 .. n : f[i] = g[i]
  <1>. DEFINE Bad == {i \in 0 .. n : f[i] # g[i]}
  <1>1. ASSUME Bad # {}
        PROVE  FALSE
    <2>1. Bad \in SUBSET Nat
      OBVIOUS
    <2>2. PICK a \in Bad : \A b \in Bad : a <= b
      <3>. HIDE DEF Bad
      <3>. QED
        BY <1>1, <2>1, LeastExists
    <2>3. a \in 0 .. n /\ f[a] # g[a] /\ a # 0
      BY <2>2 DEF Alike
    <2>4. a \in 1 .. n /\ a - 1 \in 0 .. n /\ a - 1 \notin Bad
      BY <2>2, <2>3
    <2>. QED
      BY <2>3, <2>4 DEF Alike
  <1>. QED
    BY <1>1

-----------------------------------------------------------------------------
(* A number on the screen.                                                 *)

(* What print_unum leaves behind: digits that follow each other, on the    *)
(* cursor's line and, behind its room for them, on the next one.  On the   *)
(* last line the digits that are written before the page scrolls, the last *)
(* ones, are only raised as far as they are on the page.                   *)
Room(i) == VIDEO_ROW_LEN - i
Above(i, l, m, d) == Raised(Laid(m, Offset(l, i), Len(d) - Room(i), Len(d), d))
Number(i, l, m, d) ==
    IF Len(d) < Room(i)
      THEN Screen(i + Len(d), l, Laid(m, Offset(l, i), 0, Len(d), d))
    ELSE IF l # VIDEO_COL_LEN - 1
      THEN Screen(Len(d) - Room(i), l + 1, Laid(m, Offset(l, i), 0, Len(d), d))
    ELSE Screen(Len(d) - Room(i), l,
                Laid(Above(i, l, m, d), Offset(l, i) - VIDEO_ROW_LEN,
                     0, Len(d) - Room(i), d))

(* The same behind the first n digits that are written, which are the last *)
(* ones of the number.                                                     *)
Written(i, l, m, d, n) ==
    IF n < Room(i)
      THEN Printing(Screen(i + n, l, Laid(m, Offset(l, i), Len(d) - n, Len(d), d)),
                    Offset(l, i))
    ELSE IF l # VIDEO_COL_LEN - 1
      THEN Printing(Screen(n - Room(i), l + 1,
                           Laid(m, Offset(l, i), Len(d) - n, Len(d), d)),
                    Offset(l, i))
    ELSE Printing(Screen(n - Room(i), l,
                         Laid(Above(i, l, m, d), Offset(l, i) - VIDEO_ROW_LEN,
                              Len(d) - n, Len(d) - Room(i), d)),
                  Offset(l, i) - VIDEO_ROW_LEN)

(* The cursor's cell and the room on its line, which the numbers overrun   *)
(* by less than a line.                                                    *)
LEMMA RoomFacts ==
    ASSUME NEW i \in Columns, NEW l \in Lines
    PROVE  /\ Room(i) \in Nat /\ Room(i) > 0 /\ i + Room(i) = VIDEO_ROW_LEN
           /\ Room(i) <= VIDEO_ROW_LEN
           /\ Offset(l, i) \in Nat
           /\ l = VIDEO_COL_LEN - 1 =>
                /\ Offset(l, i) >= LastLine
                /\ Offset(l, i) - VIDEO_ROW_LEN \in Nat
                /\ Offset(l, i) + Room(i) = PageSize
                /\ (Offset(l, i) - VIDEO_ROW_LEN) + Room(i) = LastLine
  <1>1. i \in Nat /\ i < VIDEO_ROW_LEN /\ l \in Nat
    BY Sizes DEF Columns, Lines
  <1>2. Room(i) \in Nat /\ Room(i) > 0 /\ i + Room(i) = VIDEO_ROW_LEN
        /\ Room(i) <= VIDEO_ROW_LEN
    BY <1>1, Sizes DEF Room
  <1>3. Offset(l, i) \in Nat
    BY OffsetFacts, Sizes DEF Cells
  <1>4. ASSUME l = VIDEO_COL_LEN - 1
        PROVE  Offset(l, i) = LastLine + i
    BY <1>4, Sizes DEF Offset
  <1>5. LastLine >= VIDEO_ROW_LEN
    <2>1. VIDEO_ROW_LEN * (VIDEO_COL_LEN - 1) >= VIDEO_ROW_LEN
      BY Sizes
    <2>. QED
      BY <2>1, Sizes
  <1>. QED
    BY <1>1, <1>2, <1>3, <1>4, <1>5, Sizes

(* One more digit, in front of those that are laid. *)
LEMMA LaidNext ==
    ASSUME NEW m \in Contents, NEW st \in Nat, NEW d \in Seq(Chars),
           NEW low \in Nat, NEW hi \in Nat, low < hi, hi <= Len(d)
    PROVE  /\ Laid(m, st, low + 1, hi, d) \in Contents
           /\ Filled(Laid(m, st, low + 1, hi, d), st + low, d[low + 1]) \in Contents
           /\ Filled(Laid(m, st, low + 1, hi, d), st + low, d[low + 1])
                = Laid(m, st, low, hi, d)
  <1>1. low + 1 \in Nat /\ d \in Seq(Chars \cup {Blank})
    OBVIOUS
  <1>2. Laid(m, st, low + 1, hi, d) \in Contents
    BY <1>1, LaidType
  <1>3. Laid(m, st, low, hi, d) \in Contents
    BY <1>1, LaidType
  <1>4. Filled(Laid(m, st, low + 1, hi, d), st + low, d[low + 1])
          = Laid(m, st, low, hi, d)
    BY LaidFront
  <1>. QED
    BY <1>2, <1>3, <1>4

(* The columns of the cursor. *)
LEMMA Steps ==
    ASSUME NEW i \in Columns, NEW room, room = Room(i),
           NEW n \in Nat, n > 0, n <= VIDEO_ROW_LEN
    PROVE  /\ n < room => /\ i + (n - 1) \in Columns
                          /\ i + (n - 1) < VIDEO_ROW_LEN - 1
                          /\ (i + (n - 1)) + 1 = i + n
                          /\ n - 1 < room
           /\ n = room => /\ i + (n - 1) = VIDEO_ROW_LEN - 1
                          /\ VIDEO_ROW_LEN - 1 \in Columns
                          /\ n - 1 < room /\ ~(n < room) /\ n - room = 0
           /\ n > room => /\ (n - 1) - room \in Columns
                          /\ (n - 1) - room < VIDEO_ROW_LEN - 1
                          /\ ((n - 1) - room) + 1 = n - room
                          /\ ~(n - 1 < room) /\ ~(n < room)
BY Sizes DEF Columns, Room

(* One more digit. *)
LEMMA WrittenStep ==
    ASSUME NEW i \in Columns, NEW l \in Lines, NEW m \in Contents,
           NEW d \in Seq(Chars), Len(d) \in 1 .. VIDEO_ROW_LEN, NEW n \in 1 .. Len(d)
    PROVE  print_digit(Written(i, l, m, d, n - 1), Len(d) - n, d[Len(d) + 1 - n])
             = Written(i, l, m, d, n)
  <1>1. PICK len, low : len = Len(d) /\ low = Len(d) - n
    OBVIOUS
  <1>2. PICK st, room : st = Offset(l, i) /\ room = Room(i)
    OBVIOUS
  <1>3. PICK c, last : c = d[Len(d) + 1 - n] /\ last = VIDEO_COL_LEN - 1
    OBVIOUS
  <1>4. /\ len \in Nat /\ n \in Nat /\ n > 0 /\ n <= len /\ len <= VIDEO_ROW_LEN
        /\ low \in Nat /\ low < len /\ low = len - n
        /\ n <= VIDEO_ROW_LEN
    BY <1>1, Sizes
  <1>5. len - (n - 1) = low + 1 /\ (len + 1) - n = low + 1 /\ c = d[low + 1]
    <2>1. Len(d) + 1 - n = low + 1
      BY <1>1, <1>4
    <2>. QED
      BY <1>1, <1>3, <1>4, <2>1
  <1>6. /\ room \in Nat /\ room > 0 /\ st \in Nat
        /\ l = last => st - VIDEO_ROW_LEN \in Nat
    BY <1>2, <1>3, RoomFacts
  <1>7. PICK f : f = Laid(m, st, low + 1, len, d)
    OBVIOUS
  <1>8. /\ f \in Contents
        /\ Filled(f, st + low, c) \in Contents
        /\ Filled(f, st + low, c) = Laid(m, st, low, len, d)
    <2>1. len <= Len(d)
      BY <1>1, <1>4
    <2>2. /\ Laid(m, st, low + 1, len, d) \in Contents
          /\ Filled(Laid(m, st, low + 1, len, d), st + low, d[low + 1]) \in Contents
          /\ Filled(Laid(m, st, low + 1, len, d), st + low, d[low + 1])
               = Laid(m, st, low, len, d)
      BY <1>4, <1>6, <2>1, LaidNext
    <2>. QED
      BY <1>5, <1>7, <2>2
  <1>9. CASE n < room
    <2>1. Written(i, l, m, d, n - 1) = Printing(Screen(i + (n - 1), l, f), st)
      BY <1>1, <1>2, <1>4, <1>5, <1>7, <1>9, Steps DEF Written
    <2>2. Written(i, l, m, d, n) = Printing(Screen(i + n, l, Filled(f, st + low, c)), st)
      BY <1>1, <1>2, <1>4, <1>8, <1>9 DEF Written
    <2>3. i + (n - 1) \in Columns /\ i + (n - 1) < VIDEO_ROW_LEN - 1
          /\ (i + (n - 1)) + 1 = i + n
      BY <1>2, <1>4, <1>9, Steps
    <2>. PICK j \in Columns : j = i + (n - 1)
      BY <2>3
    <2>4. print_digit(Printing(Screen(j, l, f), st), low, c)
            = Printing(Screen(j + 1, l, Filled(f, st + low, c)), st)
      BY <1>8, <2>3, DigitFacts
    <2>. QED
      BY <1>1, <1>3, <2>1, <2>2, <2>3, <2>4
  <1>10. CASE n = room
    <2>1. Written(i, l, m, d, n - 1) = Printing(Screen(VIDEO_ROW_LEN - 1, l, f), st)
      BY <1>1, <1>2, <1>4, <1>5, <1>7, <1>10, Steps DEF Written
    <2>2. print_digit(Written(i, l, m, d, n - 1), low, c) =
            IF l = last
              THEN Printing(Screen(0, l, Raised(Filled(f, st + low, c))),
                            st - VIDEO_ROW_LEN)
              ELSE Printing(Screen(0, l + 1, Filled(f, st + low, c)), st)
      <3>1. VIDEO_ROW_LEN - 1 \in Columns /\ ~(VIDEO_ROW_LEN - 1 < VIDEO_ROW_LEN - 1)
        BY Sizes DEF Columns
      <3>2. print_digit(Printing(Screen(VIDEO_ROW_LEN - 1, l, f), st), low, c) =
              IF l = VIDEO_COL_LEN - 1
                THEN Printing(Screen(0, l, Raised(Filled(f, st + low, c))),
                              st - VIDEO_ROW_LEN)
                ELSE Printing(Screen(0, l + 1, Filled(f, st + low, c)), st)
        BY <1>8, <3>1, DigitFacts
      <3>. QED
        BY <1>3, <2>1, <3>2
    <2>3. ~(n < room) /\ n - room = 0 /\ len - room = low
      BY <1>2, <1>4, <1>10, Steps
    <2>4. l # last => Written(i, l, m, d, n) =
                        Printing(Screen(0, l + 1, Filled(f, st + low, c)), st)
      BY <1>1, <1>2, <1>3, <1>8, <2>3 DEF Written
    <2>5. ASSUME l = last
          PROVE  Written(i, l, m, d, n) =
                   Printing(Screen(0, l, Raised(Filled(f, st + low, c))),
                            st - VIDEO_ROW_LEN)
      <3>. PICK base : base = Raised(Filled(f, st + low, c))
        OBVIOUS
      <3>1. Above(i, l, m, d) = base
        BY <1>1, <1>2, <1>8, <2>3 DEF Above
      <3>2. base \in Contents
        BY <1>8, RaisedGrid
      <3>3. Laid(base, st - VIDEO_ROW_LEN, low, low, d) = base
        BY <1>4, <1>6, <2>5, <3>2, LaidNone
      <3>. QED
        BY <1>1, <1>2, <1>3, <2>3, <2>5, <3>1, <3>3 DEF Written
    <2>. QED
      BY <1>1, <1>3, <2>2, <2>4, <2>5
  <1>11. CASE n > room
    <2>1. PICK j \in Columns : /\ j = (n - 1) - room
                               /\ j < VIDEO_ROW_LEN - 1 /\ j + 1 = n - room
                               /\ ~(n - 1 < room) /\ ~(n < room)
      BY <1>2, <1>4, <1>11, Steps
    <2>2. CASE l # last
      <3>1. Written(i, l, m, d, n - 1) = Printing(Screen(j, l + 1, f), st)
        BY <1>1, <1>2, <1>3, <1>5, <1>7, <2>1, <2>2 DEF Written
      <3>2. Written(i, l, m, d, n) =
              Printing(Screen(n - room, l + 1, Filled(f, st + low, c)), st)
        BY <1>1, <1>2, <1>3, <1>8, <2>1, <2>2 DEF Written
      <3>3. l + 1 \in Lines
        BY <1>3, <2>2, Edges
      <3>4. print_digit(Printing(Screen(j, l + 1, f), st), low, c)
              = Printing(Screen(j + 1, l + 1, Filled(f, st + low, c)), st)
        BY <1>8, <2>1, <3>3, DigitFacts
      <3>. QED
        BY <1>1, <1>3, <2>1, <3>1, <3>2, <3>4
    <2>3. CASE l = last
      <3>1. PICK base, hi, up : /\ base = Above(i, l, m, d)
                                /\ hi = len - room
                                /\ up = st - VIDEO_ROW_LEN
        OBVIOUS
      <3>2. PICK g : g = Laid(base, up, low + 1, hi, d)
        OBVIOUS
      <3>3. hi \in Nat /\ low < hi /\ hi <= len /\ up \in Nat
        BY <1>3, <1>4, <1>6, <1>11, <2>3, <3>1
      <3>4. base \in Contents
        <4>1. d \in Seq(Chars \cup {Blank})
          OBVIOUS
        <4>2. Laid(m, st, hi, len, d) \in Contents
          BY <1>1, <1>4, <1>6, <3>1, <3>3, <4>1, LaidType
        <4>. QED
          BY <1>1, <1>2, <3>1, <4>2, RaisedGrid DEF Above
      <3>5. Written(i, l, m, d, n - 1) = Printing(Screen(j, l, g), up)
        BY <1>1, <1>2, <1>3, <1>5, <2>1, <2>3, <3>1, <3>2 DEF Written
      <3>6. Written(i, l, m, d, n) =
              Printing(Screen(n - room, l, Laid(base, up, low, hi, d)), up)
        BY <1>1, <1>2, <1>3, <2>1, <2>3, <3>1 DEF Written
      <3>7. /\ g \in Contents
            /\ Filled(g, up + low, c) \in Contents
            /\ Filled(g, up + low, c) = Laid(base, up, low, hi, d)
        <4>1. hi <= Len(d)
          BY <1>1, <1>4, <3>3
        <4>2. /\ Laid(base, up, low + 1, hi, d) \in Contents
              /\ Filled(Laid(base, up, low + 1, hi, d), up + low, d[low + 1])
                   \in Contents
              /\ Filled(Laid(base, up, low + 1, hi, d), up + low, d[low + 1])
                   = Laid(base, up, low, hi, d)
          BY <1>4, <3>3, <3>4, <4>1, LaidNext
        <4>. QED
          BY <1>5, <3>2, <4>2
      <3>8. print_digit(Printing(Screen(j, l, g), up), low, c)
              = Printing(Screen(j + 1, l, Filled(g, up + low, c)), up)
        BY <2>1, <3>7, DigitFacts
      <3>. QED
        BY <1>1, <1>3, <2>1, <3>5, <3>6, <3>7, <3>8
    <2>. QED
      BY <2>2, <2>3
  <1>. QED
    BY <1>4, <1>6, <1>9, <1>10, <1>11

(* The whole number. *)
LEMMA UnumFacts ==
    ASSUME NEW i \in Columns, NEW l \in Lines, NEW m \in Contents,
           NEW d \in Seq(Chars), Len(d) \in 1 .. VIDEO_ROW_LEN
    PROVE  print_unum(Screen(i, l, m), d) = Number(i, l, m, d)
  <1>1. PICK s, len : s = Screen(i, l, m) /\ len = Len(d)
    OBVIOUS
  <1>2. len \in Nat /\ len > 0 /\ len <= VIDEO_ROW_LEN
    BY <1>1, Sizes
  <1>. DEFINE First == Printing(s, Cursor(s))
              More(r, n) == print_digit(r, len - n, d[len + 1 - n])
              Expand(f) == [n \in 0 .. len |-> IF n = 0 THEN First ELSE More(f[n - 1], n)]
  <1>3. First = Written(i, l, m, d, 0)
    <2>1. Laid(m, Offset(l, i), len, len, d) = m
      BY <1>2, RoomFacts, LaidNone
    <2>2. len - 0 = len /\ i + 0 = i
      BY <1>2, Sizes DEF Columns
    <2>3. 0 < Room(i)
      BY RoomFacts
    <2>4. Written(i, l, m, d, 0) = Printing(Screen(i, l, m), Offset(l, i))
      BY <1>1, <2>1, <2>2, <2>3 DEF Written
    <2>. QED
      BY <1>1, <2>4, ScreenSteps
  <1>4. ASSUME NEW n \in 1 .. len
        PROVE  More(Written(i, l, m, d, n - 1), n) = Written(i, l, m, d, n)
    BY <1>1, WrittenStep
  <1>5. print_unum(s, d) = (CHOOSE f : f = Expand(f))[len].s
    BY <1>1 DEF print_unum, Printing
  <1>. HIDE DEF First, More
  <1>6. PICK w : w = [n \in 0 .. len |-> Written(i, l, m, d, n)]
    OBVIOUS
  <1>7. w = Expand(w)
    <2>1. ASSUME NEW n \in 0 .. len
          PROVE  Written(i, l, m, d, n) = IF n = 0 THEN First ELSE More(w[n - 1], n)
      <3>1. n # 0 => n \in 1 .. len /\ n - 1 \in 0 .. len
        BY <1>2
      <3>2. n # 0 => w[n - 1] = Written(i, l, m, d, n - 1)
        BY <1>6, <3>1
      <3>. QED
        BY <1>3, <1>4, <3>1, <3>2
    <2>. QED
      BY <1>6, <2>1
  <1>8. PICK f : f = CHOOSE g : g = Expand(g)
    OBVIOUS
  <1>9. f = Expand(f)
    <2>. HIDE DEF Expand
    <2>. QED
      BY <1>7, <1>8
  <1>10. \A n \in 0 .. len : f[n] = IF n = 0 THEN First ELSE More(f[n - 1], n)
    BY <1>9
  <1>11. \A n \in 0 .. len : w[n] = IF n = 0 THEN First ELSE More(w[n - 1], n)
    BY <1>7
  <1>12. Alike(f, w, len)
    BY <1>2, <1>10, <1>11 DEF Alike
  <1>13. f[len] = w[len]
    BY <1>2, <1>12, Agree
  <1>14. w[len] = Written(i, l, m, d, len)
    BY <1>2, <1>6
  <1>15. Written(i, l, m, d, len).s = Number(i, l, m, d)
    BY <1>1, <1>2 DEF Written, Number, Printing
  <1>. QED
    BY <1>1, <1>5, <1>8, <1>13, <1>14, <1>15

-----------------------------------------------------------------------------
(* A text on the terminal.                                                 *)

(* The terminal behind the first n characters. *)
Read(i, l, m, t, n) ==
    IF n < Room(i)
      THEN View(i + n, l, Laid(m, Offset(l, i), 0, n, t))
    ELSE IF l # VIDEO_COL_LEN - 1
      THEN View(n - Room(i), l + 1, Laid(m, Offset(l, i), 0, n, t))
    ELSE View(n - Room(i), l,
              Laid(Raised(m), Offset(l, i) - VIDEO_ROW_LEN, 0, n, t))

(* One more character. *)
LEMMA ReadStep ==
    ASSUME NEW i \in Columns, NEW l \in Lines, NEW m \in Contents,
           NEW t \in Seq(Chars \cup {Blank}), Len(t) \in 1 .. VIDEO_ROW_LEN,
           NEW n \in 1 .. Len(t)
    PROVE  Page!Put(Read(i, l, m, t, n - 1), t[n]) = Read(i, l, m, t, n)
  <1>1. PICK o, c : o = n - 1 /\ c = t[n]
    OBVIOUS
  <1>2. PICK st, room : st = Offset(l, i) /\ room = Room(i)
    OBVIOUS
  <1>3. PICK last : last = VIDEO_COL_LEN - 1
    OBVIOUS
  <1>4. /\ n \in Nat /\ n > 0 /\ n <= VIDEO_ROW_LEN
        /\ o \in Nat /\ o + 1 = n /\ o <= Len(t) /\ n <= Len(t)
        /\ c \in Chars \cup {Blank}
    BY <1>1, Sizes
  <1>5. /\ room \in Nat /\ room > 0 /\ st \in Nat
        /\ i + room = VIDEO_ROW_LEN
        /\ l = last => /\ st - VIDEO_ROW_LEN \in Nat
                       /\ LastLine <= st /\ st + room = PageSize
    BY <1>2, <1>3, RoomFacts
  <1>6. /\ n < room => /\ i + o \in Columns /\ i + o < VIDEO_ROW_LEN - 1
                       /\ (i + o) + 1 = i + n /\ o < room
        /\ n = room => /\ i + o = VIDEO_ROW_LEN - 1 /\ VIDEO_ROW_LEN - 1 \in Columns
                       /\ o < room /\ ~(n < room) /\ n - room = 0
        /\ n > room => /\ o - room \in Columns /\ o - room < VIDEO_ROW_LEN - 1
                       /\ (o - room) + 1 = n - room
                       /\ ~(o < room) /\ ~(n < room)
    BY <1>1, <1>2, <1>4, Steps
  <1>7. PICK f : f = Laid(m, st, 0, o, t)
    OBVIOUS
  <1>8. f \in Contents /\ Filled(f, st + o, c) = Laid(m, st, 0, n, t)
    <2>1. Laid(m, st, 0, o, t) \in Contents
      BY <1>4, <1>5, LaidType
    <2>2. Filled(Laid(m, st, 0, o, t), st + o, t[o + 1]) = Laid(m, st, 0, o + 1, t)
      BY <1>4, <1>5, LaidBehind
    <2>. QED
      BY <1>1, <1>4, <1>7, <2>1, <2>2
  <1>9. CASE n <= room
    <2>1. PICK j \in Columns : j = i + o
      BY <1>6, <1>9, <1>4, <1>5
    <2>2. o < room /\ Offset(l, j) = st + o
      <3>1. VIDEO_ROW_LEN * l \in Nat /\ i \in Nat
        BY Edges, LineFacts
      <3>. QED
        BY <1>2, <1>4, <1>5, <1>6, <1>9, <2>1, <3>1 DEF Offset
    <2>3. Read(i, l, m, t, o) = View(j, l, f)
      BY <1>2, <1>7, <2>1, <2>2 DEF Read
    <2>4. Page!Put(View(j, l, f), c) =
            IF j < VIDEO_ROW_LEN - 1 THEN View(j + 1, l, Laid(m, st, 0, n, t))
            ELSE IF l = last THEN View(0, l, Raised(Laid(m, st, 0, n, t)))
                             ELSE View(0, l + 1, Laid(m, st, 0, n, t))
      BY <1>3, <1>4, <1>8, <2>2, PutFacts
    <2>5. CASE n < room
      <3>1. Read(i, l, m, t, n) = View(j + 1, l, Laid(m, st, 0, n, t))
        BY <1>2, <1>6, <2>1, <2>5 DEF Read
      <3>. QED
        BY <1>1, <1>6, <2>1, <2>3, <2>4, <2>5, <3>1
    <2>6. CASE n = room
      <3>1. ~(j < VIDEO_ROW_LEN - 1)
        BY <1>6, <2>1, <2>6, Sizes
      <3>2. l = last => Raised(Laid(m, st, 0, n, t))
                          = Laid(Raised(m), st - VIDEO_ROW_LEN, 0, n, t)
        BY <1>4, <1>5, <2>6, LaidRaised
      <3>3. Read(i, l, m, t, n) =
              IF l = last THEN View(0, l, Laid(Raised(m), st - VIDEO_ROW_LEN, 0, n, t))
                          ELSE View(0, l + 1, Laid(m, st, 0, n, t))
        BY <1>2, <1>3, <1>6, <2>6 DEF Read
      <3>. QED
        BY <1>1, <2>3, <2>4, <3>1, <3>2, <3>3
    <2>. QED
      BY <1>4, <1>5, <1>9, <2>5, <2>6
  <1>10. CASE n > room
    <2>1. PICK j \in Columns : /\ j = o - room /\ j < VIDEO_ROW_LEN - 1
                               /\ j + 1 = n - room /\ ~(o < room) /\ ~(n < room)
      BY <1>6, <1>10
    <2>2. CASE l # last
      <3>1. l + 1 \in Lines /\ Offset(l + 1, j) = st + o
        <4>1. PICK p \in Nat : p = VIDEO_ROW_LEN * l
          BY Edges, LineFacts
        <4>2. VIDEO_ROW_LEN * (l + 1) = p + VIDEO_ROW_LEN
          BY <4>1, Edges, LineFacts
        <4>3. Offset(l + 1, j) = (p + VIDEO_ROW_LEN) + j /\ st = p + i
          BY <1>2, <4>1, <4>2 DEF Offset
        <4>4. i \in Nat /\ j \in Nat /\ VIDEO_ROW_LEN \in Nat
          BY Sizes, Edges
        <4>5. (p + VIDEO_ROW_LEN) + j = (p + i) + o
          BY <1>4, <1>5, <2>1, <4>4
        <4>. QED
          BY <1>3, <2>2, <4>3, <4>5, Edges
      <3>2. Read(i, l, m, t, o) = View(j, l + 1, f)
        BY <1>2, <1>3, <1>7, <2>1, <2>2 DEF Read
      <3>3. Read(i, l, m, t, n) = View(j + 1, l + 1, Laid(m, st, 0, n, t))
        BY <1>2, <1>3, <2>1, <2>2 DEF Read
      <3>4. Page!Put(View(j, l + 1, f), c) = View(j + 1, l + 1, Laid(m, st, 0, n, t))
        BY <1>4, <1>8, <2>1, <3>1, PutFacts
      <3>. QED
        BY <1>1, <3>2, <3>3, <3>4
    <2>3. CASE l = last
      <3>1. PICK base, up : base = Raised(m) /\ up = st - VIDEO_ROW_LEN
        OBVIOUS
      <3>2. base \in Contents /\ up \in Nat
        BY <1>5, <2>3, <3>1, RaisedGrid
      <3>3. Offset(l, j) = up + o
        <4>1. PICK p \in Nat : p = VIDEO_ROW_LEN * l
          BY Edges, LineFacts
        <4>2. st = p + i /\ Offset(l, j) = p + j
          BY <1>2, <4>1 DEF Offset
        <4>3. i \in Nat /\ j \in Nat /\ VIDEO_ROW_LEN \in Nat
          BY Sizes, Edges
        <4>. QED
          BY <1>4, <1>5, <2>1, <3>1, <4>2, <4>3
      <3>4. PICK g : g = Laid(base, up, 0, o, t)
        OBVIOUS
      <3>5. g \in Contents /\ Filled(g, up + o, c) = Laid(base, up, 0, n, t)
        <4>1. Laid(base, up, 0, o, t) \in Contents
          BY <1>4, <3>2, LaidType
        <4>2. Filled(Laid(base, up, 0, o, t), up + o, t[o + 1]) = Laid(base, up, 0, o + 1, t)
          BY <1>4, <3>2, LaidBehind
        <4>. QED
          BY <1>1, <1>4, <3>4, <4>1, <4>2
      <3>6. Read(i, l, m, t, o) = View(j, l, g)
        BY <1>2, <1>3, <2>1, <2>3, <3>1, <3>4 DEF Read
      <3>7. Read(i, l, m, t, n) = View(j + 1, l, Laid(base, up, 0, n, t))
        BY <1>2, <1>3, <2>1, <2>3, <3>1 DEF Read
      <3>8. Page!Put(View(j, l, g), c) = View(j + 1, l, Laid(base, up, 0, n, t))
        BY <1>4, <2>1, <3>3, <3>5, PutFacts
      <3>. QED
        BY <1>1, <3>6, <3>7, <3>8
    <2>. QED
      BY <2>2, <2>3
  <1>. QED
    BY <1>4, <1>5, <1>9, <1>10

(* The whole text. *)
LEMMA TextFacts ==
    ASSUME NEW i \in Columns, NEW l \in Lines, NEW m \in Contents,
           NEW t \in Seq(Chars \cup {Blank}), Len(t) \in 1 .. VIDEO_ROW_LEN
    PROVE  Page!Text(View(i, l, m), t) = Read(i, l, m, t, Len(t))
  <1>1. PICK p, len : p = View(i, l, m) /\ len = Len(t)
    OBVIOUS
  <1>2. len \in Nat /\ len > 0 /\ len <= VIDEO_ROW_LEN
    BY <1>1, Sizes
  <1>. DEFINE More(q, n) == Page!Put(q, t[n])
              Expand(f) == [n \in 0 .. len |-> IF n = 0 THEN p ELSE More(f[n - 1], n)]
  <1>3. p = Read(i, l, m, t, 0)
    <2>1. Laid(m, Offset(l, i), 0, 0, t) = m
      BY RoomFacts, LaidNone
    <2>2. i + 0 = i
      BY Sizes DEF Columns
    <2>3. 0 < Room(i)
      BY RoomFacts
    <2>. QED
      BY <1>1, <2>1, <2>2, <2>3 DEF Read
  <1>4. ASSUME NEW n \in 1 .. len
        PROVE  More(Read(i, l, m, t, n - 1), n) = Read(i, l, m, t, n)
    BY <1>1, ReadStep
  <1>5. Page!Text(p, t) = (CHOOSE f : f = Expand(f))[len]
    BY <1>1 DEF Page!Text
  <1>. HIDE DEF More
  <1>6. PICK w : w = [n \in 0 .. len |-> Read(i, l, m, t, n)]
    OBVIOUS
  <1>7. w = Expand(w)
    <2>1. ASSUME NEW n \in 0 .. len
          PROVE  Read(i, l, m, t, n) = IF n = 0 THEN p ELSE More(w[n - 1], n)
      <3>1. n # 0 => n \in 1 .. len /\ n - 1 \in 0 .. len
        BY <1>2
      <3>2. n # 0 => w[n - 1] = Read(i, l, m, t, n - 1)
        BY <1>6, <3>1
      <3>. QED
        BY <1>3, <1>4, <3>1, <3>2
    <2>. QED
      BY <1>6, <2>1
  <1>8. PICK f : f = CHOOSE g : g = Expand(g)
    OBVIOUS
  <1>9. f = Expand(f)
    <2>. HIDE DEF Expand
    <2>. QED
      BY <1>7, <1>8
  <1>10. \A n \in 0 .. len : f[n] = IF n = 0 THEN p ELSE More(f[n - 1], n)
    BY <1>9
  <1>11. \A n \in 0 .. len : w[n] = IF n = 0 THEN p ELSE More(w[n - 1], n)
    BY <1>7
  <1>12. Alike(f, w, len)
    BY <1>2, <1>10, <1>11 DEF Alike
  <1>13. f[len] = w[len]
    BY <1>2, <1>12, Agree
  <1>14. w[len] = Read(i, l, m, t, len)
    BY <1>2, <1>6
  <1>. QED
    BY <1>1, <1>5, <1>8, <1>13, <1>14

-----------------------------------------------------------------------------
(* Numbers on the screen and on the terminal.                              *)

(* A number of digits, written from the last to the first, is the text of  *)
(* them that the terminal reads from left to right, but for the digits     *)
(* that were not on the page when it scrolled.                             *)
LEMMA NumberFacts ==
    ASSUME NEW i \in Columns, NEW l \in Lines, NEW m \in Contents, NEW d \in Numbers
    PROVE  Same(print_unum(Screen(i, l, m), d),
                Page!Text(View(i, l, m), Page!Shown(View(i, l, m), d)))
  <1>1. d \in Seq(Chars) /\ Len(d) \in 1 .. VIDEO_ROW_LEN
        /\ d \in Seq(Chars \cup {Blank})
    <2>1. d \in Seq(Chars) /\ Len(d) \in 1 .. VIDEO_ROW_LEN
      BY ConsoleAssumption
    <2>. QED
      BY <2>1
  <1>2. PICK len, room, last : /\ len = Len(d)
                               /\ room = Room(i)
                               /\ last = VIDEO_COL_LEN - 1
    OBVIOUS
  <1>3. PICK st : st = Offset(l, i)
    OBVIOUS
  <1>4. /\ len \in Nat /\ len > 0 /\ len <= VIDEO_ROW_LEN
        /\ room \in Nat /\ room > 0 /\ i + room = VIDEO_ROW_LEN
        /\ room = VIDEO_ROW_LEN - i
        /\ st \in Nat
        /\ l = last => /\ st - VIDEO_ROW_LEN \in Nat
                       /\ (st - VIDEO_ROW_LEN) + room = LastLine
                       /\ st + room = PageSize
    <2>1. VIDEO_ROW_LEN \in Nat
      BY Sizes
    <2>2. len \in Nat /\ len > 0 /\ len <= VIDEO_ROW_LEN
      BY <1>1, <1>2, <2>1
    <2>3. /\ room \in Nat /\ room > 0 /\ i + room = VIDEO_ROW_LEN
          /\ st \in Nat
          /\ l = last => /\ st - VIDEO_ROW_LEN \in Nat
                         /\ (st - VIDEO_ROW_LEN) + room = LastLine
                         /\ st + room = PageSize
      BY <1>2, <1>3, RoomFacts
    <2>4. room = VIDEO_ROW_LEN - i
      BY <1>2 DEF Room
    <2>. QED
      BY <2>2, <2>3, <2>4
  <1>5. PICK lost : lost = IF l < last \/ len - room <= 0 THEN 0
                           ELSE IF len - room < room THEN len - room ELSE room
    OBVIOUS
  <1>6. PICK t : t = [n \in 1 .. len |-> IF n > len - lost THEN Blank ELSE d[n]]
    OBVIOUS
  <1>7. Page!Shown(View(i, l, m), d) = t
    BY <1>2, <1>4, <1>5, <1>6, ViewSteps DEF Page!Shown
  <1>8. t \in Seq(Chars \cup {Blank}) /\ Len(t) = len
    <2>1. \A n \in 1 .. len : d[n] \in Chars \cup {Blank}
      BY <1>1, <1>2
    <2>2. t \in [1 .. len -> Chars \cup {Blank}]
      BY <1>6, <2>1
    <2>. QED
      BY <1>4, <2>2
  <1>9. Page!Text(View(i, l, m), t) = Read(i, l, m, t, len)
    BY <1>1, <1>2, <1>8, TextFacts
  <1>10. print_unum(Screen(i, l, m), d) = Number(i, l, m, d)
    BY <1>1, UnumFacts
  <1>11. l < last <=> l # last
    BY <1>2, Sizes DEF Lines
  <1>12. ASSUME lost = 0
         PROVE  Laid(m, st, 0, len, d) = Laid(m, st, 0, len, t)
                /\ Laid(m, st, 0, len, d) \in Contents
    <2>1. \A k \in Cells : st + 0 <= k /\ k < st + len => t[k - st + 1] = d[k - st + 1]
      <3>1. ASSUME NEW k \in Cells, st + 0 <= k, k < st + len
            PROVE  t[k - st + 1] = d[k - st + 1]
        <4>1. k \in Nat
          BY Sizes DEF Cells
        <4>2. k - st + 1 \in 1 .. len /\ ~(k - st + 1 > len - lost)
          BY <1>4, <1>12, <3>1, <4>1
        <4>. QED
          BY <1>6, <4>2
      <3>. QED
        BY <3>1
    <2>2. Laid(m, st, 0, len, d) \in Contents
      BY <1>1, <1>2, <1>4, LaidType
    <2>. QED
      BY <2>1, <2>2 DEF Laid
  <1>13. CASE len < room
    <2>1. lost = 0 /\ i + len \in Columns
      BY <1>4, <1>5, <1>13, Sizes DEF Columns
    <2>2. Number(i, l, m, d) = Screen(i + len, l, Laid(m, st, 0, len, d))
      BY <1>2, <1>3, <1>13 DEF Number
    <2>3. Read(i, l, m, t, len) = View(i + len, l, Laid(m, st, 0, len, t))
      BY <1>2, <1>3, <1>13 DEF Read
    <2>. QED
      BY <1>7, <1>9, <1>10, <1>12, <2>1, <2>2, <2>3, SameHere
  <1>14. CASE ~(len < room) /\ l # last
    <2>1. lost = 0 /\ len - room \in Columns /\ l + 1 \in Lines
      <3>1. lost = 0
        BY <1>5, <1>11, <1>14
      <3>2. len - room \in Columns
        BY <1>4, <1>14, Sizes DEF Columns
      <3>. QED
        BY <1>2, <1>14, <3>1, <3>2, Edges
    <2>2. Number(i, l, m, d) = Screen(len - room, l + 1, Laid(m, st, 0, len, d))
      BY <1>2, <1>3, <1>14 DEF Number
    <2>3. Read(i, l, m, t, len) = View(len - room, l + 1, Laid(m, st, 0, len, t))
      BY <1>2, <1>3, <1>14 DEF Read
    <2>. QED
      BY <1>7, <1>9, <1>10, <1>12, <2>1, <2>2, <2>3, SameHere
  <1>15. CASE ~(len < room) /\ l = last
    <2>1. PICK up, hi, base : /\ up = st - VIDEO_ROW_LEN
                              /\ hi = len - room
                              /\ base = Above(i, l, m, d)
      OBVIOUS
    <2>2. /\ up \in Nat /\ hi \in Nat /\ hi <= len /\ hi \in Columns
          /\ up + room = LastLine
          /\ lost = IF hi = 0 THEN 0 ELSE IF hi < room THEN hi ELSE room
      BY <1>4, <1>5, <1>11, <1>15, <2>1, Sizes DEF Columns
    <2>3. Number(i, l, m, d) = Screen(hi, l, Laid(base, up, 0, hi, d))
      BY <1>2, <1>3, <1>15, <2>1 DEF Number
    <2>4. Read(i, l, m, t, len) = View(hi, l, Laid(Raised(m), up, 0, len, t))
      BY <1>2, <1>3, <1>15, <2>1 DEF Read
    <2>5. base = Raised(Laid(m, st, hi, len, d)) /\ base \in Contents
      <3>1. Laid(m, st, hi, len, d) \in Contents
        BY <1>1, <1>2, <1>4, <2>2, LaidType
      <3>2. base = Raised(Laid(m, st, hi, len, d))
        BY <1>2, <1>3, <2>1 DEF Above
      <3>. QED
        BY <3>1, <3>2, RaisedGrid
    <2>6. Laid(base, up, 0, hi, d) \in Contents
      BY <1>1, <1>2, <1>4, <2>2, <2>5, LaidType
    <2>7. ASSUME NEW k \in Cells
          PROVE  /\ k \in Nat
                 /\ k < LastLine => k + VIDEO_ROW_LEN \in Cells
                 /\ base[k] = IF k < LastLine
                                THEN IF up + hi <= k /\ k < up + len
                                       THEN d[k - up + 1] ELSE m[k + VIDEO_ROW_LEN]
                                ELSE Blank
      <3>1. k \in Nat /\ (k < LastLine => k + VIDEO_ROW_LEN \in Cells)
        BY Sizes DEF Cells
      <3>2. PICK v : v = Laid(m, st, hi, len, d)
        OBVIOUS
      <3>3. base[k] = IF k < LastLine THEN v[k + VIDEO_ROW_LEN] ELSE Blank
        BY <2>5, <3>2 DEF Raised
      <3>4. ASSUME k < LastLine
            PROVE  v[k + VIDEO_ROW_LEN] = IF up + hi <= k /\ k < up + len
                                            THEN d[k - up + 1] ELSE m[k + VIDEO_ROW_LEN]
        <4>1. PICK j \in Cells : j = k + VIDEO_ROW_LEN
          BY <3>1, <3>4
        <4>2. v[j] = IF st + hi <= j /\ j < st + len THEN d[j - st + 1] ELSE m[j]
          BY <3>2 DEF Laid
        <4>3. VIDEO_ROW_LEN \in Nat
          BY Sizes
        <4>4. /\ st + hi <= j <=> up + hi <= k
              /\ j < st + len <=> k < up + len
              /\ j - st + 1 = k - up + 1
          BY <1>4, <2>1, <2>2, <3>1, <4>1, <4>3
        <4>. QED
          BY <4>1, <4>2, <4>4
      <3>. QED
        BY <3>1, <3>3, <3>4
    <2>8. len = room + hi
      BY <1>4, <2>1
    <2>9. ASSUME NEW k \in Cells
          PROVE  (IF up + 0 <= k /\ k < up + hi THEN d[k - up + 1] ELSE base[k])
                 = IF up + 0 <= k /\ k < up + len THEN t[k - up + 1] ELSE Raised(m)[k]
      <3>1. k \in Nat /\ LastLine \in Nat
        BY <2>7, Sizes
      <3>2. Raised(m)[k] = IF k < LastLine THEN m[k + VIDEO_ROW_LEN] ELSE Blank
        BY DEF Raised
      <3>3. CASE k < up
        <4>1. ~(up + 0 <= k) /\ k < LastLine /\ ~(up + hi <= k)
          BY <1>4, <2>2, <3>1, <3>3
        <4>. QED
          BY <2>7, <3>2, <4>1
      <3>4. ASSUME up <= k, k < up + len
            PROVE  t[k - up + 1] = IF k - up + 1 > len - lost THEN Blank
                                                              ELSE d[k - up + 1]
        <4>1. k - up + 1 \in 1 .. len
          BY <1>4, <2>2, <3>1, <3>4
        <4>. QED
          BY <1>6, <4>1
      <3>5. CASE up <= k /\ k < up + hi
        <4>1. /\ up + 0 <= k /\ k < up + len
              /\ ~(k - up + 1 > len - lost)
          BY <1>4, <2>2, <2>8, <3>1, <3>5
        <4>. QED
          BY <3>4, <3>5, <4>1
      <3>6. CASE up <= k /\ up + hi <= k /\ k < LastLine
        <4>1. /\ up + 0 <= k /\ ~(k < up + hi) /\ k < up + len
              /\ ~(k - up + 1 > len - lost)
          BY <1>4, <2>2, <2>8, <3>1, <3>6
        <4>. QED
          BY <2>7, <3>4, <3>6, <4>1
      <3>7. CASE up <= k /\ up + hi <= k /\ ~(k < LastLine)
        <4>1. /\ up + 0 <= k /\ ~(k < up + hi)
              /\ k < up + len => k - up + 1 > len - lost
          BY <1>4, <2>2, <2>8, <3>1, <3>7
        <4>. QED
          BY <2>7, <3>2, <3>4, <3>7, <4>1
      <3>. QED
        BY <2>2, <3>1, <3>3, <3>5, <3>6, <3>7
    <2>10. Laid(base, up, 0, hi, d) = Laid(Raised(m), up, 0, len, t)
      BY <2>9 DEF Laid
    <2>. QED
      BY <1>7, <1>9, <1>10, <2>2, <2>3, <2>4, <2>6, <2>10, SameHere
  <1>. QED
    BY <1>13, <1>14, <1>15

-----------------------------------------------------------------------------
(* The theorems.                                                           *)

(* The cursor is at a column of a line, and the page holds characters.     *)
OnPage == \E i \in Columns, l \in Lines, m \in Contents : screen = Screen(i, l, m)

(* What the terminal is while the screen is on the page, before and after  *)
(* a call.                                                                 *)
LEMMA NowFacts ==
    ASSUME NEW i \in Columns, NEW l \in Lines, NEW m \in Contents
    PROVE  /\ screen = Screen(i, l, m) => Page!Now = View(i, l, m)
           /\ screen' = Screen(i, l, m) =>
                 \A p : p = View(i, l, m) => Page!Becomes(p)
  <1>1. (VIDEO_ROW_LEN * l) \div VIDEO_ROW_LEN = l
    BY Edges, LineFacts
  <1>2. ASSUME screen = Screen(i, l, m)
        PROVE  Page!Now = View(i, l, m)
    <2>1. screen.row_offset = i /\ screen.mem = m /\ screen.col_offset = VIDEO_ROW_LEN * l
      BY <1>2, ScreenSteps
    <2>2. Shown = Grid(m)
      BY <2>1 DEF Shown, Grid, Lines, Columns, Offset
    <2>. QED
      BY <1>1, <2>1, <2>2 DEF Page!Now, View
  <1>3. ASSUME screen' = Screen(i, l, m), NEW p, p = View(i, l, m)
        PROVE  Page!Becomes(p)
    <2>1. screen'.row_offset = i /\ screen'.mem = m
          /\ screen'.col_offset = VIDEO_ROW_LEN * l
      BY <1>3, ScreenSteps
    <2>2. Shown' = Grid(m)
      BY <2>1 DEF Shown, Grid, Lines, Columns, Offset
    <2>3. p.page = Grid(m) /\ p.x = i /\ p.y = l
      BY <1>3, ViewSteps
    <2>. QED
      BY <1>1, <2>1, <2>2, <2>3 DEF Page!Becomes
  <1>. QED
    BY <1>2, <1>3

(* clear_screen leaves the terminal's blank page. *)
LEMMA InitFacts ==
    ASSUME Init
    PROVE  OnPage /\ Page!Init
  <1>. DEFINE blank == [j \in Cells |-> Blank]
  <1>1. blank \in Contents /\ 0 \in Columns /\ 0 \in Lines
    BY Sizes DEF Contents, Columns, Lines
  <1>2. VIDEO_ROW_LEN * 0 = 0
    BY Sizes
  <1>3. screen = Screen(0, 0, blank)
    BY <1>2 DEF Init, Screen
  <1>4. screen.row_offset = 0 /\ screen.col_offset = 0 /\ screen.mem = blank
    BY DEF Init
  <1>5. Shown = Page!BlankPage
    <2>1. \A l \in Lines, i \in Columns : blank[Offset(l, i)] = Blank
      BY OffsetFacts
    <2>2. Shown = [l \in Lines |-> [i \in Columns |-> blank[Offset(l, i)]]]
      BY <1>4 DEF Shown, Lines, Columns, Offset
    <2>3. Shown = [l \in Lines |-> [i \in Columns |-> Blank]]
      BY <2>1, <2>2
    <2>. QED
      BY <2>3 DEF Page!BlankPage, Page!Cleared, Lines, Columns
  <1>6. 0 \div VIDEO_ROW_LEN = 0
    BY <1>2, LineFacts
  <1>. QED
    BY <1>1, <1>3, <1>4, <1>5, <1>6 DEF OnPage, Page!Init

(* Every call keeps the cursor on the page and is a step of the terminal. *)
LEMMA StepFacts ==
    ASSUME OnPage, Next
    PROVE  OnPage' /\ Page!Next
  <1>1. PICK i \in Columns, l \in Lines, m \in Contents : screen = Screen(i, l, m)
    BY DEF OnPage
  <1>2. Page!Now = View(i, l, m)
    BY <1>1, NowFacts
  <1>3. ASSUME NEW p, Same(screen', p)
        PROVE  OnPage' /\ Page!Becomes(p)
    <2>1. PICK j \in Columns, k \in Lines, f \in Contents :
            screen' = Screen(j, k, f) /\ p = View(j, k, f)
      BY <1>3 DEF Same
    <2>2. Page!Becomes(p)
      BY <2>1, NowFacts
    <2>3. OnPage'
      BY <2>1 DEF OnPage, Screen, Columns, Lines, Contents
    <2>. QED
      BY <2>2, <2>3
  <1>4. CASE \E c \in Chars : screen' = print_chr(screen, c)
    <2>1. PICK c \in Chars : screen' = print_chr(screen, c)
      BY <1>4
    <2>2. Same(screen', Page!Put(Page!Now, c))
      BY <1>1, <1>2, <2>1, ChrFacts
    <2>. QED
      BY <1>3, <2>2 DEF Page!Next
  <1>5. CASE \E digits \in Numbers : screen' = print_unum(screen, digits)
    <2>1. PICK d \in Numbers : screen' = print_unum(screen, d)
      BY <1>5
    <2>2. Same(screen', Page!Text(Page!Now, Page!Shown(Page!Now, d)))
      BY <1>1, <1>2, <2>1, NumberFacts
    <2>. QED
      BY <1>3, <2>2 DEF Page!Next
  <1>6. CASE screen' = print_newline(screen)
    <2>1. Same(screen', Page!NewLine(Page!Now))
      BY <1>1, <1>2, <1>6, LineFeedFacts
    <2>. QED
      BY <1>3, <2>1 DEF Page!Next
  <1>7. CASE screen' = print_backspace(screen)
    <2>1. Same(screen', Page!Erase(Page!Now))
      BY <1>1, <1>2, <1>7, BackspaceFacts
    <2>. QED
      BY <1>3, <2>1 DEF Page!Next
  <1>8. CASE screen' = move_cursor_left(screen)
    <2>1. Same(screen', Page!MoveLeft(Page!Now))
      BY <1>1, <1>2, <1>8, LeftRightFacts
    <2>. QED
      BY <1>3, <2>1 DEF Page!Next
  <1>9. CASE screen' = move_cursor_right(screen)
    <2>1. Same(screen', Page!MoveRight(Page!Now))
      BY <1>1, <1>2, <1>9, LeftRightFacts
    <2>. QED
      BY <1>3, <2>1 DEF Page!Next
  <1>10. CASE screen' = move_cursor_up(screen)
    <2>1. Same(screen', Page!MoveUp(Page!Now))
      BY <1>1, <1>2, <1>10, UpDownFacts
    <2>. QED
      BY <1>3, <2>1 DEF Page!Next
  <1>11. CASE screen' = move_cursor_down(screen)
    <2>1. Same(screen', Page!MoveDown(Page!Now))
      BY <1>1, <1>2, <1>11, UpDownFacts
    <2>. QED
      BY <1>3, <2>1 DEF Page!Next
  <1>12. CASE screen' = StatusLine(screen)
    <2>1. Same(screen', Page!StatusLine(Page!Now))
      BY <1>1, <1>2, <1>12, StatusFacts
    <2>. QED
      BY <1>3, <2>1 DEF Page!Next
  <1>13. CASE \E x \in 0 .. VIDEO_ROW_LEN - 1, y \in 0 .. VIDEO_COL_LEN - 1 :
                screen' = move_cursor_to(screen, x, y)
    <2>1. PICK x \in 0 .. VIDEO_ROW_LEN - 1, y \in 0 .. VIDEO_COL_LEN - 1 :
            screen' = move_cursor_to(screen, x, y)
      BY <1>13
    <2>2. x \in Columns /\ y \in Lines
      BY DEF Columns, Lines
    <2>3. Same(screen', Page!Go(Page!Now, x, y))
      BY <1>1, <1>2, <2>1, <2>2, PositionFacts
    <2>. QED
      BY <1>3, <2>3 DEF Page!Next
  <1>. QED
    BY <1>4, <1>5, <1>6, <1>7, <1>8, <1>9, <1>10, <1>11, <1>12, <1>13 DEF Next

(* Whatever is called, the cursor stays on a cell of the page: no call     *)
(* leaves it behind the last line, where the next character would be       *)
(* written to memory that is not shown.                                    *)
THEOREM ConsoleInvariant == Spec => []OnPage
  <1>1. Init => OnPage
    BY InitFacts
  <1>2. OnPage /\ [Next]_vars => OnPage'
    <2>. SUFFICES ASSUME OnPage, [Next]_vars
                  PROVE  OnPage'
      OBVIOUS
    <2>1. CASE Next
      BY <2>1, StepFacts
    <2>2. CASE UNCHANGED vars
      BY <2>2 DEF vars, OnPage, Screen, Columns, Lines, Contents
    <2>. QED
      BY <2>1, <2>2
  <1>. QED
    BY <1>1, <1>2, PTL DEF Spec

(* TypeOK of Console: the two offsets are a column and the start of a      *)
(* line, and every cell of the page holds a character.                     *)
THEOREM ConsoleTypeCorrect == Spec => []TypeOK
  <1>1. OnPage => TypeOK
    <2>. SUFFICES ASSUME OnPage
                  PROVE  TypeOK
      OBVIOUS
    <2>1. PICK i \in Columns, l \in Lines, m \in Contents : screen = Screen(i, l, m)
      BY DEF OnPage
    <2>2. /\ screen.row_offset = i /\ screen.mem = m
          /\ screen.col_offset = VIDEO_ROW_LEN * l
      BY <2>1, ScreenSteps
    <2>. QED
      BY <2>2 DEF TypeOK, Columns, Lines, Contents
  <1>. QED
    BY <1>1, ConsoleInvariant, PTL

(* The calls of print_utils.c implement the terminal: the two offsets and  *)
(* the flat memory behave as a page of lines, numbers included, which are  *)
(* written from the last digit to the first while the page may scroll.     *)
THEOREM ConsoleImplementsTerminal == Spec => ShowsTerminal
  <1>1. Init => Page!Init
    BY InitFacts
  <1>2. OnPage /\ [Next]_vars => [Page!Next]_(Page!vars)
    <2>. SUFFICES ASSUME OnPage, [Next]_vars
                  PROVE  [Page!Next]_(Page!vars)
      OBVIOUS
    <2>1. CASE Next
      BY <2>1, StepFacts
    <2>2. CASE UNCHANGED vars
      BY <2>2 DEF vars, Page!vars, Shown
    <2>. QED
      BY <2>1, <2>2
  <1>. QED
    BY <1>1, <1>2, ConsoleInvariant, PTL DEF Spec, ShowsTerminal, Page!Spec
=============================================================================
