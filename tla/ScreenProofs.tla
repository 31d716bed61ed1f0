----------------------------- MODULE ScreenProofs -----------------------------
(***************************************************************************)
(* What a terminal keeps, for any sizes: scroll() of a cell buffer, the      *)
(* cursor of a virtual terminal, and the damage, scrollback and tab stops.   *)
(***************************************************************************)
EXTENDS VirtualTerm, TerminalParts, WellFoundedInduction, SequenceTheorems, TLAPS

LEMMA PlaceParts ==
  ASSUME NEW m \in Nat, NEW n \in Nat, NEW p \in Places(m, n)
  PROVE  /\ p = <<p[1], p[2]>> /\ p[1] \in 0..m - 1 /\ p[2] \in 0..n - 1
BY DEF Places

LEMMA PlaceMade ==
  ASSUME NEW m \in Nat, NEW n \in Nat, NEW r \in 0..m - 1, NEW c \in 0..n - 1
  PROVE  <<r, c>> \in Places(m, n) /\ <<r, c>>[1] = r /\ <<r, c>>[2] = c
BY DEF Places

LEMMA BlankIsCell == Blank \in Cell
BY GraphemesAssumption DEF Cell

\* A row that is copied or blanked is a row of cells.
LEMMA RewrittenType ==
  ASSUME CellTypeOK, NEW r, NEW f \in [0..columns - 1 -> Cell]
  PROVE  /\ Rewritten(r, f) \in [Places(rows, columns) -> Cell]
         /\ \A p \in Places(rows, columns) :
              Rewritten(r, f)[p] = IF p[1] = r THEN f[p[2]] ELSE cells[p]
<1>1. ASSUME NEW p \in Places(rows, columns)
      PROVE  (IF p[1] = r THEN f[p[2]] ELSE cells[p]) \in Cell
  BY PlaceParts DEF CellTypeOK
<1>2. QED
  BY <1>1 DEF Rewritten

LEMMA RowOfType ==
  ASSUME CellTypeOK, NEW r \in 0..rows - 1, NEW to
  PROVE  /\ RowOf(r, to) \in [0..columns - 1 -> Cell]
         /\ \A c \in 0..columns - 1 : RowOf(r, to)[c] = cells[<<r, c>>]
<1>1. \A c \in 0..columns - 1 : cells[<<r, c>>] \in Cell
  BY PlaceMade DEF CellTypeOK
<1>2. QED
  BY <1>1 DEF RowOf

\* What scroll() was called with.
JobInv ==
  phase # "idle" =>
    /\ top < bottom /\ bottom <= rows
    /\ shift >= 1 /\ shift <= bottom - top
    /\ phase = "copy" /\ up => row >= top /\ row <= bottom - shift
    /\ phase = "copy" /\ ~ up => row >= top + shift /\ row <= bottom
    /\ phase = "blank" /\ up => row >= bottom - shift /\ row <= bottom
    /\ phase = "blank" /\ ~ up => row >= top /\ row <= top + shift

\* The rows scroll() is done with.
Settled(r) ==
  \/ phase = "scrolled"
  \/ phase = "copy" /\ up /\ r < row
  \/ phase = "copy" /\ ~ up /\ r >= row
  \/ phase = "blank" /\ up /\ r < row
  \/ phase = "blank" /\ ~ up /\ (r < row \/ r >= top + shift)

\* Those rows are as they must be and the others as they were.
CellsInv ==
  phase # "idle" =>
    \A p \in Places(rows, columns) : cells[p] = IF Settled(p[1]) THEN Scrolled(p) ELSE saved[p]

ScrollInv == CellTypeOK /\ JobInv /\ CellsInv

LEMMA ScrollInit == CellInit => ScrollInv
BY BlankIsCell, SizesAssumption DEF CellInit, ScrollInv, CellTypeOK, JobInv, CellsInv

LEMMA CallStep ==
  ASSUME ScrollInv, Put \/ Resize \/ Clear \/ ScrollReturns
  PROVE  ScrollInv'
<1>1. CellTypeOK
  BY DEF ScrollInv
<1>2. CASE Put
  <2>1. PICK p \in Places(rows, columns), g \in Narrow \cup Wide : cells' = With(p[1], p[2], g)
    BY <1>2 DEF Put
  <2>2. With(p[1], p[2], g) \in [Places(rows, columns) -> Cell]
    BY <1>1 DEF With, Cell, CellTypeOK
  <2>3. QED
    BY <1>1, <1>2, <2>1, <2>2 DEF Put, ScrollInv, CellTypeOK, JobInv, CellsInv
<1>3. CASE Resize
  <2>1. [p \in Places(rows', columns') |-> IF p \in Places(rows, columns) THEN cells[p] ELSE Blank]
          \in [Places(rows', columns') -> Cell]
    BY <1>1, BlankIsCell DEF CellTypeOK
  <2>2. rows' \in Nat /\ columns' \in Nat
    BY <1>3, SizesAssumption DEF Resize
  <2>3. QED
    BY <1>1, <1>3, <2>1, <2>2 DEF Resize, ScrollInv, CellTypeOK, JobInv, CellsInv
<1>4. CASE Clear
  BY <1>1, <1>4, BlankIsCell DEF Clear, ScrollInv, CellTypeOK, JobInv, CellsInv
<1>5. CASE ScrollReturns
  BY <1>1, <1>5 DEF ScrollReturns, ScrollInv, CellTypeOK, JobInv, CellsInv
<1>6. QED
  BY <1>2, <1>3, <1>4, <1>5

LEMMA BeginStep ==
  ASSUME ScrollInv, BeginScroll
  PROVE  ScrollInv'
<1>1. CellTypeOK
  BY DEF ScrollInv
<1>2. PICK t \in 0..rows, b \in 0..rows, u \in BOOLEAN :
        /\ t < b /\ top' = t /\ bottom' = b /\ up' = u
        /\ shift' \in 1..b - t
        /\ row' = IF u THEN t ELSE b
  BY DEF BeginScroll
<1>3. /\ phase' = "copy" /\ saved' = cells /\ cells' = cells
      /\ rows' = rows /\ columns' = columns
  BY DEF BeginScroll
<1>4. rows \in Nat /\ t \in Nat /\ b \in Nat /\ shift' \in Nat
  <2>1. rows \in Nat
    BY <1>1 DEF CellTypeOK
  <2>2. QED
    BY <1>2, <2>1
<1>5. CellTypeOK'
  BY <1>1, <1>2, <1>3, <1>4 DEF CellTypeOK
<1>6. JobInv'
  <2>1. t <= b /\ b <= rows /\ shift' >= 1 /\ shift' <= b - t
    BY <1>2, <1>4
  <2>2. (up' => row' = t) /\ (~ up' => row' = b)
    BY <1>2
  <2>3. top' = t /\ bottom' = b /\ t < b
    BY <1>2
  <2>4. QED
    BY <1>3, <1>4, <2>1, <2>2, <2>3 DEF JobInv
<1>7. ASSUME NEW p \in Places(rows, columns), Settled(p[1])'
      PROVE  Scrolled(p)' = cells[p]
  <2>1. p[1] < t \/ p[1] >= b
    BY <1>2, <1>3, <1>7 DEF Settled
  <2>2. p[1] \notin t..b - 1
    BY <1>1, <1>4, <2>1, PlaceParts DEF CellTypeOK
  <2>3. QED
    BY <1>2, <1>3, <2>2 DEF Scrolled
<1>8. CellsInv'
  BY <1>3, <1>7 DEF CellsInv
<1>9. QED
  BY <1>5, <1>6, <1>8 DEF ScrollInv

\* What scroll() does to row r leaves the other rows alone and settles this one.
LEMMA RowStep ==
  ASSUME ScrollInv, NEW r \in Int, NEW f \in [0..columns - 1 -> Cell],
         cells' = Rewritten(r, f),
         UNCHANGED <<rows, columns, top, bottom, shift, up, saved>>,
         \A p \in Places(rows, columns) : p[1] = r => f[p[2]] = Scrolled(p),
         \A k \in Int : Settled(k)' <=> Settled(k) \/ k = r,
         phase # "idle"
  PROVE  CellsInv'
<1>1. ASSUME NEW p \in Places(rows, columns)
      PROVE  cells'[p] = IF Settled(p[1])' THEN Scrolled(p) ELSE saved[p]
  <2>1. cells'[p] = IF p[1] = r THEN f[p[2]] ELSE cells[p]
    <3>1. Rewritten(r, f)[p] = IF p[1] = r THEN f[p[2]] ELSE cells[p]
      BY DEF Rewritten
    <3>2. QED
      BY <3>1
  <2>2. cells[p] = IF Settled(p[1]) THEN Scrolled(p) ELSE saved[p]
    BY DEF ScrollInv, CellsInv
  <2>3. p[1] \in Int
    BY PlaceParts DEF ScrollInv, CellTypeOK
  <2>4. QED
    BY <2>1, <2>2, <2>3
<1>2. \A p : Scrolled(p)' = Scrolled(p)
  BY DEF Scrolled
<1>3. QED
  BY <1>1, <1>2 DEF CellsInv

\* A step of the loops that only moves on settles nothing.
LEMMA TurnStep ==
  ASSUME ScrollInv, UNCHANGED <<rows, columns, cells, top, bottom, shift, up, saved>>,
         \A k \in Int : k \in top..bottom - 1 => (Settled(k)' <=> Settled(k)),
         phase # "idle"
  PROVE  CellsInv'
<1>1. ASSUME NEW p \in Places(rows, columns)
      PROVE  cells[p] = IF Settled(p[1])' THEN Scrolled(p) ELSE saved[p]
  <2>1. cells[p] = IF Settled(p[1]) THEN Scrolled(p) ELSE saved[p]
    BY DEF ScrollInv, CellsInv
  <2>2. p[1] \in Int
    BY PlaceParts DEF ScrollInv, CellTypeOK
  <2>3. p[1] \notin top..bottom - 1 => Scrolled(p) = saved[p]
    BY DEF Scrolled
  <2>4. QED
    BY <2>1, <2>2, <2>3
<1>2. \A p : Scrolled(p)' = Scrolled(p)
  BY DEF Scrolled
<1>3. QED
  BY <1>1, <1>2 DEF CellsInv

\* A row that has not been overwritten is copied where it belongs.
LEMMA CopiedRow ==
  ASSUME ScrollInv, phase = "copy",
         NEW to \in top..bottom - 1, NEW from \in top..bottom - 1,
         from = IF up THEN to + shift ELSE to - shift,
         ~ Settled(from)
  PROVE  /\ RowOf(from, to) \in [0..columns - 1 -> Cell]
         /\ \A p \in Places(rows, columns) :
              p[1] = to => RowOf(from, to)[p[2]] = Scrolled(p)
<1>1. CellTypeOK /\ JobInv /\ CellsInv
  BY DEF ScrollInv
<1>2. rows \in Nat /\ columns \in Nat /\ top \in Nat /\ bottom \in Nat /\ bottom <= rows
  BY <1>1 DEF CellTypeOK, JobInv
<1>3. from \in 0..rows - 1 /\ from \in Int
  BY <1>2
<1>4. ASSUME NEW p \in Places(rows, columns), p[1] = to
      PROVE  RowOf(from, to)[p[2]] = Scrolled(p)
  <2>1. p[2] \in 0..columns - 1
    BY <1>2, PlaceParts
  <2>2. RowOf(from, to)[p[2]] = cells[<<from, p[2]>>]
    BY <1>1, <1>3, <2>1, RowOfType
  <2>3. cells[<<from, p[2]>>] = saved[<<from, p[2]>>]
    <3>1. <<from, p[2]>> \in Places(rows, columns) /\ <<from, p[2]>>[1] = from
      BY <1>2, <1>3, <2>1, PlaceMade
    <3>2. QED
      BY <1>1, <3>1 DEF CellsInv
  <2>4. Scrolled(p) = saved[<<from, p[2]>>]
    BY <1>4 DEF Scrolled
  <2>5. QED
    BY <2>2, <2>3, <2>4
<1>5. QED
  BY <1>1, <1>3, <1>4, RowOfType

\* A step keeps types if it keeps the sizes and the cells are cells.
LEMMA ScrollTypes ==
  ASSUME CellTypeOK, UNCHANGED <<rows, columns, top, bottom, shift, up, saved>>,
         cells' \in [Places(rows, columns) -> Cell], row' \in Nat,
         phase' \in {"copy", "blank", "scrolled"}
  PROVE  CellTypeOK'
BY DEF CellTypeOK

LEMMA CopyUpStep ==
  ASSUME ScrollInv, CopyUp
  PROVE  ScrollInv'
<1>1. CellTypeOK /\ JobInv /\ phase = "copy" /\ up
  BY DEF ScrollInv, CopyUp
<1>2. UNCHANGED <<rows, columns, top, bottom, shift, up, saved>>
  BY DEF CopyUp
<1>3. /\ rows \in Nat /\ columns \in Nat /\ top \in Nat /\ bottom \in Nat /\ shift \in Nat
      /\ row \in Nat /\ top < bottom /\ bottom <= rows /\ shift >= 1 /\ shift <= bottom - top
      /\ row >= top /\ row <= bottom - shift
  BY <1>1 DEF CellTypeOK, JobInv
<1>4. CASE row + shift < bottom
  <2>1. cells' = Rewritten(row, RowOf(row + shift, row)) /\ row' = row + 1 /\ phase' = "copy"
    BY <1>1, <1>3, <1>4 DEF CopyUp
  <2>2. /\ row \in top..bottom - 1 /\ row + shift \in top..bottom - 1
        /\ row \in Int /\ row + shift \in Int
    BY <1>3, <1>4
  <2>3. ~ Settled(row + shift)
    BY <1>1, <1>3 DEF Settled
  <2>4. /\ RowOf(row + shift, row) \in [0..columns - 1 -> Cell]
        /\ \A p \in Places(rows, columns) :
             p[1] = row => RowOf(row + shift, row)[p[2]] = Scrolled(p)
    BY <1>1, <2>2, <2>3, CopiedRow
  <2>5. \A k \in Int : Settled(k)' <=> Settled(k) \/ k = row
    BY <1>1, <1>2, <1>3, <2>1 DEF Settled
  <2>6. CellsInv'
    BY <1>1, <1>2, <2>1, <2>2, <2>4, <2>5, RowStep
  <2>7. CellTypeOK'
    BY <1>1, <1>2, <1>3, <2>1, <2>4, RewrittenType, ScrollTypes
  <2>8. JobInv'
    BY <1>1, <1>2, <1>3, <1>4, <2>1 DEF JobInv
  <2>9. QED
    BY <2>6, <2>7, <2>8 DEF ScrollInv
<1>5. CASE row + shift >= bottom
  <2>1. cells' = cells /\ row' = bottom - shift /\ phase' = "blank"
    BY <1>1, <1>3, <1>5 DEF CopyUp
  <2>2. row = bottom - shift
    BY <1>3, <1>5
  <2>3. \A k \in Int : Settled(k)' <=> Settled(k)
    BY <1>1, <1>2, <2>1, <2>2 DEF Settled
  <2>4. CellsInv'
    BY <1>1, <1>2, <2>1, <2>3, TurnStep
  <2>5. CellTypeOK'
    BY <1>1, <1>2, <1>3, <2>1, <2>2, ScrollTypes DEF CellTypeOK
  <2>6. JobInv'
    BY <1>1, <1>2, <1>3, <2>1, <2>2 DEF JobInv
  <2>7. QED
    BY <2>4, <2>5, <2>6 DEF ScrollInv
<1>6. QED
  BY <1>3, <1>4, <1>5

LEMMA CopyDownStep ==
  ASSUME ScrollInv, CopyDown
  PROVE  ScrollInv'
<1>1. CellTypeOK /\ JobInv /\ phase = "copy" /\ ~ up
  BY DEF ScrollInv, CopyDown
<1>2. UNCHANGED <<rows, columns, top, bottom, shift, up, saved>>
  BY DEF CopyDown
<1>3. /\ rows \in Nat /\ columns \in Nat /\ top \in Nat /\ bottom \in Nat /\ shift \in Nat
      /\ row \in Nat /\ top < bottom /\ bottom <= rows /\ shift >= 1 /\ shift <= bottom - top
      /\ row >= top + shift /\ row <= bottom
  BY <1>1 DEF CellTypeOK, JobInv
<1>4. CASE row > top + shift
  <2>1. /\ cells' = Rewritten(row - 1, RowOf(row - 1 - shift, row - 1))
        /\ row' = row - 1 /\ phase' = "copy"
    BY <1>1, <1>3, <1>4 DEF CopyDown
  <2>2. /\ row - 1 \in top..bottom - 1 /\ row - 1 - shift \in top..bottom - 1
        /\ row - 1 \in Int /\ row - 1 - shift \in Int /\ row - 1 \in Nat
    BY <1>3, <1>4
  <2>3. ~ Settled(row - 1 - shift)
    BY <1>1, <1>3 DEF Settled
  <2>4. /\ RowOf(row - 1 - shift, row - 1) \in [0..columns - 1 -> Cell]
        /\ \A p \in Places(rows, columns) :
             p[1] = row - 1 => RowOf(row - 1 - shift, row - 1)[p[2]] = Scrolled(p)
    BY <1>1, <2>2, <2>3, CopiedRow
  <2>5. \A k \in Int : Settled(k)' <=> Settled(k) \/ k = row - 1
    BY <1>1, <1>2, <1>3, <2>1 DEF Settled
  <2>6. CellsInv'
    BY <1>1, <1>2, <2>1, <2>2, <2>4, <2>5, RowStep
  <2>7. CellTypeOK'
    BY <1>1, <1>2, <1>3, <2>1, <2>2, <2>4, RewrittenType, ScrollTypes
  <2>8. JobInv'
    BY <1>1, <1>2, <1>3, <1>4, <2>1 DEF JobInv
  <2>9. QED
    BY <2>6, <2>7, <2>8 DEF ScrollInv
<1>5. CASE row <= top + shift
  <2>1. cells' = cells /\ row' = top /\ phase' = "blank"
    BY <1>1, <1>3, <1>5 DEF CopyDown
  <2>2. row = top + shift
    BY <1>3, <1>5
  <2>3. \A k \in Int : k \in top..bottom - 1 => (Settled(k)' <=> Settled(k))
    BY <1>1, <1>2, <1>3, <2>1, <2>2 DEF Settled
  <2>4. CellsInv'
    BY <1>1, <1>2, <2>1, <2>3, TurnStep
  <2>5. CellTypeOK'
    BY <1>1, <1>2, <1>3, <2>1, ScrollTypes DEF CellTypeOK
  <2>6. JobInv'
    BY <1>1, <1>2, <1>3, <2>1 DEF JobInv
  <2>7. QED
    BY <2>4, <2>5, <2>6 DEF ScrollInv
<1>6. QED
  BY <1>3, <1>4, <1>5

LEMMA BlankStep ==
  ASSUME ScrollInv, BlankRow
  PROVE  ScrollInv'
<1> DEFINE blanks == [c \in 0..columns - 1 |-> Blank]
<1>1. CellTypeOK /\ JobInv /\ phase = "blank"
  BY DEF ScrollInv, BlankRow
<1>2. UNCHANGED <<rows, columns, top, bottom, shift, up, saved>>
  BY DEF BlankRow
<1>3. /\ rows \in Nat /\ columns \in Nat /\ top \in Nat /\ bottom \in Nat /\ shift \in Nat
      /\ row \in Nat /\ top < bottom /\ bottom <= rows /\ shift >= 1 /\ shift <= bottom - top
      /\ up \in BOOLEAN
      /\ up => row >= bottom - shift /\ row <= bottom
      /\ ~ up => row >= top /\ row <= top + shift
  BY <1>1 DEF CellTypeOK, JobInv
<1>4. CASE row < BlankEnd
  <2>1. cells' = Rewritten(row, blanks) /\ row' = row + 1 /\ phase' = "blank"
    <3>1. BlankEnd \in Nat
      BY <1>3 DEF BlankEnd
    <3>2. QED
      BY <1>1, <1>3, <1>4, <3>1 DEF BlankRow
  <2>2. blanks \in [0..columns - 1 -> Cell]
    BY BlankIsCell
  <2>3. ASSUME NEW p \in Places(rows, columns), p[1] = row
        PROVE  blanks[p[2]] = Scrolled(p)
    <3>1. blanks[p[2]] = Blank
      BY <1>3, PlaceParts
    <3>2. CASE up
      <4>1. row \in top..bottom - 1 /\ row + shift \notin top..bottom - 1
        BY <1>3, <1>4, <3>2 DEF BlankEnd
      <4>2. QED
        BY <2>3, <3>1, <3>2, <4>1 DEF Scrolled
    <3>3. CASE ~ up
      <4>1. row \in top..bottom - 1 /\ row - shift \notin top..bottom - 1
        BY <1>3, <1>4, <3>3 DEF BlankEnd
      <4>2. QED
        BY <2>3, <3>1, <3>3, <4>1 DEF Scrolled
    <3>4. QED
      BY <3>2, <3>3
  <2>4. \A k \in Int : Settled(k)' <=> Settled(k) \/ k = row
    BY <1>1, <1>2, <1>3, <2>1 DEF Settled
  <2>5. CellsInv'
    <3> HIDE DEF blanks
    <3>1. row \in Int
      BY <1>3
    <3>2. QED
      BY <1>1, <1>2, <2>1, <2>2, <2>3, <2>4, <3>1, RowStep
  <2>6. CellTypeOK'
    <3> HIDE DEF blanks
    <3>1. QED
      BY <1>1, <1>2, <1>3, <2>1, <2>2, RewrittenType, ScrollTypes
  <2>7. JobInv'
    BY <1>1, <1>2, <1>3, <1>4, <2>1 DEF JobInv, BlankEnd
  <2>8. QED
    BY <2>5, <2>6, <2>7 DEF ScrollInv
<1>5. CASE ~ (row < BlankEnd)
  <2>1. cells' = cells /\ row' = row /\ phase' = "scrolled"
    BY <1>5 DEF BlankRow
  <2>2. \A k \in Int : k \in top..bottom - 1 => (Settled(k)' <=> Settled(k))
    BY <1>1, <1>3, <1>5, <2>1 DEF Settled, BlankEnd
  <2>3. CellsInv'
    BY <1>1, <1>2, <2>1, <2>2, TurnStep
  <2>4. CellTypeOK'
    BY <1>1, <1>2, <1>3, <2>1, ScrollTypes DEF CellTypeOK
  <2>5. JobInv'
    BY <1>1, <1>2, <2>1 DEF JobInv
  <2>6. QED
    BY <2>3, <2>4, <2>5 DEF ScrollInv
<1>6. QED
  BY <1>4, <1>5

LEMMA ScrollAlways == CellSpec => []ScrollInv
<1>1. ScrollInv /\ [CellNext]_cellVars => ScrollInv'
  <2>1. ASSUME ScrollInv, UNCHANGED cellVars
        PROVE  ScrollInv'
    <3>1. CellTypeOK'
      BY <2>1 DEF ScrollInv, CellTypeOK, cellVars
    <3>2. JobInv'
      BY <2>1 DEF ScrollInv, JobInv, cellVars
    <3>3. /\ \A p : Scrolled(p)' = Scrolled(p)
          /\ \A r : Settled(r)' <=> Settled(r)
      BY <2>1 DEF Scrolled, Settled, cellVars
    <3>4. CellsInv'
      BY <2>1, <3>3 DEF ScrollInv, CellsInv, cellVars
    <3>5. QED
      BY <3>1, <3>2, <3>4 DEF ScrollInv
  <2>2. QED
    BY <2>1, CallStep, BeginStep, CopyUpStep, CopyDownStep, BlankStep DEF CellNext
<1>2. QED
  BY <1>1, ScrollInit, PTL DEF CellSpec

\* The buffer is a full grid of cells at every size.
THEOREM TypeCorrect == CellSpec => []CellTypeOK
<1>1. ScrollInv => CellTypeOK
  BY DEF ScrollInv
<1>2. QED
  BY <1>1, ScrollAlways, PTL

LEMMA SettledAtEnd ==
  ASSUME ScrollInv, phase = "scrolled"
  PROVE  \A p \in Places(rows, columns) : cells[p] = Scrolled(p)
BY DEF ScrollInv, CellsInv, Settled

\* scroll() in place is the shift of its region.
THEOREM ScrollIsShift == CellSpec => []ScrollMoves
<1>1. ScrollInv => ScrollMoves
  BY SettledAtEnd DEF ScrollMoves
<1>2. QED
  BY <1>1, ScrollAlways, PTL

\* A cell and its neighbour come from one row, or are both blank.
LEMMA SameRow ==
  ASSUME ScrollInv, phase = "scrolled", NEW r \in 0..rows - 1, NEW c \in 0..columns - 1
  PROVE  \/ cells[<<r, c>>] = Blank
         \/ \E k \in 0..rows - 1 :
              \A d \in 0..columns - 1 : cells[<<r, d>>] = saved[<<k, d>>]
<1> DEFINE from == IF up THEN r + shift ELSE r - shift
<1>1. rows \in Nat /\ columns \in Nat /\ top \in Nat /\ bottom \in Nat /\ bottom <= rows
  BY DEF ScrollInv, CellTypeOK, JobInv
<1>2. \A d \in 0..columns - 1 :
        cells[<<r, d>>] = IF r \notin top..bottom - 1 THEN saved[<<r, d>>]
                          ELSE IF from \in top..bottom - 1 THEN saved[<<from, d>>]
                          ELSE Blank
  <2> TAKE d \in 0..columns - 1
  <2>1. <<r, d>> \in Places(rows, columns) /\ <<r, d>>[1] = r /\ <<r, d>>[2] = d
    BY <1>1, PlaceMade
  <2>2. cells[<<r, d>>] = Scrolled(<<r, d>>)
    BY <2>1, SettledAtEnd
  <2>3. QED
    BY <2>1, <2>2 DEF Scrolled
<1>3. CASE r \notin top..bottom - 1
  BY <1>2, <1>3
<1>4. CASE r \in top..bottom - 1 /\ from \in top..bottom - 1
  <2>1. from \in 0..rows - 1
    BY <1>1, <1>4
  <2>2. \A d \in 0..columns - 1 : cells[<<r, d>>] = saved[<<from, d>>]
    BY <1>2, <1>4
  <2>3. QED
    BY <2>1, <2>2
<1>5. CASE r \in top..bottom - 1 /\ from \notin top..bottom - 1
  BY <1>2, <1>5
<1>6. QED
  BY <1>3, <1>4, <1>5

\* The invariant of wide graphemes survives scroll(), as the manual asks.
THEOREM ScrollKeepsWideWhole == CellSpec => []ScrollKeepsWide
<1>1. ScrollInv => ScrollKeepsWide
  <2> SUFFICES ASSUME ScrollInv, phase = "scrolled", WideWhole(saved)
               PROVE  WideWhole(cells)
    BY DEF ScrollKeepsWide
  <2> SUFFICES ASSUME NEW p \in Places(rows, columns)
               PROVE  /\ cells[p] \in Wide =>
                           p[2] + 1 < columns /\ cells[<<p[1], p[2] + 1>>] = Continuation
                      /\ cells[p] = Continuation => p[2] > 0 /\ cells[<<p[1], p[2] - 1>>] \in Wide
    BY DEF WideWhole
  <2>1. rows \in Nat /\ columns \in Nat
    BY DEF ScrollInv, CellTypeOK
  <2>2. p = <<p[1], p[2]>> /\ p[1] \in 0..rows - 1 /\ p[2] \in 0..columns - 1
    BY <2>1, PlaceParts
  <2>3. CASE cells[<<p[1], p[2]>>] = Blank
    BY <2>2, <2>3, GraphemesAssumption
  <2>4. ASSUME NEW k \in 0..rows - 1,
               \A d \in 0..columns - 1 : cells[<<p[1], d>>] = saved[<<k, d>>]
        PROVE  /\ cells[p] \in Wide =>
                    p[2] + 1 < columns /\ cells[<<p[1], p[2] + 1>>] = Continuation
               /\ cells[p] = Continuation => p[2] > 0 /\ cells[<<p[1], p[2] - 1>>] \in Wide
    <3>1. /\ <<k, p[2]>> \in Places(rows, columns)
          /\ <<k, p[2]>>[1] = k /\ <<k, p[2]>>[2] = p[2]
      BY <2>1, <2>2, PlaceMade
    <3>2. cells[p] = saved[<<k, p[2]>>]
      BY <2>2, <2>4
    <3>3. /\ saved[<<k, p[2]>>] \in Wide =>
               p[2] + 1 < columns /\ saved[<<k, p[2] + 1>>] = Continuation
          /\ saved[<<k, p[2]>>] = Continuation => p[2] > 0 /\ saved[<<k, p[2] - 1>>] \in Wide
      BY <3>1 DEF WideWhole
    <3>4. p[2] + 1 < columns => cells[<<p[1], p[2] + 1>>] = saved[<<k, p[2] + 1>>]
      BY <2>1, <2>2, <2>4
    <3>5. p[2] > 0 => cells[<<p[1], p[2] - 1>>] = saved[<<k, p[2] - 1>>]
      BY <2>1, <2>2, <2>4
    <3>6. QED
      BY <3>2, <3>3, <3>4, <3>5
  <2>5. QED
    BY <2>2, <2>3, <2>4, SameRow
<1>2. QED
  BY <1>1, ScrollAlways, PTL

-----------------------------------------------------------------------------
(* The virtual terminal.                                                     *)

CursorInv ==
  /\ rows \in Nat /\ columns \in Nat
  /\ cursorRow \in Nat /\ cursorColumn \in Nat /\ resized \in BOOLEAN
  /\ VirtualCursorOnScreen

\* The automaton's callbacks move the cursor on the screen and leave the screen's size alone.
LEMMA CallbacksKeepCursor ==
  ASSUME CursorInv, PutText \/ NewLine \/ Return \/ Backspace
  PROVE  CursorInv'
<1> USE DEF CursorInv, VirtualCursorOnScreen
<1>1. CASE PutText
  BY <1>1 DEF PutText, Advanced
<1>2. CASE NewLine
  BY <1>2 DEF NewLine, cellVars
<1>3. CASE Return
  BY <1>3 DEF Return, cellVars
<1>4. CASE Backspace
  BY <1>4 DEF Backspace, cellVars
<1> QED
  BY <1>1, <1>2, <1>3, <1>4

\* On a screen of any size that its owner does not resize the terminal's cursor stays on the
\* screen, whatever the owner writes or scrolls between two inputs, so no text is lost.
THEOREM CursorStaysOnScreen == VirtualSpec => []VirtualCursorOnScreen
<1>1. VirtualInit => CursorInv
  <2> SUFFICES ASSUME VirtualInit PROVE CursorInv
    OBVIOUS
  <2>1. rows \in 0..MaxRows /\ columns \in 0..MaxColumns
    BY DEF VirtualInit, CellInit
  <2>2. cursorRow = 0 /\ cursorColumn = 0 /\ resized = FALSE
    BY DEF VirtualInit
  <2>3. rows \in Nat /\ columns \in Nat
    BY <2>1, SizesAssumption
  <2>4. (rows > 0 => 0 < rows) /\ (columns > 0 => 0 < columns)
    BY <2>3
  <2> QED
    BY <2>2, <2>3, <2>4 DEF CursorInv, VirtualCursorOnScreen
<1>2. ASSUME CursorInv, [VirtualNext]_virtualVars
      PROVE  CursorInv'
  <2>1. CASE UNCHANGED virtualVars
    BY <1>2, <2>1 DEF virtualVars, cellVars, CursorInv, VirtualCursorOnScreen
  <2>2. CASE Owner
    <3>1. rows' \in Nat /\ columns' \in Nat
      BY <1>2, <2>2, SizesAssumption
         DEF Owner, CellNext, CursorInv, Put, Resize, Clear, BeginScroll, CopyUp, CopyDown,
             BlankRow, ScrollReturns
    <3>2. UNCHANGED <<cursorRow, cursorColumn>>
      BY <2>2 DEF Owner, cursor
    <3>3. resized' \in BOOLEAN /\ (~ resized' => ~ resized /\ rows' = rows /\ columns' = columns)
      BY <1>2, <2>2 DEF Owner, CursorInv
    <3> QED
      BY <1>2, <3>1, <3>2, <3>3 DEF CursorInv, VirtualCursorOnScreen
  <2> QED
    BY <1>2, <2>1, <2>2, CallbacksKeepCursor DEF VirtualNext
<1>3. CursorInv => VirtualCursorOnScreen
  BY DEF CursorInv
<1> QED
  BY <1>1, <1>2, <1>3, PTL DEF VirtualSpec

-----------------------------------------------------------------------------
(* Damage.                                                                   *)

\* A set of numbers has a least one: what holds of no least counterexample holds of all.
LEMMA LeastNat ==
  ASSUME NEW T, T \subseteq Nat, T # {}
  PROVE  \E m \in T : \A n \in T : m <= n
<1> DEFINE R == OpToRel(<, Nat)
<1>1. IsWellFoundedOn(R, Nat)
  BY NatLessThanWellFounded
<1>2. \A m, n \in Nat : m < n => <<m, n>> \in R
  BY DEF OpToRel
<1> HIDE DEF R
<1>3. PICK m \in T : \A n \in T : ~ (<<n, m>> \in R)
  BY <1>1, WFMin
<1>4. \A n \in T : ~ (n < m)
  BY <1>2, <1>3
<1> QED
  BY <1>4

Region == {d \in [row : Nat, first : Nat, last : Nat] : d.first <= d.last}

LEMMA RegionParts ==
  \A d \in Region : d.row \in Nat /\ d.first \in Nat /\ d.last \in Nat /\ d.first <= d.last
BY DEF Region

LEMMA Widened ==
  ASSUME NEW d \in Region, NEW last \in Nat, d.first <= last
  PROVE  /\ [d EXCEPT !.last = last] \in Region
         /\ [d EXCEPT !.last = last].row = d.row
         /\ [d EXCEPT !.last = last].first = d.first
         /\ [d EXCEPT !.last = last].last = last
BY DEF Region

\* One of the first n regions has the cell.
Covers(out, n, r, c) == \E i \in 1..n : out[i].row = r /\ out[i].first <= c /\ c <= out[i].last

\* The regions are in the order of their cells, with a cell between two of a row.
Apart(out) ==
  \A i, j \in 1..Len(out) : i < j =>
    out[i].row < out[j].row \/ (out[i].row = out[j].row /\ out[i].last + 1 < out[j].first)

\* What the last region is after the one that was merged into it or put behind it.
EndsWith(out, d) == Len(out) > 0 /\ out[Len(out)].row = d.row /\ out[Len(out)].first <= d.first

\* One step of the loop of merge(), for a region that does not begin before the last one.
LEMMA ExtendedIs ==
  ASSUME NEW out \in Seq(Region), NEW d \in Region, Apart(out),
         Len(out) > 0 => ~ InOrder(d, out[Len(out)])
  PROVE  /\ Extended(out, d) \in Seq(Region)
         /\ Apart(Extended(out, d))
         /\ EndsWith(Extended(out, d), d)
         /\ \A r, c \in Nat :
              Covers(Extended(out, d), Len(Extended(out, d)), r, c)
                <=> Covers(out, Len(out), r, c) \/ (d.row = r /\ d.first <= c /\ c <= d.last)
<1> DEFINE n == Len(out)
           e == Extended(out, d)
           end == out[n]
           merges == out # <<>> /\ end.row = d.row /\ d.first <= end.last + 1
           new == [end EXCEPT !.last = IF end.last < d.last THEN d.last ELSE end.last]
<1>1. n \in Nat /\ \A i \in 1..n : out[i] \in Region
  OBVIOUS
<1>2. CASE merges
  <2>1. n > 0 /\ end \in Region /\ ~ InOrder(d, end)
    BY <1>1, <1>2
  <2>2. /\ new \in Region /\ new.row = d.row /\ new.first = end.first /\ new.first <= d.first
        /\ end.last <= new.last /\ d.last <= new.last
        /\ \A c \in Nat : new.first <= c /\ c <= new.last
             <=> (end.first <= c /\ c <= end.last) \/ (d.first <= c /\ c <= d.last)
    <3> DEFINE last == IF end.last < d.last THEN d.last ELSE end.last
    <3>1. /\ end.first \in Nat /\ end.last \in Nat /\ end.first <= end.last
          /\ d.first \in Nat /\ d.last \in Nat /\ d.first <= d.last /\ d.row \in Nat
      BY <2>1, RegionParts
    <3>2. last \in Nat /\ end.first <= last /\ end.last <= last /\ d.last <= last
          /\ (last = end.last \/ last = d.last)
      BY <3>1
    <3>3. end.first <= d.first /\ end.row = d.row /\ d.first <= end.last + 1
      BY <1>2, <2>1, <3>1 DEF InOrder
    <3> HIDE DEF last, end
    <3>4. new = [end EXCEPT !.last = last]
      BY DEF last
    <3>5. new \in Region /\ new.row = end.row /\ new.first = end.first /\ new.last = last
      <4>1. end \in Region /\ last \in Nat /\ end.first <= last
        BY <2>1, <3>2
      <4> DEFINE wide == [end EXCEPT !.last = last]
      <4>2. wide \in Region /\ wide.row = end.row /\ wide.first = end.first /\ wide.last = last
        BY <4>1, Widened
      <4>3. new = wide
        BY <3>4
      <4> HIDE DEF new, wide
      <4> QED
        BY <4>2, <4>3
    <3> HIDE DEF new
    <3> QED
      BY <3>1, <3>2, <3>3, <3>5
  <2>3. e = Append(SubSeq(out, 1, n - 1), new)
    BY <1>2 DEF Extended, Front
  <2> HIDE DEF new
  <2>4. SubSeq(out, 1, n - 1) \in Seq(Region) /\ Len(SubSeq(out, 1, n - 1)) = n - 1
        /\ \A i \in 1..(n - 1) : SubSeq(out, 1, n - 1)[i] = out[i]
    <3> HIDE DEF n
    <3>1. n \in Nat /\ n > 0 /\ n = Len(out) /\ \A i \in 1..(n - 1) : i \in 1..n /\ out[i] \in Region
      BY <1>1, <2>1 DEF n
    <3> DEFINE f == [i \in 1..(n - 1) |-> out[i]]
    <3>2. SubSeq(out, 1, n - 1) = f
      BY <3>1
    <3>3. f \in Seq(Region) /\ Len(f) = n - 1
      BY <3>1
    <3> QED
      BY <3>1, <3>2, <3>3
  <2> DEFINE front == SubSeq(out, 1, n - 1)
  <2> HIDE DEF front
  <2>5. e \in Seq(Region) /\ Len(e) = n /\ e[n] = new /\ \A i \in 1..(n - 1) : e[i] = out[i]
    BY <1>1, <2>1, <2>2, <2>3, <2>4 DEF front
  <2> HIDE DEF e
  <2>6. Apart(e)
    <3> SUFFICES ASSUME NEW i \in 1..n, NEW j \in 1..n, i < j
                 PROVE  e[i].row < e[j].row \/ (e[i].row = e[j].row /\ e[i].last + 1 < e[j].first)
      BY <2>5 DEF Apart
    <3>1. out[i].row < out[j].row \/ (out[i].row = out[j].row /\ out[i].last + 1 < out[j].first)
      BY <1>1 DEF Apart
    <3>2. i \in 1..(n - 1) /\ e[i] = out[i]
      BY <1>1, <2>5
    <3>3. CASE j = n
      BY <1>2, <2>2, <2>5, <3>1, <3>2, <3>3
    <3>4. CASE j # n
      BY <1>1, <2>5, <3>1, <3>2, <3>4
    <3> QED
      BY <3>3, <3>4
  <2>7. EndsWith(e, d)
    BY <2>1, <2>2, <2>5 DEF EndsWith
  <2>8. ASSUME NEW r \in Nat, NEW c \in Nat
        PROVE  Covers(e, n, r, c) <=> Covers(out, n, r, c) \/ (d.row = r /\ d.first <= c /\ c <= d.last)
    <3>1. Covers(e, n, r, c) <=> Covers(out, n - 1, r, c) \/ (new.row = r /\ new.first <= c /\ c <= new.last)
      BY <1>1, <2>1, <2>5, SMTT(30) DEF Covers
    <3>2. Covers(out, n, r, c) <=> Covers(out, n - 1, r, c) \/ (end.row = r /\ end.first <= c /\ c <= end.last)
      BY <1>1, <2>1 DEF Covers
    <3> QED
      BY <1>2, <2>2, <3>1, <3>2
  <2> QED
    BY <2>5, <2>6, <2>7, <2>8 DEF e
<1>3. CASE ~ merges
  <2>1. e = Append(out, d)
    BY <1>3 DEF Extended
  <2>2. e \in Seq(Region) /\ Len(e) = n + 1 /\ e[n + 1] = d /\ \A i \in 1..n : e[i] = out[i]
    BY <1>1, <2>1
  <2> HIDE DEF e
  <2>3. n > 0 => end \in Region /\ (end.row < d.row \/ (end.row = d.row /\ end.last + 1 < d.first))
    BY <1>1, <1>3 DEF Region, InOrder
  <2>4. Apart(e)
    <3> SUFFICES ASSUME NEW i \in 1..(n + 1), NEW j \in 1..(n + 1), i < j
                 PROVE  e[i].row < e[j].row \/ (e[i].row = e[j].row /\ e[i].last + 1 < e[j].first)
      BY <2>2 DEF Apart
    <3>0. i \in 1..n /\ e[i] = out[i] /\ out[i] \in Region
      BY <1>1, <2>2
    <3>1. CASE j # n + 1
      BY <1>1, <2>2, <3>0, <3>1 DEF Apart
    <3>2. CASE j = n + 1
      <4>1. CASE i = n
        BY <1>1, <2>2, <2>3, <3>0, <3>2, <4>1
      <4>2. CASE i # n
        <5>1. i < n /\ n \in 1..n /\ end \in Region
          BY <1>1, <3>0, <4>2
        <5>2. out[i].row < end.row \/ (out[i].row = end.row /\ out[i].last + 1 < end.first)
          BY <3>0, <5>1 DEF Apart
        <5> QED
          <6>1. /\ out[i].row \in Nat /\ out[i].last \in Nat /\ end.row \in Nat /\ d.row \in Nat
                /\ end.first \in Nat /\ end.last \in Nat /\ d.first \in Nat /\ end.first <= end.last
            BY <3>0, <5>1, RegionParts
          <6>2. e[j] = d /\ e[i] = out[i]
            BY <2>2, <3>0, <3>2
          <6>3. end.row < d.row \/ (end.row = d.row /\ end.last + 1 < d.first)
            BY <2>3, <5>1
          <6> HIDE DEF end
          <6> QED
            BY <5>2, <6>1, <6>2, <6>3, SMTT(30)
      <4> QED
        BY <4>1, <4>2
    <3> QED
      BY <3>1, <3>2
  <2>5. EndsWith(e, d)
    BY <1>1, <2>2, RegionParts, SMTT(30) DEF EndsWith
  <2>6. ASSUME NEW r \in Nat, NEW c \in Nat
        PROVE  Covers(e, n + 1, r, c) <=> Covers(out, n, r, c) \/ (d.row = r /\ d.first <= c /\ c <= d.last)
    BY <1>1, <2>2 DEF Covers
  <2> QED
    BY <2>2, <2>4, <2>5, <2>6 DEF e
<1> QED
  BY <1>2, <1>3

-----------------------------------------------------------------------------

\* f[n] is what merge() has made of the first n regions.
Loop(f, n, s) == f = [k \in 0..n |-> IF k = 0 THEN <<>> ELSE Extended(f[k - 1], s[k])]

LEMMA LoopExists ==
  ASSUME NEW s, NEW n \in Nat
  PROVE  \E f : Loop(f, n, s)
<1> DEFINE T == {k \in Nat : ~ \E f : Loop(f, k, s)}
<1> SUFFICES ASSUME T # {} PROVE FALSE
  OBVIOUS
<1>1. T \subseteq Nat
  OBVIOUS
<1>2. PICK m \in T : \A k \in T : m <= k
  BY <1>1, LeastNat
<1>3. m # 0
  <2> DEFINE f == [k \in 0..0 |-> <<>>]
  <2>1. \A k \in 0..0 : k = 0
    OBVIOUS
  <2>2. f = [k \in 0..0 |-> IF k = 0 THEN <<>> ELSE Extended(f[k - 1], s[k])]
    BY <2>1
  <2>3. Loop(f, 0, s)
    BY <2>2 DEF Loop
  <2>4. 0 \notin T
    BY <2>3
  <2> QED
    BY <1>2, <2>4
<1>4. m \in Nat /\ m - 1 \in Nat /\ m - 1 < m
  BY <1>1, <1>2, <1>3
<1>5. m - 1 \notin T
  <2> HIDE DEF T
  <2> QED
    BY <1>2, <1>4
<1>6. PICK f : Loop(f, m - 1, s)
  BY <1>4, <1>5
<1> DEFINE g == [k \in 0..m |-> IF k = m THEN Extended(f[m - 1], s[m]) ELSE f[k]]
<1>7. \A k \in 0..m : g[k] = IF k = 0 THEN <<>> ELSE Extended(g[k - 1], s[k])
  <2> SUFFICES ASSUME NEW k \in 0..m
               PROVE  g[k] = IF k = 0 THEN <<>> ELSE Extended(g[k - 1], s[k])
    OBVIOUS
  <2>1. CASE k = m
    <3>1. g[m] = Extended(f[m - 1], s[m]) /\ g[m - 1] = f[m - 1]
      BY <1>4
    <3> HIDE DEF g
    <3> QED
      BY <1>3, <2>1, <3>1
  <2>2. CASE k # m
    <3>1. k \in 0..(m - 1) /\ g[k] = f[k] /\ (k # 0 => k - 1 \in 0..m /\ g[k - 1] = f[k - 1])
      BY <1>4, <2>2
    <3>2. f[k] = IF k = 0 THEN <<>> ELSE Extended(f[k - 1], s[k])
      BY <1>6, <3>1 DEF Loop
    <3> HIDE DEF g
    <3> QED
      BY <3>1, <3>2
  <2> QED
    BY <2>1, <2>2
<1>8. g = [k \in 0..m |-> IF k = 0 THEN <<>> ELSE Extended(g[k - 1], s[k])]
  <2>1. g = [k \in 0..m |-> g[k]]
    OBVIOUS
  <2> HIDE DEF g
  <2> QED
    BY <1>7, <2>1
<1>9. Loop(g, m, s)
  <2> HIDE DEF g
  <2> QED
    BY <1>8 DEF Loop
<1> QED
  BY <1>2, <1>9

\* merge() of the regions that are in order: the same cells, in regions that do not touch.
MergedWell(out, s, n) ==
  /\ out \in Seq(Region) /\ Apart(out)
  /\ n > 0 => EndsWith(out, s[n])
  /\ \A r, c \in Nat : Covers(out, Len(out), r, c) <=> Covers(s, n, r, c)

LEMMA LoopMerges ==
  ASSUME NEW s \in Seq(Region), NEW f, Loop(f, Len(s), s),
         \A i, j \in 1..Len(s) : i < j => ~ InOrder(s[j], s[i])
  PROVE  \A n \in 0..Len(s) : MergedWell(f[n], s, n)
<1> DEFINE T == {n \in 0..Len(s) : ~ MergedWell(f[n], s, n)}
<1> SUFFICES ASSUME T # {} PROVE FALSE
  OBVIOUS
<1>1. T \subseteq Nat /\ Len(s) \in Nat
  OBVIOUS
<1>2. PICK m \in T : \A k \in T : m <= k
  BY <1>1, LeastNat
<1>3. \A k \in 0..Len(s) : f[k] = IF k = 0 THEN <<>> ELSE Extended(f[k - 1], s[k])
  BY DEF Loop
<1>4. m # 0
  <2>1. f[0] = <<>>
    BY <1>1, <1>3
  <2>2. MergedWell(<<>>, s, 0)
    BY DEF MergedWell, Apart, Covers
  <2>3. 0 \notin T
    BY <2>1, <2>2
  <2> QED
    BY <1>2, <2>3
<1>5. m \in 1..Len(s) /\ m - 1 \in 0..Len(s) /\ m - 1 < m /\ m - 1 \in Nat
  BY <1>1, <1>2, <1>4
<1>6. m - 1 \notin T
  <2> HIDE DEF T
  <2> QED
    BY <1>1, <1>2, <1>5
<1> DEFINE out == f[m - 1]
           d == s[m]
<1>7. MergedWell(out, s, m - 1) /\ d \in Region
  BY <1>5, <1>6
<1>8. f[m] = Extended(out, d)
  BY <1>3, <1>4, <1>5
<1> HIDE DEF T, out
<1>9. Len(out) > 0 => ~ InOrder(d, out[Len(out)])
  <2> SUFFICES ASSUME Len(out) > 0 PROVE ~ InOrder(d, out[Len(out)])
    OBVIOUS
  <2>1. m # 1
    <3> SUFFICES ASSUME m = 1 PROVE FALSE
      OBVIOUS
    <3>1. out = <<>>
      BY <1>3, <1>5 DEF out
    <3> QED
      BY <3>1
  <2>2. m - 1 \in 1..Len(s) /\ s[m - 1] \in Region /\ ~ InOrder(d, s[m - 1])
    BY <1>5, <2>1
  <2> DEFINE last == out[Len(out)]
             before == s[m - 1]
  <2>3. last.row = before.row /\ last.first <= before.first
    BY <1>5, <1>7, <2>1 DEF MergedWell, EndsWith
  <2>4. last \in Region /\ before \in Region /\ d \in Region /\ ~ InOrder(d, before)
    BY <1>7, <2>2 DEF MergedWell
  <2> HIDE DEF last, before, d
  <2>5. ~ InOrder(d, last)
    BY <2>3, <2>4, RegionParts DEF InOrder
  <2> QED
    BY <2>5 DEF last
<1>10. MergedWell(Extended(out, d), s, m)
  <2>1. out \in Seq(Region) /\ Apart(out)
    BY <1>7 DEF MergedWell
  <2>2. /\ Extended(out, d) \in Seq(Region)
        /\ Apart(Extended(out, d))
        /\ EndsWith(Extended(out, d), d)
        /\ \A r, c \in Nat :
              Covers(Extended(out, d), Len(Extended(out, d)), r, c)
                <=> Covers(out, Len(out), r, c) \/ (d.row = r /\ d.first <= c /\ c <= d.last)
    BY <1>7, <1>9, <2>1, ExtendedIs
  <2>3. \A r, c \in Nat :
          Covers(s, m, r, c) <=> Covers(s, m - 1, r, c) \/ (d.row = r /\ d.first <= c /\ c <= d.last)
    BY <1>5 DEF Covers
  <2>4. \A r, c \in Nat : Covers(out, Len(out), r, c) <=> Covers(s, m - 1, r, c)
    BY <1>7 DEF MergedWell
  <2> QED
    BY <2>2, <2>3, <2>4 DEF MergedWell
<1> QED
  BY <1>2, <1>8, <1>10 DEF T

LEMMA MergedIs ==
  ASSUME NEW s \in Seq(Region), \A i, j \in 1..Len(s) : i < j => ~ InOrder(s[j], s[i])
  PROVE  /\ Merged(s) \in Seq(Region) /\ Apart(Merged(s))
         /\ \A r, c \in Nat : Covers(Merged(s), Len(Merged(s)), r, c) <=> Covers(s, Len(s), r, c)
<1> DEFINE f == CHOOSE f : Loop(f, Len(s), s)
<1>1. Len(s) \in Nat /\ Len(s) \in 0..Len(s)
  OBVIOUS
<1>2. Loop(f, Len(s), s)
  BY <1>1, LoopExists
<1>3. Merged(s) = f[Len(s)]
  BY DEF Merged, Loop
<1> HIDE DEF f
<1>4. MergedWell(f[Len(s)], s, Len(s))
  BY <1>1, <1>2, LoopMerges
<1> QED
  BY <1>3, <1>4 DEF MergedWell

-----------------------------------------------------------------------------

DamageInv ==
  /\ dirty \in Seq(Region) /\ Apart(dirty)
  /\ marked \subseteq Nat \X Nat
  /\ \A r, c \in Nat : <<r, c>> \in marked <=> Covers(dirty, Len(dirty), r, c)

\* What std::sort() leaves: the regions there were, in order.
LEMMA Reordered ==
  ASSUME NEW all \in Seq(Region), NEW p \in Orders(all), NEW s \in Seq(Region),
         Len(s) = Len(all), \A i \in 1..Len(all) : s[i] = all[p[i]]
  PROVE  /\ \A i, j \in 1..Len(s) : i < j => ~ InOrder(s[j], s[i])
         /\ \A r, c \in Nat : Covers(s, Len(s), r, c) <=> Covers(all, Len(all), r, c)
<1> DEFINE n == Len(all)
<1>1. n \in Nat /\ DOMAIN all = 1..n /\ \A i \in 1..n : all[i] \in Region
  OBVIOUS
<1> HIDE DEF n
<1>2. /\ p \in [1..n -> 1..n] /\ Range(p) = 1..n
      /\ \A i, j \in 1..n : i < j => ~ InOrder(all[p[j]], all[p[i]])
  BY <1>1 DEF Orders
<1>3. \A k \in 1..n : \E i \in 1..n : p[i] = k
  BY <1>2 DEF Range
<1>5. Len(s) = n /\ \A i \in 1..n : s[i] = all[p[i]]
  BY DEF n
<1>8. \A i, j \in 1..n : i < j => ~ InOrder(s[j], s[i])
  BY <1>2, <1>5
<1>9. ASSUME NEW r \in Nat, NEW c \in Nat
      PROVE  Covers(s, n, r, c) <=> Covers(all, n, r, c)
  <2>1. ASSUME NEW i \in 1..n, s[i].row = r, s[i].first <= c, c <= s[i].last
        PROVE  Covers(all, n, r, c)
    BY <1>2, <1>5, <2>1 DEF Covers
  <2>2. ASSUME NEW k \in 1..n, all[k].row = r, all[k].first <= c, c <= all[k].last
        PROVE  Covers(s, n, r, c)
    <3>1. PICK i \in 1..n : p[i] = k
      BY <1>3
    <3>2. s[i] = all[k]
      BY <1>5, <3>1
    <3> QED
      BY <2>2, <3>2 DEF Covers
  <2> QED
    BY <2>1, <2>2 DEF Covers
<1> QED
  BY <1>5, <1>8, <1>9 DEF n

LEMMA MarkStep == DamageInv /\ Mark => DamageInv'
<1> SUFFICES ASSUME DamageInv, Mark PROVE DamageInv'
  OBVIOUS
<1>1. PICK r0 \in 0..Rows - 1, a \in 0..Columns - 1, b \in 0..Columns - 1 :
        LET d == [row |-> r0, first |-> IF b < a THEN b ELSE a, last |-> IF b < a THEN a ELSE b]
            all == Append(dirty, d)
        IN  /\ \E p \in Orders(all) : dirty' = Merged([i \in 1..Len(all) |-> all[p[i]]])
            /\ marked' = marked \cup ({r0} \X (d.first..d.last))
  BY Zenon DEF Mark
<1> DEFINE d == [row |-> r0, first |-> IF b < a THEN b ELSE a, last |-> IF b < a THEN a ELSE b]
           all == Append(dirty, d)
<1>2. d \in Region
  BY PartsAssumption DEF Region
<1>3. marked' = marked \cup ({r0} \X (d.first..d.last)) /\ d.row = r0
  BY <1>1
<1>4. PICK p \in Orders(all) : dirty' = Merged([i \in 1..Len(all) |-> all[p[i]]])
  BY <1>1
<1> HIDE DEF d
<1>5. dirty \in Seq(Region) /\ Len(dirty) \in Nat
  BY DEF DamageInv
<1>6. /\ all \in Seq(Region) /\ Len(all) = Len(dirty) + 1 /\ all[Len(dirty) + 1] = d
      /\ \A i \in 1..Len(dirty) : all[i] = dirty[i]
  BY <1>2, <1>5
<1> HIDE DEF all
<1> DEFINE s == [i \in 1..Len(all) |-> all[p[i]]]
<1>7. /\ dirty' = Merged(s) /\ s \in Seq(Region) /\ Len(s) = Len(all)
      /\ \A i \in 1..Len(all) : s[i] = all[p[i]]
  <2>1. Len(all) \in Nat /\ \A i \in 1..Len(all) : all[i] \in Region
    BY <1>6
  <2>2. p \in [1..Len(all) -> 1..Len(all)]
    BY <1>4, <1>6 DEF Orders
  <2>3. \A i \in 1..Len(all) : all[p[i]] \in Region
    BY <2>1, <2>2
  <2>4. s \in Seq(Region) /\ Len(s) = Len(all)
    BY <2>1, <2>3
  <2> QED
    BY <1>4, <2>4
<1> HIDE DEF s
<1>8. /\ \A i, j \in 1..Len(s) : i < j => ~ InOrder(s[j], s[i])
      /\ \A r, c \in Nat : Covers(s, Len(s), r, c) <=> Covers(all, Len(all), r, c)
  BY <1>4, <1>6, <1>7, Reordered
<1>9. /\ dirty' \in Seq(Region) /\ Apart(dirty')
       /\ \A r, c \in Nat : Covers(dirty', Len(dirty'), r, c) <=> Covers(s, Len(s), r, c)
  BY <1>7, <1>8, MergedIs
<1>10. \A r, c \in Nat : Covers(all, Len(all), r, c)
          <=> Covers(dirty, Len(dirty), r, c) \/ (d.row = r /\ d.first <= c /\ c <= d.last)
  BY <1>5, <1>6, SMTT(30) DEF Covers
<1>11. \A r, c \in Nat : <<r, c>> \in marked'
          <=> <<r, c>> \in marked \/ (d.row = r /\ d.first <= c /\ c <= d.last)
  BY <1>2, <1>3, RegionParts
<1>12. marked' \subseteq Nat \X Nat
  <2>1. r0 \in Nat /\ d.first..d.last \subseteq Nat
    BY <1>2, <1>3, RegionParts
  <2> QED
    BY <1>3, <2>1 DEF DamageInv
<1> QED
  BY <1>8, <1>9, <1>10, <1>11, <1>12 DEF DamageInv

LEMMA MarkAllStep == MarkAll => DamageInv'
<1> SUFFICES ASSUME MarkAll PROVE DamageInv'
  OBVIOUS
<1>1. Rows \in Nat /\ Columns \in Nat /\ Rows * Columns \in Nat
  BY PartsAssumption
<1>2. marked' = {0} \X (0..Rows * Columns - 1)
  BY DEF MarkAll
<1>3. CASE Rows = 0 \/ Columns = 0
  <2>1. dirty' = <<>> /\ Rows * Columns = 0
    BY <1>1, <1>3 DEF MarkAll
  <2>2. marked' = {}
    BY <1>2, <2>1
  <2> QED
    BY <2>1, <2>2 DEF DamageInv, Apart, Covers
<1>4. CASE Rows # 0 /\ Columns # 0
  <2> DEFINE n == Rows * Columns
             d == [row |-> 0, first |-> 0, last |-> n - 1]
  <2>1. n \in Nat /\ n > 0
    BY <1>1, <1>4
  <2>2. dirty' = <<d>> /\ marked' = {0} \X (0..n - 1)
    BY <1>2, <1>4 DEF MarkAll
  <2> HIDE DEF n
  <2>3. d \in Region /\ d.row = 0 /\ d.first = 0 /\ d.last = n - 1
    BY <2>1 DEF Region
  <2> HIDE DEF d
  <2>4. dirty' \in Seq(Region) /\ Len(dirty') = 1 /\ dirty'[1] = d
    BY <2>2, <2>3
  <2>5. Apart(dirty')
    BY <2>4 DEF Apart
  <2>6. \A r, c \in Nat : <<r, c>> \in marked' <=> Covers(dirty', Len(dirty'), r, c)
    BY <2>1, <2>2, <2>3, <2>4 DEF Covers
  <2>7. marked' \subseteq Nat \X Nat
    BY <2>1, <2>2
  <2> QED
    BY <2>4, <2>5, <2>6, <2>7 DEF DamageInv
<1> QED
  BY <1>3, <1>4

LEMMA ClearStep == ClearDamage => DamageInv'
BY DEF ClearDamage, DamageInv, Apart, Covers

LEMMA DamageSuffices ==
  ASSUME DamageInv
  PROVE  /\ marked = UNION {{dirty[i].row} \X (dirty[i].first..dirty[i].last) : i \in DOMAIN dirty}
         /\ \A i, j \in DOMAIN dirty :
              i < j /\ dirty[i].row = dirty[j].row => dirty[i].last + 1 < dirty[j].first
<1>1. DOMAIN dirty = 1..Len(dirty) /\ Len(dirty) \in Nat /\ \A i \in 1..Len(dirty) : dirty[i] \in Region
  BY DEF DamageInv
<1>2. \A i, j \in DOMAIN dirty :
        i < j /\ dirty[i].row = dirty[j].row => dirty[i].last + 1 < dirty[j].first
  <2> SUFFICES ASSUME NEW i \in 1..Len(dirty), NEW j \in 1..Len(dirty), i < j,
                      dirty[i].row = dirty[j].row
               PROVE  dirty[i].last + 1 < dirty[j].first
    BY <1>1
  <2>1. dirty[i].row < dirty[j].row
        \/ (dirty[i].row = dirty[j].row /\ dirty[i].last + 1 < dirty[j].first)
    BY DEF DamageInv, Apart
  <2>2. dirty[i].row \in Nat
    BY <1>1, RegionParts
  <2> QED
    BY <2>1, <2>2
<1> DEFINE Cells(i) == {dirty[i].row} \X (dirty[i].first..dirty[i].last)
<1>3. ASSUME NEW m \in marked PROVE \E i \in DOMAIN dirty : m \in Cells(i)
  <2>1. PICK r \in Nat, c \in Nat : m = <<r, c>>
    BY <1>3 DEF DamageInv
  <2>2. PICK i \in 1..Len(dirty) : dirty[i].row = r /\ dirty[i].first <= c /\ c <= dirty[i].last
    BY <1>3, <2>1 DEF DamageInv, Covers
  <2>3. m \in Cells(i)
    BY <1>1, <2>1, <2>2, RegionParts
  <2> QED
    BY <1>1, <2>3
<1>4. ASSUME NEW i \in DOMAIN dirty, NEW m \in Cells(i) PROVE m \in marked
  <2>1. dirty[i].row \in Nat /\ dirty[i].first \in Nat /\ dirty[i].last \in Nat
    BY <1>1, RegionParts
  <2>2. PICK c \in dirty[i].first..dirty[i].last : m = <<dirty[i].row, c>>
    BY <1>4
  <2>3. c \in Nat /\ Covers(dirty, Len(dirty), dirty[i].row, c)
    BY <1>1, <2>1, <2>2 DEF Covers
  <2> QED
    BY <2>1, <2>2, <2>3 DEF DamageInv
<1> HIDE DEF Cells
<1>5. marked = UNION {Cells(i) : i \in DOMAIN dirty}
  BY <1>3, <1>4
<1> QED
  BY <1>2, <1>5 DEF Cells

-----------------------------------------------------------------------------
(* Scrollback and tab stops.                                                 *)

LinesInv ==
  /\ lines \in Seq(Int) /\ limit \in Nat /\ pushes \in Nat /\ Len(lines) <= limit
  /\ \A i \in 1..Len(lines) : lines[i] = pushes - Len(lines) + i - 1

LEMMA NewestIs ==
  ASSUME NEW all \in Seq(Int), NEW n \in Nat
  PROVE  /\ Newest(all, n) \in Seq(Int)
         /\ Len(Newest(all, n)) = IF Len(all) > n THEN n ELSE Len(all)
         /\ \A i \in 1..Len(Newest(all, n)) :
              Newest(all, n)[i] = all[Len(all) - Len(Newest(all, n)) + i]
<1> DEFINE from == IF Len(all) > n THEN Len(all) - n + 1 ELSE 1
<1>1. Len(all) \in Nat /\ \A i \in 1..Len(all) : all[i] \in Int
  OBVIOUS
<1>2. from \in 1..(Len(all) + 1) /\ Len(all) - from + 1 = IF Len(all) > n THEN n ELSE Len(all)
  BY <1>1
<1>3. Newest(all, n) = SubSeq(all, from, Len(all))
  BY DEF Newest
<1> HIDE DEF from
<1>4. \A i \in from..Len(all) : all[i] \in Int
  BY <1>1, <1>2
<1>5. /\ SubSeq(all, from, Len(all)) \in Seq(Int)
      /\ Len(SubSeq(all, from, Len(all))) = IF from <= Len(all) THEN Len(all) - from + 1 ELSE 0
      /\ \A i \in 1..(Len(all) - from + 1) : SubSeq(all, from, Len(all))[i] = all[from + i - 1]
  BY <1>1, <1>2, <1>4, SubSeqProperties
<1>6. Len(Newest(all, n)) = Len(all) - from + 1
  BY <1>1, <1>2, <1>3, <1>5
<1> DEFINE new == Newest(all, n)
<1>7. new \in Seq(Int) /\ Len(new) = Len(all) - from + 1
      /\ \A i \in 1..(Len(all) - from + 1) : new[i] = all[from + i - 1]
  BY <1>3, <1>5, <1>6
<1> HIDE DEF new
<1>8. \A i \in 1..Len(new) : from + i - 1 = Len(all) - Len(new) + i
  BY <1>1, <1>2, <1>7
<1>9. \A i \in 1..Len(new) : new[i] = all[Len(all) - Len(new) + i]
  BY <1>7, <1>8
<1> QED
  BY <1>2, <1>7, <1>9 DEF new

LEMMA PushStep == LinesInv /\ PushLine => LinesInv'
<1> SUFFICES ASSUME LinesInv, PushLine PROVE LinesInv'
  OBVIOUS
<1> DEFINE all == Append(lines, pushes)
<1>1. /\ limit' = limit /\ limit \in Nat /\ pushes' = pushes + 1 /\ pushes \in Nat
      /\ lines' = Newest(all, limit)
  BY DEF PushLine, LinesInv
<1>2. /\ all \in Seq(Int) /\ Len(all) = Len(lines) + 1 /\ Len(lines) \in Nat
      /\ \A i \in 1..Len(all) : all[i] = pushes - Len(lines) + i - 1
  BY DEF LinesInv
<1> HIDE DEF all
<1>3. /\ lines' \in Seq(Int)
      /\ Len(lines') = IF Len(all) > limit THEN limit ELSE Len(all)
      /\ \A i \in 1..Len(lines') : lines'[i] = all[Len(all) - Len(lines') + i]
  BY <1>1, <1>2, NewestIs
<1>4. Len(lines') \in Nat /\ Len(lines') <= limit
  BY <1>1, <1>2, <1>3
<1>5. \A i \in 1..Len(lines') :
        /\ Len(all) - Len(lines') + i \in 1..Len(all)
        /\ pushes - Len(lines) + (Len(all) - Len(lines') + i) - 1 = (pushes + 1) - Len(lines') + i - 1
  BY <1>1, <1>2, <1>3, <1>4
<1>6. \A i \in 1..Len(lines') : lines'[i] = pushes' - Len(lines') + i - 1
  BY <1>1, <1>2, <1>3, <1>5
<1>7. limit' \in Nat /\ pushes' \in Nat /\ Len(lines') <= limit'
  BY <1>1, <1>4
<1> QED
  BY <1>3, <1>6, <1>7 DEF LinesInv

LEMMA LimitStep == LinesInv /\ SetLimit => LinesInv'
<1> SUFFICES ASSUME LinesInv, SetLimit PROVE LinesInv'
  OBVIOUS
<1>1. PICK n \in 0..3 : limit' = n /\ lines' = Newest(lines, n)
  BY DEF SetLimit
<1>2. n \in Nat /\ lines \in Seq(Int) /\ Len(lines) \in Nat /\ pushes \in Nat /\ pushes' = pushes
  BY DEF LinesInv, SetLimit
<1>3. /\ lines' \in Seq(Int)
      /\ Len(lines') = IF Len(lines) > n THEN n ELSE Len(lines)
      /\ \A i \in 1..Len(lines') : lines'[i] = lines[Len(lines) - Len(lines') + i]
  BY <1>1, <1>2, NewestIs
<1>4. Len(lines') \in Nat /\ Len(lines') <= n
  BY <1>2, <1>3
<1>5. \A i \in 1..Len(lines') :
        /\ Len(lines) - Len(lines') + i \in 1..Len(lines)
        /\ pushes - Len(lines) + (Len(lines) - Len(lines') + i) - 1 = pushes - Len(lines') + i - 1
  BY <1>2, <1>3, <1>4
<1>6. \A i \in 1..Len(lines') : lines'[i] = pushes' - Len(lines') + i - 1
  BY <1>2, <1>3, <1>5 DEF LinesInv
<1> QED
  BY <1>1, <1>2, <1>3, <1>4, <1>6 DEF LinesInv

LEMMA StopsExact ==
  ASSUME stops \subseteq Nat, NEW c \in stops, NextStop(c) # c
  PROVE  PrevStop(NextStop(c)) = c
<1> DEFINE after == {s \in stops : s > c}
           next == NextStop(c)
           before == {s \in stops : s < next}
<1>1. after # {} /\ after \subseteq Nat /\ next = Min(after)
  BY DEF NextStop
<1>2. \E m \in after : \A n \in after : m <= n
  BY <1>1, LeastNat
<1>3. next \in after /\ \A n \in after : next <= n
  BY <1>1, <1>2 DEF Min
<1> HIDE DEF next
<1>4. c \in before /\ before \subseteq Nat
  BY <1>3
<1>5. \A s \in before : s <= c
  <2> SUFFICES ASSUME NEW s \in before, ~ (s <= c) PROVE FALSE
    OBVIOUS
  <2>1. s \in after /\ s \in Nat /\ next \in Nat /\ s < next
    BY <1>1, <1>3
  <2> QED
    BY <1>3, <2>1
<1>6. Max(before) = c
  <2> HIDE DEF before
  <2>1. \A x \in before : (\A y \in before : x >= y) <=> x = c
    BY <1>4, <1>5
  <2> QED
    BY <1>4, <2>1 DEF Max
<1>7. PrevStop(next) = IF before = {} THEN next ELSE Max(before)
  BY DEF PrevStop
<1> QED
  BY <1>4, <1>6, <1>7 DEF next

PartsInv == DamageInv /\ LinesInv /\ stops \subseteq Nat

\* The damage is exactly the cells marked, in regions that do not touch, whatever the order
\* std::sort() leaves equal regions in; the scrollback has the newest lines up to its limit;
\* a tab back undoes a tab: for screens, limits and stops of any size.
THEOREM PartsStayExact == PartsSpec => []PartsExact
<1>1. PartsInit => PartsInv
  BY PartsAssumption DEF PartsInit, PartsInv, DamageInv, LinesInv, Apart, Covers
<1>2. PartsInv /\ [PartsNext]_partVars => PartsInv'
  <2> SUFFICES ASSUME PartsInv, [PartsNext]_partVars PROVE PartsInv'
    OBVIOUS
  <2>1. ASSUME UNCHANGED damageVars PROVE DamageInv'
    BY <2>1 DEF PartsInv, DamageInv, damageVars
  <2>2. ASSUME UNCHANGED lineVars PROVE LinesInv'
    BY <2>2 DEF PartsInv, LinesInv, lineVars
  <2>3. CASE UNCHANGED partVars
    BY <2>1, <2>2, <2>3 DEF PartsInv, partVars
  <2>4. CASE DamageNext
    <3>1. UNCHANGED <<lineVars, stops>>
      BY <2>4 DEF DamageNext, Mark, MarkAll, ClearDamage
    <3>2. DamageInv'
      BY <2>4, MarkStep, MarkAllStep, ClearStep DEF DamageNext, PartsInv
    <3> QED
      BY <2>2, <3>1, <3>2 DEF PartsInv
  <2>5. CASE PushLine \/ SetLimit
    BY <2>1, <2>5, PushStep, LimitStep DEF PartsInv, PushLine, SetLimit
  <2>6. CASE ChangeMode \/ Save \/ Restore
    BY <2>1, <2>2, <2>6 DEF PartsInv, ChangeMode, Save, Restore
  <2>7. CASE ChangeStop
    BY <2>1, <2>2, <2>7, PartsAssumption DEF PartsInv, ChangeStop
  <2> QED
    BY <2>3, <2>4, <2>5, <2>6, <2>7 DEF PartsNext, OthersNext
<1>3. PartsInv => PartsExact
  <2> SUFFICES ASSUME PartsInv PROVE PartsExact
    OBVIOUS
  <2>1. \A i \in DOMAIN lines : lines[i] = pushes - Len(lines) + i - 1
    BY DEF PartsInv, LinesInv
  <2> QED
    BY <2>1, DamageSuffices, StopsExact DEF PartsInv, PartsExact, LinesInv
<1> QED
  BY <1>1, <1>2, <1>3, PTL DEF PartsSpec
=============================================================================
