------------------------------ MODULE CellBuffer ------------------------------
(***************************************************************************)
(* ttytk::CellBuffer: rows of cells, in which a wide grapheme takes a lead *)
(* cell and a continuation cell.  scroll() moves rows within the buffer,   *)
(* one at a time.  Attributes and colours are left out.                    *)
(***************************************************************************)
EXTENDS Integers

CONSTANTS
  Narrow,       \* graphemes of width one (a grapheme of none is put as one)
  Wide,         \* graphemes of width two
  Blank,        \* the grapheme of a default cell, a space
  Continuation, \* what a continuation cell holds
  MaxRows,      \* bound: rows of the buffer
  MaxColumns    \* bound: columns of the buffer

ASSUME GraphemesAssumption ==
  /\ Blank \in Narrow /\ Narrow \cap Wide = {}
  /\ Continuation \notin Narrow \cup Wide
ASSUME SizesAssumption == MaxRows \in Nat /\ MaxColumns \in Nat

VARIABLES
  rows, columns,  \* rows_ and columns_
  cells,          \* cells_, by row and column
  phase,          \* where scroll() is, if it runs
  top, bottom,    \* its first row and the row after its last one
  shift, up,      \* by how many rows it moves, and whether towards row 0
  row,            \* its loop counter
  saved           \* history: the cells when it was called

cellVars == <<rows, columns, cells, phase, top, bottom, shift, up, row, saved>>

scrollVars == <<phase, top, bottom, shift, up, row, saved>>

Cell == Narrow \cup Wide \cup {Continuation}

Places(m, n) == (0..m - 1) \X (0..n - 1)

CellTypeOK ==
  /\ rows \in Nat /\ columns \in Nat
  /\ cells \in [Places(rows, columns) -> Cell]
  /\ saved \in [Places(rows, columns) -> Cell]
  /\ phase \in {"idle", "copy", "blank", "scrolled"}
  /\ top \in Nat /\ bottom \in Nat /\ shift \in Nat /\ row \in Nat
  /\ up \in BOOLEAN

CellInit ==
  /\ rows \in 0..MaxRows /\ columns \in 0..MaxColumns
  /\ cells = [p \in Places(rows, columns) |-> Blank]
  /\ saved = cells
  /\ phase = "idle" /\ top = 0 /\ bottom = 0 /\ shift = 0 /\ up = TRUE /\ row = 0

-----------------------------------------------------------------------------

\* The cells a put at <<r, c>> leaves: a wide grapheme takes the next cell too, if the
\* row has one; whatever was there, or ended there, is not looked at.
With(r, c, g) ==
  [p \in Places(rows, columns) |->
     IF p = <<r, c>> THEN g
     ELSE IF g \in Wide /\ p = <<r, c + 1>> THEN Continuation
     ELSE cells[p]]

Put ==
  /\ phase = "idle"
  /\ \E p \in Places(rows, columns), g \in Narrow \cup Wide : cells' = With(p[1], p[2], g)
  /\ saved' = cells'
  /\ UNCHANGED <<rows, columns, phase, top, bottom, shift, up, row>>

\* resize(): the cells both sizes have are copied, the others are blank.
Resize ==
  /\ phase = "idle"
  /\ rows' \in 0..MaxRows /\ columns' \in 0..MaxColumns
  /\ cells' = [p \in Places(rows', columns') |->
                 IF p \in Places(rows, columns) THEN cells[p] ELSE Blank]
  /\ saved' = cells'
  /\ UNCHANGED <<phase, top, bottom, shift, up, row>>

Clear ==
  /\ phase = "idle"
  /\ cells' = [p \in Places(rows, columns) |-> Blank]
  /\ saved' = cells'
  /\ UNCHANGED <<rows, columns, phase, top, bottom, shift, up, row>>

\* scroll(t, b, amount): amounts beyond the height of the region count as that height.
BeginScroll ==
  /\ phase = "idle"
  /\ \E t \in 0..rows, b \in 0..rows, u \in BOOLEAN :
       /\ t < b
       /\ top' = t /\ bottom' = b /\ up' = u
       /\ shift' \in 1..b - t
       /\ row' = IF u THEN t ELSE b
  /\ phase' = "copy" /\ saved' = cells
  /\ UNCHANGED <<rows, columns, cells>>

\* The cells with row r replaced by what f says of each column.
Rewritten(r, f) ==
  [p \in Places(rows, columns) |-> IF p[1] = r THEN f[p[2]] ELSE cells[p]]

\* Mutant of RowOf: the last column is left out of the copy.
RowOfShort(r, to) ==
  [c \in 0..columns - 1 |-> IF c + 1 < columns THEN cells[<<r, c>>] ELSE cells[<<to, c>>]]

\* The row that is copied to another.
RowOf(r, to) == [c \in 0..columns - 1 |-> cells[<<r, c>>]]

\* for (row = top; row + shift < bottom; ++row)
CopyUp ==
  /\ phase = "copy" /\ up
  /\ \/ /\ row + shift < bottom
        /\ cells' = Rewritten(row, RowOf(row + shift, row))
        /\ row' = row + 1 /\ phase' = phase
     \/ /\ row + shift >= bottom
        /\ row' = bottom - shift /\ phase' = "blank" /\ UNCHANGED cells
  /\ UNCHANGED <<rows, columns, top, bottom, shift, up, saved>>

\* Mutant of CopyDown: from the first row to the last, like CopyUp.
CopyDownForward ==
  /\ phase = "copy" /\ ~ up
  /\ \/ /\ row > top + shift
        /\ LET to == bottom - row + top + shift
           IN  cells' = Rewritten(to, RowOf(to - shift, to))
        /\ row' = row - 1 /\ phase' = phase
     \/ /\ row <= top + shift
        /\ row' = top /\ phase' = "blank" /\ UNCHANGED cells
  /\ UNCHANGED <<rows, columns, top, bottom, shift, up, saved>>

\* for (row = bottom; row-- > top + shift;)
CopyDown ==
  /\ phase = "copy" /\ ~ up
  /\ \/ /\ row > top + shift
        /\ cells' = Rewritten(row - 1, RowOf(row - 1 - shift, row - 1))
        /\ row' = row - 1 /\ phase' = phase
     \/ /\ row <= top + shift
        /\ row' = top /\ phase' = "blank" /\ UNCHANGED cells
  /\ UNCHANGED <<rows, columns, top, bottom, shift, up, saved>>

\* The row after the last that is blanked.
BlankEnd == IF up THEN bottom ELSE top + shift

BlankRow ==
  /\ phase = "blank"
  /\ \/ /\ row < BlankEnd
        /\ cells' = Rewritten(row, [c \in 0..columns - 1 |-> Blank])
        /\ row' = row + 1 /\ phase' = phase
     \/ /\ row >= BlankEnd
        /\ phase' = "scrolled" /\ UNCHANGED <<cells, row>>
  /\ UNCHANGED <<rows, columns, top, bottom, shift, up, saved>>

ScrollReturns ==
  /\ phase = "scrolled"
  /\ phase' = "idle" /\ saved' = cells
  /\ UNCHANGED <<rows, columns, cells, top, bottom, shift, up, row>>

CellNext ==
  \/ Put \/ Resize \/ Clear
  \/ BeginScroll \/ CopyUp \/ CopyDown \/ BlankRow \/ ScrollReturns

CellSpec == CellInit /\ [][CellNext]_cellVars

-----------------------------------------------------------------------------

\* What a cell of the buffer must be when scroll() is done with its row.
Scrolled(p) ==
  LET from == IF up THEN p[1] + shift ELSE p[1] - shift
  IN  IF p[1] \notin top..bottom - 1 THEN saved[p]
      ELSE IF from \in top..bottom - 1 THEN saved[<<from, p[2]>>]
      ELSE Blank

\* scroll() moves the rows of its region and blanks those that come in, in either
\* direction and in place: no row is overwritten before it was copied.
ScrollMoves == phase = "scrolled" => \A p \in Places(rows, columns) : cells[p] = Scrolled(p)

\* Each wide grapheme has its continuation, and each continuation its grapheme.
WideWhole(s) ==
  \A p \in Places(rows, columns) :
    /\ s[p] \in Wide => p[2] + 1 < columns /\ s[<<p[1], p[2] + 1>>] = Continuation
    /\ s[p] = Continuation => p[2] > 0 /\ s[<<p[1], p[2] - 1>>] \in Wide

\* The manual: scroll operations must preserve that invariant.
ScrollKeepsWide == phase = "scrolled" /\ WideWhole(saved) => WideWhole(cells)

=============================================================================
