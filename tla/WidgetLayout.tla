------------------------------ MODULE WidgetLayout ------------------------------
(***************************************************************************)
(* The boxes of ttyutils::ui: where layout() puts the children of HBox, VBox, *)
(* Grid, Stack and Split; Rect, Widget::hit_test(), Canvas and Box::draw().    *)
(***************************************************************************)
EXTENDS Integers, Sequences, FiniteSetsExt

CONSTANTS Places, Ratios   \* places that are looked at; ratios a Split is asked for

InRect(r, x, y) == x >= r.x /\ y >= r.y /\ x < r.x + r.width /\ y < r.y + r.height

NotNegative(n) == IF n < 0 THEN 0 ELSE n

\* C++ division of a length, which truncates towards zero.
Quotient(n, d) == IF n < 0 THEN -((-n) \div d) ELSE n \div d

-----------------------------------------------------------------------------

\* Mutant of Shares: the remainder is left over.
SharesEven(length, n) == [i \in 1..n |-> NotNegative(length) \div n]

\* How a box divides a length: the first children take one more until it is used up.
Shares(length, n) ==
  [i \in 1..n |-> NotNegative(length) \div n + (IF i <= NotNegative(length) % n THEN 1 ELSE 0)]

\* What the children before one have taken.
SumBefore(shares, i) ==
  LET before[k \in DOMAIN shares] == IF k = 1 THEN 0 ELSE before[k - 1] + shares[k - 1]
  IN  before[i]

\* HBox::layout() and VBox::layout()
HBox(bounds, n) ==
  LET shares == Shares(bounds.width, n)
  IN  [i \in 1..n |-> [bounds EXCEPT !.x = @ + SumBefore(shares, i), !.width = shares[i]]]

VBox(bounds, n) ==
  LET shares == Shares(bounds.height, n)
  IN  [i \in 1..n |-> [bounds EXCEPT !.y = @ + SumBefore(shares, i), !.height = shares[i]]]

\* Grid::layout(): children behind the last row are not placed, and what does not divide is
\* left at the right and at the bottom.
Grid(bounds, rows, columns, n) ==
  LET width == Quotient(bounds.width, columns)
      height == Quotient(bounds.height, rows)
  IN  [i \in 1..Min({n, rows * columns}) |->
         [x |-> bounds.x + ((i - 1) % columns) * width, y |-> bounds.y + ((i - 1) \div columns) * height,
          width |-> width, height |-> height]]

Stack(bounds, n) == [i \in 1..n |-> bounds]

Ratio(asked) == IF asked < 0 THEN 0 ELSE IF asked > 100 THEN 100 ELSE asked

\* Split::layout()
Split(bounds, ratio, across) ==
  LET first == Quotient((IF across THEN bounds.width ELSE bounds.height) * Ratio(ratio), 100)
  IN  IF across
      THEN <<[bounds EXCEPT !.width = first],
             [bounds EXCEPT !.x = @ + first, !.width = @ - first]>>
      ELSE <<[bounds EXCEPT !.height = first],
             [bounds EXCEPT !.y = @ + first, !.height = @ - first]>>

-----------------------------------------------------------------------------

\* hit_test() of a widget with children that have none: the last that has the place, or
\* the widget itself (0), or nothing (-1).
Hit(bounds, placed, x, y) ==
  LET at == {i \in DOMAIN placed : InRect(placed[i], x, y)}
  IN  IF at # {} THEN Max(at) ELSE IF InRect(bounds, x, y) THEN 0 ELSE -1

\* Canvas::text(): a text is kept or dropped by the place it starts at.
Kept(clip, texts) == SelectSeq(texts, LAMBDA t : InRect(clip, t.x, t.y))

\* Box::draw(): the width of each row.
BoxRows(width, height) ==
  IF width = 0 THEN <<>> ELSE [i \in 1..height |-> IF width > 1 THEN width ELSE 2]

-----------------------------------------------------------------------------

\* Every place of a box is in exactly one child and found there, and none outside is in any.
Tiles(bounds, placed) ==
  \A p \in Places :
    LET found == {i \in DOMAIN placed : InRect(placed[i], p[1], p[2])}
    IN  IF InRect(bounds, p[1], p[2])
        THEN \E i \in DOMAIN placed : found = {i} /\ Hit(bounds, placed, p[1], p[2]) = i
        ELSE found = {} /\ Hit(bounds, placed, p[1], p[2]) = -1

\* No place is in two cells of a grid, nor in one outside the grid.
CellsApart(bounds, placed) ==
  \A p \in Places :
    LET found == {i \in DOMAIN placed : InRect(placed[i], p[1], p[2])}
    IN  Cardinality(found) <= 1 /\ (found # {} => InRect(bounds, p[1], p[2]))

\* The top of a stack is what is found.
TopFound(bounds, n) ==
  \A p \in Places : InRect(bounds, p[1], p[2]) => Hit(bounds, Stack(bounds, n), p[1], p[2]) = n

\* A frame is as wide as asked, but for one of a single column.
FrameFits(bounds) ==
  LET frame == BoxRows(NotNegative(bounds.width), NotNegative(bounds.height))
  IN  \A i \in DOMAIN frame : frame[i] = bounds.width \/ bounds.width = 1

\* Boxes and splits divide what they have without a gap; the cells of a grid do not
\* overlap; and what is hit is what shows.
LayoutTiles(bounds, n) ==
  /\ Tiles(bounds, HBox(bounds, n)) /\ Tiles(bounds, VBox(bounds, n))
  /\ \A ratio \in Ratios, across \in BOOLEAN : Tiles(bounds, Split(bounds, ratio, across))
  /\ \A columns \in 1..3 : CellsApart(bounds, Grid(bounds, 2, columns, n))
  /\ TopFound(bounds, n) /\ FrameFits(bounds)

=================================================================================
