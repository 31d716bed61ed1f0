------------------------------ MODULE TextLayouts ------------------------------
(***************************************************************************)
(* ttyutils::wrap, which folds lines into rows of a width, and              *)
(* ttyutils::diff, which makes a patch of two texts and applies it.         *)
(***************************************************************************)
EXTENDS TextSearch

Space == "space"
Blanks == {"space", "tab"}

\* WrapMap::Row
Row(l, s, e) == [line |-> l, start |-> s, end |-> e]

\* Mutant of RowEnd: one cluster more than fits.
RowEndTooLong(line, s, limit, breakWords) ==
  LET stop[n \in 0..limit + 1] == IF n = 0 THEN s ELSE NextBreak(line, stop[n - 1])
  IN  stop[limit + 1]

\* Where a row that starts at s ends: after limit clusters, or back after the last blank.
RowEnd(line, s, limit, breakWords) ==
  LET stop[n \in 0..limit] == IF n = 0 THEN s ELSE NextBreak(line, stop[n - 1])
      full == stop[limit]
      blanks == {NextBreak(line, stop[n]) :
                   n \in {k \in 0..limit - 1 : stop[k] < Len(line) /\ At(line, stop[k]) \in Blanks}}
  IN  IF full < Len(line) /\ breakWords /\ blanks # {} THEN Max(blanks) ELSE full

\* The spaces after a row belong to no row.
AfterSpaces(line, s) ==
  Min({e \in s..Len(line) : e = Len(line) \/ At(line, e) # Space})

LineRows(line, l, limit, breakWords) ==
  LET from[s \in 0..Len(line)] ==
        IF s = Len(line) THEN <<>>
        ELSE LET e == RowEnd(line, s, limit, breakWords)
             IN  <<Row(l, Clusters(line, 0, s), Clusters(line, 0, e))>> \o from[AfterSpaces(line, e)]
  IN  IF line = <<>> THEN <<Row(l, 0, 0)>> ELSE from[0]

\* soft_wrap()
SoftWrap(text, width, breakWords) ==
  FlattenSeq([l \in 1..Lines(text) |->
    LineRows(Line(text, l - 1), l - 1, Max({1, width}), breakWords)])

\* visual_to_buffer() and buffer_to_visual()
VisualToBuffer(rows, v) ==
  LET r == rows[Min({v.line, Len(rows) - 1}) + 1]
  IN  Pos(r.line, r.start + Min({v.col, r.end - r.start}))

BufferToVisual(rows, p) ==
  LET holding == {i \in DOMAIN rows : /\ rows[i].line = p.line
                                      /\ rows[i].start <= p.col /\ p.col <= rows[i].end}
  IN  IF holding = {} THEN Pos(0, 0) ELSE Pos(Min(holding) - 1, p.col - rows[Min(holding)].start)

\* The offset col clusters into a line.
ColumnOffset(line, col) == Offset(Pos(0, col), line)

RowText(text, r) ==
  LET line == Line(text, r.line)
  IN  SubSeq(line, ColumnOffset(line, r.start) + 1, ColumnOffset(line, r.end))

\* Each piece and a line break after it.
Terminated(lines) == FlattenSeq([i \in DOMAIN lines |-> Append(lines[i], "lf")])

\* Replacing all of a text, as reflow(), Patch::apply() and TextArea::set_text() do.
SetText(text, value) == Inserted(EraseAll(text), Pos(0, 0), value)

Reflowed(text, width, breakWords) ==
  LET rows == SoftWrap(text, width, breakWords)
  IN  SetText(text, Terminated([i \in DOMAIN rows |-> RowText(text, rows[i])]))

-----------------------------------------------------------------------------
(* Differences.                                                             *)

SplitLines(text) == [l \in 1..Lines(text) |-> Line(text, l - 1)]

\* lcs[i][j]: the longest common subsequence of what follows i and j.
Lcs(old, new) ==
  LET lcs[i \in 0..Len(old), j \in 0..Len(new)] ==
        IF i = Len(old) \/ j = Len(new) THEN 0
        ELSE IF old[i + 1] = new[j + 1] THEN lcs[i + 1, j + 1] + 1
        ELSE Max({lcs[i + 1, j], lcs[i, j + 1]})
  IN  lcs

\* append(): a hunk grows while its old and its new lines both go on.
Grown(hunks, kind, i, j, line) ==
  LET last == hunks[Len(hunks)]
      n == Len(last.content)
  IN  IF hunks # <<>> /\ last.kind = kind /\ last.old + n = i /\ last.new + n = j
      THEN Append(Front(hunks), [last EXCEPT !.content = Append(@, line)])
      ELSE Append(hunks, [kind |-> kind, old |-> i, new |-> j, content |-> <<line>>])

RECURSIVE Walk(_, _, _, _, _, _)
Walk(old, new, lcs, i, j, hunks) ==
  IF i = Len(old) /\ j = Len(new) THEN hunks
  ELSE IF i < Len(old) /\ j < Len(new) /\ old[i + 1] = new[j + 1]
    THEN Walk(old, new, lcs, i + 1, j + 1, Grown(hunks, "equal", i, j, old[i + 1]))
  ELSE IF j < Len(new) /\ (i = Len(old) \/ lcs[i, j + 1] >= lcs[i + 1, j])
    THEN Walk(old, new, lcs, i, j + 1, Grown(hunks, "add", i, j, new[j + 1]))
  ELSE Walk(old, new, lcs, i + 1, j, Grown(hunks, "remove", i, j, old[i + 1]))

\* lines()
Hunks(old, new) ==
  LET o == SplitLines(old)
      n == SplitLines(new)
  IN  Walk(o, n, Lcs(o, n), 0, 0, <<>>)

\* The lines of the hunks of these kinds, in their order.
LinesOf(hunks, kinds) ==
  FlattenSeq([i \in DOMAIN hunks |-> IF hunks[i].kind \in kinds THEN hunks[i].content ELSE <<>>])

\* Patch::apply()
Applied(hunks, text) == SetText(text, Terminated(LinesOf(hunks, {"equal", "add"})))

\* merge3(): the result, and whether the sides conflict.
Merged(base, ours, theirs) ==
  IF ours = theirs \/ theirs = base THEN [result |-> ours, conflict |-> FALSE]
  ELSE IF ours = base THEN [result |-> theirs, conflict |-> FALSE]
  ELSE [result |-> <<"ours", "lf">> \o ours \o <<"lf", "theirs", "lf">> \o theirs
                   \o <<"lf", "end", "lf">>, conflict |-> TRUE]

=============================================================================
