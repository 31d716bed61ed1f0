------------------------------ MODULE TextCursor ------------------------------
(***************************************************************************)
(* ttyutils::textcur: one cursor's motions and a set of cursors that edits  *)
(* a buffer.  A vector of cursors sorted by position without duplicates is   *)
(* a set of cursors whose positions differ.                                  *)
(***************************************************************************)
EXTENDS LineIndex, SequencesExt

CONSTANT Word  \* the letters isalnum() or '_' accepts; the others that occur it rejects

IsWord(text, o) == At(text, o) \in Word

\* word_boundary()
WordBoundary(text, o) ==
  o = 0 \/ o >= Len(text) \/ IsWord(text, o - 1) # IsWord(text, o)

Before(p, q) == p.line < q.line \/ (p.line = q.line /\ p.col < q.col)

\* Cursor, and Cursor::set_position() without keep_anchor.
CursorAt(p) == [position |-> p, anchor |-> p, sticky |-> p.col]

LineLength(text, l) == Count(Line(text, l))

Blank(text, l) == Line(text, l) = <<>>

Left(text, p) ==
  IF p.col > 0 THEN Pos(p.line, p.col - 1)
  ELSE IF p.line > 0 THEN Pos(p.line - 1, LineLength(text, p.line - 1)) ELSE p

\* Mutant of Right: the last column of a line is skipped.
RightPastEnd(text, p) ==
  IF p.col <= LineLength(text, p.line) THEN Pos(p.line, p.col + 1)
  ELSE IF p.line + 1 < Lines(text) THEN Pos(p.line + 1, 0) ELSE p

Right(text, p) ==
  IF p.col < LineLength(text, p.line) THEN Pos(p.line, p.col + 1)
  ELSE IF p.line + 1 < Lines(text) THEN Pos(p.line + 1, 0) ELSE p

\* Motion::up and Motion::down: to line l, at the sticky column or the end.
ToLine(text, c, l) ==
  IF l \in 0..Lines(text) - 1 THEN Pos(l, Min({c.sticky, LineLength(text, l)})) ELSE c.position

\* The first break from o on where the run of word letters (or of others) ends.
SkipRun(text, o, word) ==
  Min({b \in Breaks(text) : b >= o /\ (b = Len(text) \/ IsWord(text, b) # word)})

WordRight(text, p) ==
  LET o == Offset(p, text)
  IN  PositionOf(SkipRun(text, o, o < Len(text) /\ IsWord(text, o)), text)

\* Back to the last word letter before p, then to the first of its run.
WordLeft(text, p) ==
  LET before == {b \in Breaks(text) : b < Offset(p, text)}
      last == Max({0} \cup {b \in before : IsWord(text, b)})
      start == Min({b \in before \cup {last} :
                 b <= last /\ \A c \in before : b <= c /\ c < last => IsWord(text, c)})
  IN  PositionOf(start, text)

ParagraphUp(text, p) ==
  LET l == Max({0} \cup {k \in 0..p.line : ~ Blank(text, k)})
  IN  Pos(Max({0} \cup {k \in 1..l : Blank(text, k - 1)}), 0)

ParagraphDown(text, p) ==
  LET last == Lines(text) - 1
      l == Min({last} \cup {k \in p.line..last : k < last /\ Blank(text, k + 1)})
  IN  Pos(Min({last} \cup {k \in l..last : ~ Blank(text, k)}), 0)

Motions == {"left", "right", "up", "down", "word_left", "word_right", "paragraph_up", "paragraph_down"}

Target(text, c, motion) ==
  CASE motion = "left" -> Left(text, c.position)
    [] motion = "right" -> Right(text, c.position)
    [] motion = "up" -> ToLine(text, c, c.position.line - 1)
    [] motion = "down" -> ToLine(text, c, c.position.line + 1)
    [] motion = "word_left" -> WordLeft(text, c.position)
    [] motion = "word_right" -> WordRight(text, c.position)
    [] motion = "paragraph_up" -> ParagraphUp(text, c.position)
    [] OTHER -> ParagraphDown(text, c.position)

\* move(): every motion sets the sticky column, the vertical ones included.
Moved(text, c, motion, extend) ==
  LET p == Target(text, c, motion)
  IN  [position |-> p, anchor |-> IF extend THEN c.anchor ELSE c.position, sticky |-> p.col]

\* Mutant of EachInserted: from the first cursor to the last.
EachInsertedForward(text, cs, value) ==
  FoldLeft(LAMBDA t, p : Inserted(t, p, value), text,
           SetToSortSeq({c.position : c \in cs}, Before))

\* insert_each(): from the last cursor to the first, so that the position of each is
\* still good when its turn comes.
EachInserted(text, cs, value) ==
  FoldLeft(LAMBDA t, p : Inserted(t, p, value), text,
           SetToSortSeq({c.position : c \in cs}, LAMBDA p, q : Before(q, p)))

\* Where insert_each() leaves a cursor.
AfterInsert(c, value) == CursorAt(Pos(c.position.line, c.position.col + Count(value)))

=============================================================================
