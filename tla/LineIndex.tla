------------------------------- MODULE LineIndex -------------------------------
(***************************************************************************)
(* ttyutils::textbuf::LineIndex, which translates between offsets and      *)
(* positions (line, column in grapheme clusters), and the edits of         *)
(* textbuf::Buffer that are made of it.                                    *)
(***************************************************************************)
EXTENDS Grapheme

Position == [line : Nat, col : Nat]

Pos(l, c) == [line |-> l, col |-> c]

NewLines(text) == {o \in 0..Len(text) - 1 : At(text, o) = "lf"}

Lines(text) == Cardinality(NewLines(text)) + 1

\* starts_[l]
Start(text, l) ==
  CHOOSE o \in {0} \cup {n + 1 : n \in NewLines(text)} :
    Cardinality({n \in NewLines(text) : n < o}) = l

\* The offset of the line's '\n', or the end of the text.
End(text, l) == IF l + 1 < Lines(text) THEN Start(text, l + 1) - 1 ELSE Len(text)

\* offset(): as many clusters as the column says, while the line lasts.
Offset(p, text) ==
  LET l == Min({p.line, Lines(text) - 1})
      walk[c \in 0..p.col] ==
        IF c = 0 THEN Start(text, l)
        ELSE IF walk[c - 1] < End(text, l) THEN NextBreak(text, walk[c - 1])
        ELSE walk[c - 1]
  IN  walk[p.col]

\* Mutant of PositionOf: lower_bound instead of upper_bound.
PositionOfBefore(o, text) ==
  LET at == Min({o, Len(text)})
      l == IF at = 0 THEN 0 ELSE Cardinality({n \in NewLines(text) : n + 1 < at})
  IN  Pos(l, Clusters(text, Start(text, l), at))

\* position()
PositionOf(o, text) ==
  LET at == Min({o, Len(text)})
      l == Cardinality({n \in NewLines(text) : n < at})
  IN  Pos(l, Clusters(text, Start(text, l), at))

\* Buffer::line()
Line(text, l) ==
  IF l >= Lines(text) THEN <<>> ELSE SubSeq(text, Start(text, l) + 1, End(text, l))

\* Buffer::insert() and Buffer::erase(), as far as the text goes.
Inserted(text, p, value) ==
  LET at == Offset(p, text)
  IN  SubSeq(text, 1, at) \o value \o SubSeq(text, at + 1, Len(text))

Erased(text, first, last) ==
  LET begin == Offset(first, text)
      end == Offset(last, text)
  IN  IF end > begin THEN SubSeq(text, 1, begin) \o SubSeq(text, end + 1, Len(text)) ELSE text

Replaced(text, first, last, value) == Inserted(Erased(text, first, last), first, value)

\* inspect_encoding(): find_first_not_of('\r') starts at the code point before the
\* first '\n', or at it, and never gets past that '\n'.
Eol(text) ==
  LET crlf == \E n \in NewLines(text) : n > 0 /\ At(text, n - 1) = "cr"
      bareLf ==
        /\ NewLines(text) # {}
        /\ LET first == Min(NewLines(text))
           IN  \E o \in (IF first > 0 THEN first - 1 ELSE first)..Len(text) - 1 : At(text, o) # "cr"
  IN  IF crlf /\ bareLf THEN "mixed" ELSE IF crlf THEN "crlf" ELSE "lf"

\* Mutant of EraseAll: the number of lines is taken for the number of the last one.
EraseAllPastLast(text) ==
  LET last == Lines(text)
  IN  Erased(text, Pos(0, 0), Pos(last, Count(Line(text, last))))

\* What History::set_text() erases before it inserts.
EraseAll(text) ==
  LET last == Lines(text) - 1
  IN  Erased(text, Pos(0, 0), Pos(last, Count(Line(text, last))))

=============================================================================
