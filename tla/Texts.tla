--------------------------------- MODULE Texts ---------------------------------
(***************************************************************************)
(* Every text over one of Alphabets of at most MaxText code points, one     *)
(* code point typed at a time, to check Grapheme, LineIndex and            *)
(* TextCursor on.                                                           *)
(***************************************************************************)
EXTENDS TextCursor

CONSTANTS
  Alphabets,  \* sets of code points: break properties, and letters that break like "other"
  MaxText     \* bound: code points in a text

VARIABLE typed  \* the text so far

TextInit == typed = <<>>

Type ==
  /\ Len(typed) < MaxText
  /\ \E A \in Alphabets, c \in UNION Alphabets :
       /\ {typed[i] : i \in DOMAIN typed} \cup {c} \subseteq A
       /\ typed' = Append(typed, c)

TextSpec == TextInit /\ [][Type]_typed

Offsets == 0..Len(typed)
LineNumbers == 0..Lines(typed) - 1

-----------------------------------------------------------------------------
(* Clusters, against the boundary rules of UAX #29 stated for whole texts.  *)

\* GB11: a pictograph, extenders and one ZWJ before o, and a pictograph after it.
PictographJoiner(text, o) ==
  /\ o > 1 /\ At(text, o) = "extended_pictographic" /\ At(text, o - 1) = "zwj"
  /\ \E i \in 0..o - 2 :
       /\ At(text, i) = "extended_pictographic"
       /\ \A j \in i + 1..o - 2 : At(text, j) = "extend"

\* GB12 and GB13: an odd number of regional indicators before o.
FlagOpen(text, o) ==
  /\ At(text, o) = "regional_indicator" /\ At(text, o - 1) = "regional_indicator"
  /\ Cardinality({i \in 0..o - 1 :
       \A j \in i..o - 1 : At(text, j) = "regional_indicator"}) % 2 = 1

Boundary(text, o) ==
  \/ o \in {0, Len(text)}
  \/ LET p == At(text, o - 1)
         c == At(text, o)
     IN  /\ ~ (p = "cr" /\ c = "lf")
         /\ \/ p \in Breaker \/ c \in Breaker
            \/ /\ ~ Hangul(p, c)
               /\ c \notin {"extend", "zwj", "spacing_mark"} /\ p # "prepend"
               /\ ~ PictographJoiner(text, o) /\ ~ FlagOpen(text, o)

\* A pictograph after a run of extenders in which there is more than one ZWJ.
AfterTwoJoiners(text, o) ==
  /\ o < Len(text) /\ At(text, o) = "extended_pictographic"
  /\ \E j \in 0..o - 1 :
       /\ At(text, j) = "zwj" /\ \E k \in j + 1..o - 1 : At(text, k) = "zwj"
       /\ \A k \in j..o - 1 : At(text, k) \in {"extend", "zwj"}

\* segment() cuts a text exactly at the boundaries the whole text has, although it
\* decides each one from what it has seen of the current cluster alone.  Not claimed
\* of a pictograph after two joiners: see SegmentsFollowUAX29.
SegmentsAreClusters ==
  LET excepted == {o \in Offsets : AfterTwoJoiners(typed, o)}
  IN  Breaks(typed) \ excepted = {o \in Offsets : Boundary(typed, o)} \ excepted

\* The comment at no_break(), and the manifest: segmentation follows UAX #29, "rules
\* GB3-GB13 (Unicode 15.1)", at every offset.
SegmentsFollowUAX29 == Breaks(typed) = {o \in Offsets : Boundary(typed, o)}

-----------------------------------------------------------------------------
(* Positions.                                                                *)

\* Each offset between two clusters survives the way to a position and back: what a
\* cursor points at does not depend on who holds it.  A position past the end of its
\* line, or past the last line, means the end, and never anything before the line.
PositionsAgree ==
  /\ \A o \in Breaks(typed) : Offset(PositionOf(o, typed), typed) = o
  /\ \A l \in 0..Lines(typed), c \in 0..Len(typed) + 1 :
       LET m == Min({l, Lines(typed) - 1})
           o == Offset(Pos(l, c), typed)
       IN  /\ Start(typed, m) <= o /\ o <= Len(typed)
           /\ c >= Count(Line(typed, m)) => o >= End(typed, m)

\* The manifest: the buffer tracks whether lines end in LF, CRLF or both.
EolIsTracked ==
  LET ends == {IF n > 0 /\ At(typed, n - 1) = "cr" THEN "crlf" ELSE "lf" : n \in NewLines(typed)}
  IN  Eol(typed) = IF ends = {"crlf"} THEN "crlf" ELSE IF ends = {"crlf", "lf"} THEN "mixed" ELSE "lf"

-----------------------------------------------------------------------------
(* Cursors.                                                                 *)

\* The positions of the text.
Carets == UNION {{Pos(l, c) : c \in 0..LineLength(typed, l)} : l \in LineNumbers}

\* Texts whose code points are clusters of their own, and stay so when what is between
\* two of them is erased.
Unjoined(t) == \A i, j \in DOMAIN t : ~ NoBreak(t[i], t[j], TRUE, 1)

\* Cursor::move(): no motion leaves the text; left and right are each other's inverse;
\* a word motion gets nearer to its end of the text until it is there, and to the
\* right it stops between a word letter and another letter.
CaretMoves ==
  \A p \in Carets :
    LET to(motion) == Moved(typed, CursorAt(p), motion, FALSE).position
        o(q) == Offset(q, typed)
    IN  /\ \A m \in Motions : to(m) \in Carets
        /\ Left(typed, to("right")) = p \/ p = Pos(Lines(typed) - 1, LineLength(typed, Lines(typed) - 1))
        /\ Right(typed, to("left")) = p \/ p = Pos(0, 0)
        /\ o(to("word_right")) > o(p) \/ o(p) = Len(typed)
        /\ o(to("word_left")) < o(p) \/ o(p) = 0
        /\ Unjoined(typed) => WordBoundary(typed, o(to("word_right"))) /\ WordBoundary(typed, o(to("word_left")))

=============================================================================
