------------------------------- MODULE TextTools -------------------------------
(***************************************************************************)
(* What the cursors, the search, the wrapping and the differences of        *)
(* ttyutils promise of every text that Texts makes.                         *)
(***************************************************************************)
EXTENDS Texts, TextLayouts

CONSTANTS
  Letters,    \* the code points search and differences are checked on
  Patterns,   \* regular expressions tried
  Samples     \* texts that are inserted, searched for and compared with

\* Search and differences do not look at how code points join.
Lettered == ToSet(typed) \subseteq Letters

-----------------------------------------------------------------------------
(* Cursors.                                                                 *)

\* The offsets of the positions, from left to right, with the value put in at each.
Spliced(cuts, value) ==
  FlattenSeq([i \in 1..Len(typed) + 1 |->
    (IF i - 1 \in cuts THEN value ELSE <<>>) \o SubSeq(typed, i, Min({i, Len(typed)}))])

\* CursorSet::insert_each(): each cursor's insertion goes where the cursor stood in the
\* text before any of them, although every one of them moves what comes after it.
InsertsInPlace ==
  \A p, q \in Carets, value \in Samples :
    Before(p, q) /\ Offset(p, typed) # Offset(q, typed) =>
      EachInserted(typed, {CursorAt(p), CursorAt(q)}, value)
        = Spliced({Offset(p, typed), Offset(q, typed)}, value)

\* The manifest says of CursorSet: "Cursors remap themselves through buffer edits so
\* concurrent edits don't strand positions".  A cursor stands after what it inserted.
CursorsRemap ==
  \A p, q \in Carets, value \in Samples :
    LET after == EachInserted(typed, {CursorAt(p), CursorAt(q)}, value)
    IN  Offset(p, typed) < Offset(q, typed) =>
          Offset(AfterInsert(CursorAt(q), value).position, after)
            = Offset(q, typed) + 2 * Len(value)

-----------------------------------------------------------------------------
(* Search.                                                                  *)

\* The atoms of a regular expression: the letter, whether any letter will do, whether
\* it repeats.
Items(p) ==
  LET from[i \in 0..Len(p)] ==
        IF i = Len(p) \/ (i + 1 = Len(p) /\ At(p, i) = "$") THEN <<>>
        ELSE LET a == Atom(p, i)
             IN  <<[letter |-> At(p, a), any |-> At(p, a) = "." /\ a = i, star |-> Starred(p, a)]>>
                 \o from[IF Starred(p, a) THEN a + 2 ELSE a + 1]
  IN  from[0]

\* Every offset at which a match of the pattern from o may end.
Ends(p, o) ==
  LET accepts(item, c) == item.any \/ At(typed, c) = item.letter
      step(from, item) ==
        {e \in 0..Len(typed) : \E b \in from :
           /\ b <= e /\ (item.star \/ e = b + 1)
           /\ \A c \in b..e - 1 : accepts(item, c)}
      ends == FoldLeft(step, {o}, Items(p))
  IN  IF p # <<>> /\ Last(p) = "$" /\ ~ (Len(p) > 1 /\ p[Len(p) - 1] = "\\")
      THEN ends \cap {Len(typed)} ELSE ends

EscapedDot(p) == \E i \in 1..Len(p) - 1 : p[i] = "\\" /\ p[i + 1] = "."

\* The letters of s come in this order in t, with any others between them.
Embeds(s, t) ==
  \E at \in [DOMAIN s -> DOMAIN t] :
    /\ \A i, j \in DOMAIN s : i < j => at[i] < at[j]
    /\ \A i \in DOMAIN s : s[i] = t[at[i]]

\* find_all() and line_spans() against what they mean.  The backtracking of regex_at()
\* finds a match wherever there is one, and nothing else; every occurrence of a literal
\* that begins at a cluster is reported or overlaps one that is; a fuzzy match ends as soon
\* as its letters have come in their order; a keyword is coloured exactly where it is a
\* word of its own.  An escaped '.' still means any letter.
SearchFinds == Lettered =>
  /\ \A p \in Patterns, o \in Offsets :
       LET found == RegexAt(p, typed, 0, o, TRUE)
       IN  ~ EscapedDot(p) => (found = {} <=> Ends(p, o) = {}) /\ found \subseteq Ends(p, o)
  /\ \A s \in Samples, o \in Offsets :
       LET ends == {e \in o..Len(typed) : Embeds(s, SubSeq(typed, o + 1, e))}
       IN  MatchAt(typed, o, Query(Fuzzy, s, TRUE)) = {e \in ends : \A f \in ends : e <= f}
  /\ \A s \in Samples \ {<<>>} :
       LET matches == FindAll(typed, Query(Literal, s, FALSE))
           all == {o \in Breaks(typed) : LiteralAt(typed, o, Query(Literal, s, FALSE)) # {}}
       IN  /\ \A i, j \in DOMAIN matches : i < j => matches[i].end <= matches[j].begin
           /\ \A o \in all : \E i \in DOMAIN matches :
                matches[i].begin <= o /\ o < matches[i].end
  /\ \A s \in Samples \ {<<>>} :
       {s[i] : i \in DOMAIN s} \subseteq Word =>
         \A l \in LineNumbers :
           LET line == Line(typed, l)
           IN  Spans(line, s) =
                 {<<b, b + Len(s)>> : b \in {o \in Found(line, s, 0) :
                    WordBoundary(line, o) /\ WordBoundary(line, o + Len(s))}}

\* Replacer: the confirmed matches of the text it began with are replaced and the rest
\* stays as it was, although every replacement moves or joins what is around it.
ReplaceSplices ==
  \A s, value \in Samples :
    LET matches == FindAll(typed, Query(Literal, s, TRUE))
        kept(i) == SubSeq(typed, (IF i = 1 THEN 0 ELSE matches[i - 1].end) + 1,
                          IF i > Len(matches) THEN Len(typed) ELSE matches[i].begin)
    IN  Unjoined(typed \o value) =>
          \A confirmed \in SUBSET DOMAIN matches :
            ReplacedEach(typed, Query(Literal, s, TRUE), value, confirmed) =
              FlattenSeq([i \in 1..Len(matches) + 1 |->
                kept(i) \o (IF i > Len(matches) THEN <<>> ELSE IF i \in confirmed THEN value ELSE s)])

\* Search and replacement are exact: what is found is what occurs, and what is
\* replaced is what was found and confirmed.
SearchExact == SearchFinds /\ ReplaceSplices

-----------------------------------------------------------------------------
(* Rows and differences.                                                    *)

NotSpace(c) == c # Space

\* soft_wrap(): every row fits and shows something, rows of a line follow each other
\* with nothing but spaces in between, and what a row shows is found again from its
\* position.  reflow() loses nothing but line breaks and spaces.
WrapKeepsText ==
  \A width \in 0..3, breakWords \in BOOLEAN :
    LET rows == SoftWrap(typed, width, breakWords)
        shown == FlattenSeq([i \in DOMAIN rows |-> RowText(typed, rows[i])])
    IN  Unjoined(typed) =>
          /\ \A i \in DOMAIN rows :
               LET r == rows[i]
               IN  /\ r.end - r.start <= Max({1, width})
                   /\ r.start = r.end => Blank(typed, r.line)
                   /\ \A c \in r.start..r.end - 1 :
                        VisualToBuffer(rows, BufferToVisual(rows, Pos(r.line, c))) = Pos(r.line, c)
                   /\ \A j \in DOMAIN rows : i < j => rows[i].line < rows[j].line \/ r.end <= rows[j].start
          /\ SelectSeq(shown, NotSpace) = SelectSeq(typed, LAMBDA c : c \notin {Space, "lf"})
          /\ SelectSeq(Reflowed(typed, width, breakWords), LAMBDA c : c \notin {Space, "lf"})
               = SelectSeq(typed, LAMBDA c : c \notin {Space, "lf"})

\* diff::lines() and Patch::apply(): the patch of two texts makes the lines of the new
\* one, with a line break after the last too; the lines it keeps and removes are the old
\* ones, and it keeps as many as the texts have in common.  merge3() loses no line that
\* either side added.
PatchApplies == Lettered =>
  \A other \in Samples :
    LET hunks == Hunks(typed, other)
        common == LinesOf(hunks, {"equal"})
    IN  /\ Applied(hunks, typed) = Append(other, "lf")
        /\ LinesOf(hunks, {"equal", "remove"}) = SplitLines(typed)
        /\ \A kept \in SUBSET DOMAIN SplitLines(typed) :
             Embeds([i \in 1..Cardinality(kept) |-> SplitLines(typed)[SetToSortSeq(kept, <)[i]]],
                    SplitLines(other))
               => Cardinality(kept) <= Len(common)
        /\ \A theirs \in Samples :
             ToSet(LinesOf(hunks, {"add"})) \cup ToSet(LinesOf(Hunks(typed, theirs), {"add"}))
               \subseteq ToSet(SplitLines(Merged(typed, other, theirs).result))

-----------------------------------------------------------------------------
(* Values for TLC.                                                          *)

\* What joins into clusters: a letter, a combining mark, both line breaks, the joiner,
\* pictographs, flags and what stands before a letter.
MCClusters == {"other", "extend", "cr", "lf", "zwj", "extended_pictographic",
               "regional_indicator", "prepend"}

\* What words, rows and lines are made of.
MCLetters == {"a", "b", "space", "lf", "extend"}

MCAlphabets == {MCClusters, MCLetters}

MCLower == [c \in MCClusters \cup MCLetters \cup {"A"} |-> IF c = "A" THEN "a" ELSE c]

MCPatterns ==
  UNION {[1..n -> {"a", ".", "*", "$"}] : n \in 0..3}
    \cup {<<"\\", "a">>, <<"\\", "*", "a">>, <<"a", "\\", "$">>, <<"b", "\\">>, <<"a", "*", "b", "*", "a">>}

MCSamples ==
  {<<>>, <<"a">>, <<"A", "b">>, <<"lf">>, <<"a", "lf", "b">>, <<"a", "space">>, <<"a", "lf", "a", "lf">>}

=============================================================================
