------------------------------ MODULE TextSearch ------------------------------
(***************************************************************************)
(* ttyutils::search over a text, and the keyword spans of ttyutils::hl.     *)
(* An optional offset is a set of at most one.                              *)
(***************************************************************************)
EXTENDS TextCursor

CONSTANT Lower  \* tolower() on the letters that occur

Literal == "literal"
Regex == "regex"
Fuzzy == "fuzzy"

Query(kind, pattern, caseSensitive) ==
  [kind |-> kind, text |-> pattern, case |-> caseSensitive]

\* equal()
Equal(left, right, case) == left = right \/ (~ case /\ Lower[left] = Lower[right])

LiteralAt(text, o, q) ==
  LET end == o + Len(q.text)
  IN  IF end <= Len(text) /\ \A i \in 1..Len(q.text) : Equal(text[o + i], q.text[i], q.case)
      THEN {end} ELSE {}

\* Whether the atom at offset a of the pattern accepts the letter after o.
AtomMatches(p, a, text, o, case) ==
  o < Len(text) /\ (At(p, a) = "." \/ Equal(At(p, a), At(text, o), case))

\* The offset of the atom of the pattern's item at i: after a '\' that is not the last.
Atom(p, i) == IF At(p, i) = "\\" /\ i + 1 < Len(p) THEN i + 1 ELSE i

Starred(p, a) == a + 1 < Len(p) /\ At(p, a + 1) = "*"

\* regex_at(): a starred atom first takes nothing, and one letter more each time the
\* rest of the pattern fails.
RECURSIVE RegexAt(_, _, _, _, _)
RegexAt(p, text, i, o, case) ==
  IF i = Len(p) THEN {o}
  ELSE IF At(p, i) = "$" /\ i + 1 = Len(p) THEN {o} \cap {Len(text)}
  ELSE LET a == Atom(p, i)
           rests == {e \in o..Len(text) :
                      /\ \A c \in o..e - 1 : AtomMatches(p, a, text, c, case)
                      /\ RegexAt(p, text, a + 2, e, case) # {}}
       IN  IF Starred(p, a)
           THEN IF rests = {} THEN {} ELSE RegexAt(p, text, a + 2, Min(rests), case)
           ELSE IF AtomMatches(p, a, text, o, case) THEN RegexAt(p, text, a + 1, o + 1, case)
           ELSE {}

\* fuzzy_at(), without the score: each letter of the query in turn, wherever it comes.
FuzzyAt(text, o, q) ==
  LET next(at, c) == {e \in at + 1..Len(text) : Equal(c, text[e], q.case)}
  IN  FoldLeft(LAMBDA at, c : UNION {IF next(s, c) = {} THEN {} ELSE {Min(next(s, c))} : s \in at},
               {o}, q.text)

Anchored(q) == q.kind = Regex /\ q.text # <<>> /\ Head(q.text) = "^"

MatchAt(text, o, q) ==
  CASE q.kind = Literal -> LiteralAt(text, o, q)
    [] q.kind = Regex -> RegexAt(IF Anchored(q) THEN Tail(q.text) ELSE q.text, text, 0, o, q.case)
    [] OTHER -> FuzzyAt(text, o, q)

\* find_all(): the bytes of each match, from left to right.
FindAll(text, q) ==
  LET from[o \in 0..Len(text)] ==
        IF o = Len(text) THEN <<>>
        ELSE LET end == MatchAt(text, o, q)
                 after == IF end = {} \/ Max(end) = o THEN NextBreak(text, o) ELSE Max(end)
             IN  (IF end = {} THEN <<>> ELSE <<[begin |-> o, end |-> Max(end)]>>)
                 \o (IF Anchored(q) THEN <<>> ELSE from[after])
  IN  IF q.text = <<>> THEN <<>> ELSE from[0]

\* Mutant of ReplacedEach: from the first match to the last.
ReplacedEachForward(text, q, value, confirmed) ==
  LET matches == FindAll(text, q)
      replace(t, i) == Replaced(t, PositionOf(matches[i].begin, text), PositionOf(matches[i].end, text), value)
  IN  FoldLeft(replace, text, SetToSortSeq(confirmed, <))

\* Replacer::confirm_each(): the matches of the text it began with, as positions, from
\* the last to the first.
ReplacedEach(text, q, value, confirmed) ==
  LET matches == FindAll(text, q)
      replace(t, i) == Replaced(t, PositionOf(matches[i].begin, text), PositionOf(matches[i].end, text), value)
  IN  FoldLeft(replace, text, SetToSortSeq(confirmed, >))

-----------------------------------------------------------------------------
(* Highlighter::line_spans()                                                *)

\* find(): where a keyword comes first at or after offset o.
Found(line, keyword, o) ==
  {e \in o..Len(line) - Len(keyword) : SubSeq(line, e + 1, e + Len(keyword)) = keyword}

\* Mutant of Spans: only the left end is looked at.
SpansLeft(line, keyword) ==
  LET from[o \in 0..Len(line)] ==
        IF Found(line, keyword, o) = {} THEN {}
        ELSE LET b == Min(Found(line, keyword, o))
                 e == b + Len(keyword)
             IN  (IF b = 0 \/ ~ IsWord(line, b - 1) THEN {<<b, e>>} ELSE {}) \cup from[e]
  IN  from[0]

Spans(line, keyword) ==
  LET from[o \in 0..Len(line)] ==
        IF Found(line, keyword, o) = {} THEN {}
        ELSE LET b == Min(Found(line, keyword, o))
                 e == b + Len(keyword)
             IN  (IF /\ b = 0 \/ ~ IsWord(line, b - 1)
                     /\ e = Len(line) \/ ~ IsWord(line, e)
                  THEN {<<b, e>>} ELSE {}) \cup from[e]
  IN  from[0]

=============================================================================
