------------------------------- MODULE Grapheme -------------------------------
(***************************************************************************)
(* ttytk::grapheme: where a text may be cut between two user-perceived     *)
(* characters.  A text is a sequence of code points, each standing for its *)
(* break property; an offset is the number of code points before it.       *)
(***************************************************************************)
EXTENDS Naturals, Sequences, FiniteSets, FiniteSetsExt

Property == {"other", "cr", "lf", "control", "extend", "zwj", "regional_indicator",
             "prepend", "spacing_mark", "l", "v", "t", "lv", "lvt",
             "extended_pictographic"}

\* The code point after offset o.
At(text, o) == text[o + 1]

Breaker == {"cr", "lf", "control"}

Hangul(previous, current) ==
  \/ previous = "l" /\ current \in {"l", "v", "lv", "lvt"}
  \/ previous \in {"lv", "v"} /\ current \in {"v", "t"}
  \/ previous \in {"lvt", "t"} /\ current = "t"

\* no_break(): the rules GB3 to GB13 of UAX #29 in their order.
NoBreak(previous, current, zwjAfterPictographic, regionals) ==
  \/ previous = "cr" /\ current = "lf"
  \/ /\ previous \notin Breaker /\ current \notin Breaker
     /\ \/ Hangul(previous, current)
        \/ current \in {"extend", "zwj", "spacing_mark"}
        \/ previous = "prepend"
        \/ zwjAfterPictographic /\ current = "extended_pictographic"
        \/ previous = "regional_indicator" /\ current = "regional_indicator" /\ regionals % 2 = 1

\* Mutant of Regionals: the first code point of the cluster is not counted.
RegionalsFromSecond(text, s, o) ==
  Cardinality({i \in s + 1..o - 1 :
    /\ At(text, i) = "regional_indicator"
    /\ \A j \in i..o - 1 : At(text, j) \in {"regional_indicator", "extend"}})

\* regional_count at o for a cluster that began at s: the regional indicators
\* since the last code point that is neither one of them nor an extender.
Regionals(text, s, o) ==
  Cardinality({i \in s..o - 1 :
    /\ At(text, i) = "regional_indicator"
    /\ \A j \in i..o - 1 : At(text, j) \in {"regional_indicator", "extend"}})

\* previous_zwj_after_pictographic at o: a ZWJ that ends a run of extenders and
\* ZWJs after a pictograph of this cluster.
ZwjAfterPictographic(text, s, o) ==
  /\ o - 1 > s /\ At(text, o - 1) = "zwj"
  /\ \E i \in s..o - 2 :
       /\ At(text, i) = "extended_pictographic"
       /\ \A j \in i + 1..o - 2 : At(text, j) \in {"extend", "zwj"}

Joined(text, s, o) ==
  NoBreak(At(text, o - 1), At(text, o), ZwjAfterPictographic(text, s, o), Regionals(text, s, o))

\* next_break(): the end of the cluster that begins at s.
NextBreak(text, s) ==
  IF s >= Len(text) THEN Len(text)
  ELSE Min({o \in s + 1..Len(text) : o = Len(text) \/ ~ Joined(text, s, o)})

\* How many clusters lie between s and o.
Clusters(text, s, o) ==
  LET from[i \in s..Len(text)] == IF i >= o THEN 0 ELSE 1 + from[NextBreak(text, i)]
  IN  from[s]

\* count()
Count(text) == Clusters(text, 0, Len(text))

\* The offsets segment() cuts a text at.
Breaks(text) ==
  LET from[i \in 0..Len(text)] ==
        IF i = Len(text) THEN {i} ELSE {i} \cup from[NextBreak(text, i)]
  IN  from[0]

=============================================================================
