----------------------------- MODULE TerminalParts -----------------------------
(***************************************************************************)
(* The small states of a terminal, ttytk::Damage, Scrollback, TermMode and   *)
(* Tabstops: each is an object of its own.                                   *)
(***************************************************************************)
EXTENDS Integers, SequencesExt

CONSTANTS
  Rows, Columns,  \* size of the screen that is marked
  PrivateModes,   \* private modes
  Stops,          \* bound: columns where a tab stop may be set
  MaxPushes       \* bound: lines pushed

ASSUME PartsAssumption == Rows \in Nat /\ Columns \in Nat /\ Stops \subseteq Nat

VARIABLES
  dirty,            \* Damage: dirty_, in order
  marked,           \* history: the cells marked since they were cleared
  lines, limit,     \* Scrollback; a line is its number
  pushes,           \* history: lines pushed so far
  modes, savedModes, \* TermMode: current_ and saved_
  stops             \* Tabstops

damageVars == <<dirty, marked>>
lineVars == <<lines, limit, pushes>>
modeVars == <<modes, savedModes>>
partVars == <<damageVars, lineVars, modeVars, stops>>

PartsInit ==
  /\ dirty = <<>> /\ marked = {}
  /\ lines = <<>> /\ limit = 2 /\ pushes = 0
  /\ modes = {} /\ savedModes = {}
  /\ stops = Stops

-----------------------------------------------------------------------------

InOrder(d, e) == d.row < e.row \/ (d.row = e.row /\ d.first < e.first)

\* Mutant of Extended: regions that only touch at a cell both have are merged wrongly.
ExtendedToLast(out, d) ==
  LET last == out[Len(out)]
  IN  IF out # <<>> /\ last.row = d.row /\ d.first <= last.last + 1
      THEN Append(Front(out), [last EXCEPT !.last = d.last])
      ELSE Append(out, d)

\* One step of the loop in merge(): a region that overlaps or touches the last one
\* extends it.
Extended(out, d) ==
  LET last == out[Len(out)]
  IN  IF out # <<>> /\ last.row = d.row /\ d.first <= last.last + 1
      THEN Append(Front(out), [last EXCEPT !.last = IF last.last < d.last THEN d.last ELSE last.last])
      ELSE Append(out, d)

\* The orders std::sort() may leave the regions in: those with one beginning come as they
\* like, which the merge does not depend on.
Orders(regions) ==
  {p \in [DOMAIN regions -> DOMAIN regions] :
     /\ Range(p) = DOMAIN regions
     /\ \A i, j \in DOMAIN regions : i < j => ~ InOrder(regions[p[j]], regions[p[i]])}

\* The loop of merge()
Merged(regions) ==
  LET out[n \in 0..Len(regions)] == IF n = 0 THEN <<>> ELSE Extended(out[n - 1], regions[n])
  IN  out[Len(regions)]

\* mark(): the ends in either order.
Mark ==
  /\ \E r \in 0..Rows - 1, a, b \in 0..Columns - 1 :
       LET d == [row |-> r, first |-> IF b < a THEN b ELSE a, last |-> IF b < a THEN a ELSE b]
           all == Append(dirty, d)
       IN  /\ \E p \in Orders(all) : dirty' = Merged([i \in 1..Len(all) |-> all[p[i]]])
           /\ marked' = marked \cup ({r} \X (d.first..d.last))
  /\ UNCHANGED <<lineVars, modeVars, stops>>

\* mark_all(): one region of row 0, as long as the screen has cells.
MarkAll ==
  /\ dirty' = IF Rows = 0 \/ Columns = 0 THEN <<>>
              ELSE <<[row |-> 0, first |-> 0, last |-> Rows * Columns - 1]>>
  /\ marked' = {0} \X (0..Rows * Columns - 1)
  /\ UNCHANGED <<lineVars, modeVars, stops>>

ClearDamage ==
  /\ dirty' = <<>> /\ marked' = {}
  /\ UNCHANGED <<lineVars, modeVars, stops>>

\* push_line() and set_limit(): the oldest lines go.
Newest(all, n) == SubSeq(all, IF Len(all) > n THEN Len(all) - n + 1 ELSE 1, Len(all))

PushLine ==
  /\ pushes < MaxPushes /\ pushes' = pushes + 1
  /\ lines' = Newest(Append(lines, pushes), limit)
  /\ UNCHANGED <<damageVars, limit, modeVars, stops>>

SetLimit ==
  /\ \E n \in 0..3 : limit' = n /\ lines' = Newest(lines, n)
  /\ UNCHANGED <<damageVars, pushes, modeVars, stops>>

ChangeMode ==
  /\ \E m \in PrivateModes : modes' \in {modes \cup {m}, modes \ {m}}
  /\ UNCHANGED <<damageVars, lineVars, savedModes, stops>>

Save == savedModes' = modes /\ UNCHANGED <<damageVars, lineVars, modes, stops>>

Restore == modes' = savedModes /\ UNCHANGED <<damageVars, lineVars, savedModes, stops>>

ChangeStop ==
  /\ \/ \E c \in Stops : stops' \in {stops \cup {c}, stops \ {c}}
     \/ stops' = {}
  /\ UNCHANGED <<damageVars, lineVars, modeVars>>

NextStop(c) == LET after == {s \in stops : s > c} IN IF after = {} THEN c ELSE Min(after)
PrevStop(c) == LET before == {s \in stops : s < c} IN IF before = {} THEN c ELSE Max(before)

DamageNext == Mark \/ MarkAll \/ ClearDamage
OthersNext == PushLine \/ SetLimit \/ ChangeMode \/ Save \/ Restore \/ ChangeStop
PartsNext == DamageNext \/ OthersNext

PartsSpec == PartsInit /\ [][PartsNext]_partVars

-----------------------------------------------------------------------------

\* The regions are exactly the cells that were marked, each cell in one of them and no
\* two that touch left apart; the scrollback holds the newest lines without a gap, up to its limit; a tab
\* and a tab back from a stop lead to that stop.
PartsExact ==
  /\ marked = UNION {{dirty[i].row} \X (dirty[i].first..dirty[i].last) : i \in DOMAIN dirty}
  /\ \A i, j \in DOMAIN dirty :
       i < j /\ dirty[i].row = dirty[j].row => dirty[i].last + 1 < dirty[j].first
  /\ Len(lines) <= limit
  /\ \A i \in DOMAIN lines : lines[i] = pushes - Len(lines) + i - 1
  /\ \A c \in stops : NextStop(c) # c => PrevStop(NextStop(c)) = c

=============================================================================
