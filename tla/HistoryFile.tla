------------------------------- MODULE HistoryFile -------------------------------
(***************************************************************************)
(* ttyutils::hist::History in several processes (shells) with one file.  An   *)
(* entry is written through a stream: in one piece if it fits the stream's     *)
(* buffer, else in two; a text with a line break is read back as two lines.    *)
(***************************************************************************)
EXTENDS Naturals, Sequences, Functions

CONSTANTS
  Shells,       \* the processes
  Texts, Long, Broken,   \* texts; those that need two pieces; those with a line break
  MaxAppends    \* bound: entries appended

VARIABLES
  merge,     \* merge_, one policy for all: "all", "adjacent" or "none"
  file,      \* the pieces in the file: [text, number, last]; a line ends after a last one
  writing,   \* per process: the pieces still to be written
  entries,   \* per process: entries_, as texts
  since,     \* history: whether another process wrote, or this one began, after it last loaded
  appends,   \* entries appended so far
  odd        \* history: a write failed, or an entry was not one piece and one line

vars == <<merge, file, writing, entries, since, appends, odd>>

Policies == {"all", "adjacent", "none"}

Init ==
  /\ merge \in Policies
  /\ file = <<>> /\ writing = [s \in Shells |-> <<>>]
  /\ entries = [s \in Shells |-> <<>>] /\ since = [s \in Shells |-> FALSE]
  /\ appends = 0 /\ odd = FALSE

-----------------------------------------------------------------------------

\* Mutant of Duplicate: the whole of what came before is looked at under every policy.
DuplicateAnywhere(kept, text) == merge # "none" /\ text \in Range(kept)

Duplicate(kept, text) ==
  \/ merge = "adjacent" /\ kept # <<>> /\ kept[Len(kept)] = text
  \/ merge = "all" /\ text \in Range(kept)

\* dedup()
Dedup(texts) ==
  LET kept[n \in 0..Len(texts)] ==
        IF n = 0 THEN <<>>
        ELSE IF Duplicate(kept[n - 1], texts[n]) THEN kept[n - 1]
        ELSE Append(kept[n - 1], texts[n])
  IN  kept[Len(texts)]

Pieces(text) ==
  IF text \in Long THEN <<[text |-> text, number |-> 1, last |-> FALSE], [text |-> text, number |-> 2, last |-> TRUE]>>
  ELSE <<[text |-> text, number |-> 1, last |-> TRUE]>>

\* getline(): what each line reads back as; a line made of pieces of several entries, or
\* of a part of one, is no entry's text.
Taken(state, piece) ==
  LET line == Append(state.line, piece)
      whole == \A i \in DOMAIN line : line[i].text = line[1].text /\ line[i].number = i
      text == IF whole THEN piece.text ELSE "torn"
  IN  IF piece.last
      THEN [line |-> <<>>, texts |-> state.texts \o (IF text \in Broken THEN <<"first line", "second line">> ELSE <<text>>)]
      ELSE [line |-> line, texts |-> state.texts]

Read(pieces) ==
  LET after[n \in 0..Len(pieces)] ==
        IF n = 0 THEN [line |-> <<>>, texts |-> <<>>] ELSE Taken(after[n - 1], pieces[n])
      end == after[Len(pieces)]
  IN  end.texts \o (IF end.line = <<>> THEN <<>> ELSE <<"torn">>)

\* load()
Load ==
  /\ \E s \in Shells :
       /\ writing[s] = <<>>
       /\ entries' = [entries EXCEPT ![s] = Dedup(Read(file))]
       /\ since' = [since EXCEPT ![s] = FALSE]
  /\ UNCHANGED <<merge, file, writing, appends, odd>>

\* append(): an empty text, or one after a space, is not kept.  The stream is only written
\* when its buffer is full and when it is closed, so a write that fails is not noticed.
BeginAppend ==
  /\ \E s \in Shells, text \in Texts :
       /\ writing[s] = <<>> /\ appends < MaxAppends
       /\ \/ writing' = [writing EXCEPT ![s] = Pieces(text)] /\ odd' = (odd \/ text \in Long \cup Broken)
          \/ UNCHANGED writing /\ odd' = TRUE
       /\ entries' = [entries EXCEPT ![s] = Dedup(Append(@, text))]
  /\ appends' = appends + 1
  /\ UNCHANGED <<merge, file, since>>

\* One write at the end of the file, wherever that is by now.
WritePiece ==
  /\ \E s \in Shells :
       /\ writing[s] # <<>>
       /\ file' = Append(file, Head(writing[s]))
       /\ writing' = [writing EXCEPT ![s] = Tail(@)]
       /\ since' = [t \in Shells |-> since[t] \/ t # s]
  /\ UNCHANGED <<merge, entries, appends, odd>>

\* A process ends, in the middle of a write too, and another begins with nothing loaded.
Restart ==
  /\ \E s \in Shells :
       /\ writing' = [writing EXCEPT ![s] = <<>>]
       /\ entries' = [entries EXCEPT ![s] = <<>>]
       /\ since' = [since EXCEPT ![s] = TRUE]
  /\ UNCHANGED <<merge, file, appends, odd>>

Next == Load \/ BeginAppend \/ WritePiece \/ Restart

Spec == Init /\ [][Next]_vars

-----------------------------------------------------------------------------

\* The texts a policy keeps, said of all of them at once: under "adjacent" the first of
\* each run, under "all" the first of its kind.
Distinct(texts) ==
  LET stays(i) == \A j \in 1..i - 1 :
        texts[j] = texts[i] => merge = "none" \/ (merge = "adjacent" /\ j < i - 1)
      kept[n \in 0..Len(texts)] ==
        IF n = 0 THEN <<>> ELSE IF stays(n) THEN Append(kept[n - 1], texts[n]) ELSE kept[n - 1]
  IN  kept[Len(texts)]

\* Entries of one piece and one line are never torn, whoever else writes; and what a
\* process has in memory, merged entry by entry, is what its file holds, merged at once,
\* until another process writes, or a process that has loaded nothing begins.
HistoryKept ==
  ~ odd =>
    /\ "torn" \notin Range(Read(file))
    /\ \A s \in Shells :
         ~ since[s] => entries[s] = Distinct(Read(file \o writing[s]))

================================================================================
