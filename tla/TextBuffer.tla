------------------------------ MODULE TextBuffer ------------------------------
(***************************************************************************)
(* ttyutils::textbuf::Buffer and Snapshot.  They share std::strings through *)
(* shared_ptr; a buffer copies the string before it writes if anyone else   *)
(* holds it.  A string is a cell of the heap; it is free when no handle      *)
(* holds it.                                                                *)
(***************************************************************************)
EXTENDS LineIndex

CONSTANTS
  Buffers, Snapshots,  \* the handles of the program
  None,                \* a snapshot that does not exist
  Cells,               \* bound: strings that exist at a time
  Values,              \* texts that are inserted and loaded
  Places,              \* positions given to the edits
  MaxVersion           \* bound: edits of a buffer since it was loaded

ASSUME TextAssumption ==
  /\ Values \subseteq Seq(Property) /\ Places \subseteq Position
  /\ Cells # {} /\ None \notin Cells /\ MaxVersion \in Nat

ASSUME HandlesAssumption == Buffers \cap Snapshots = {}

VARIABLES
  heap,      \* the string in each cell; empty in a free one
  text,      \* text_ of each buffer: a cell
  version,   \* generation_ of each buffer
  held,      \* text_ of each snapshot: a cell, or None
  stamp,     \* generation_ of each snapshot
  source     \* history: the buffer a snapshot was taken of, while that buffer
             \* has only been edited since; None afterwards

vars == <<heap, text, version, held, stamp, source>>

\* Every handle has a string of the heap.
HandlesOK ==
  /\ heap = [c \in Cells |-> heap[c]]
  /\ text \in [Buffers -> Cells]
  /\ version \in [Buffers -> Nat]
  /\ held \in [Snapshots -> Cells \cup {None}]
  /\ stamp \in [Snapshots -> Nat]
  /\ source \in [Snapshots -> Buffers \cup {None}]

TypeOK == HandlesOK /\ heap \in [Cells -> Seq(Property)]

\* One empty buffer, and the others copies of it.
Init ==
  /\ heap = [c \in Cells |-> <<>>]
  /\ \E c \in Cells : text = [b \in Buffers |-> c]
  /\ version = [b \in Buffers |-> 0]
  /\ held = [s \in Snapshots |-> None]
  /\ stamp = [s \in Snapshots |-> 0]
  /\ source = [s \in Snapshots |-> None]

Holders(c) == {b \in Buffers : text[b] = c} \cup {s \in Snapshots : held[s] = c}

Free == {c \in Cells : Holders(c) = {}}

\* Nobody but b holds its string: unique().
Unique(b) == Holders(text[b]) = {b}

\* The heap after handle h let go of cell c: its last holder destroys the string.
Released(c, h) == [d \in Cells |-> IF d = c /\ Holders(c) = {h} THEN <<>> ELSE heap[d]]

-----------------------------------------------------------------------------

\* Mutant of Write: no detach().
WriteShared(b, t, edits) ==
  /\ version[b] + edits <= MaxVersion
  /\ heap' = [heap EXCEPT ![text[b]] = t] /\ UNCHANGED text
  /\ version' = [version EXCEPT ![b] = @ + edits]
  /\ UNCHANGED <<held, stamp, source>>

\* Mutant of Write: generation_ is not advanced.
WriteUnversioned(b, t, edits) ==
  /\ version[b] + edits <= MaxVersion
  /\ \/ Unique(b) /\ heap' = [heap EXCEPT ![text[b]] = t] /\ UNCHANGED text
     \/ /\ ~ Unique(b)
        /\ \E c \in Free : heap' = [heap EXCEPT ![c] = t] /\ text' = [text EXCEPT ![b] = c]
  /\ UNCHANGED <<version, held, stamp, source>>

\* detach(), the edit and ++generation_: the string is changed where it is if
\* nobody else holds it, and in a copy otherwise.
Write(b, t, edits) ==
  /\ version[b] + edits <= MaxVersion
  /\ \/ Unique(b) /\ heap' = [heap EXCEPT ![text[b]] = t] /\ UNCHANGED text
     \/ /\ ~ Unique(b)
        /\ \E c \in Free : heap' = [heap EXCEPT ![c] = t] /\ text' = [text EXCEPT ![b] = c]
  /\ version' = [version EXCEPT ![b] = @ + edits]
  /\ UNCHANGED <<held, stamp, source>>

Text(b) == heap[text[b]]

Insert(b) ==
  \E p \in Places, v \in Values : Write(b, Inserted(Text(b), p, v), 1)

Erase(b) ==
  \E p, q \in Places : Write(b, Erased(Text(b), p, q), 1)

\* replace() is erase() and then insert().
Replace(b) ==
  \E p, q \in Places, v \in Values : Write(b, Replaced(Text(b), p, q, v), 2)

\* The history of b ends: its snapshots are no longer of this text.
Disown(b) == source' = [s \in Snapshots |-> IF source[s] = b THEN None ELSE source[s]]

\* A buffer is constructed from a text, as load_file() does, and moved into b.
Load(b) ==
  /\ \E c \in Free, v \in Values :
       /\ heap' = [Released(text[b], b) EXCEPT ![c] = v]
       /\ text' = [text EXCEPT ![b] = c]
  /\ version' = [version EXCEPT ![b] = 0]
  /\ Disown(b)
  /\ UNCHANGED <<held, stamp>>

\* The implicit copy assignment, which shares the string.
Copy(b, c) ==
  /\ b # c
  /\ heap' = Released(text[b], b)
  /\ text' = [text EXCEPT ![b] = text[c]]
  /\ version' = [version EXCEPT ![b] = version[c]]
  /\ Disown(b)
  /\ UNCHANGED <<held, stamp>>

Take(b, s) ==
  /\ heap' = Released(held[s], s)
  /\ held' = [held EXCEPT ![s] = text[b]]
  /\ stamp' = [stamp EXCEPT ![s] = version[b]]
  /\ source' = [source EXCEPT ![s] = b]
  /\ UNCHANGED <<text, version>>

Drop(s) ==
  /\ heap' = Released(held[s], s)
  /\ held' = [held EXCEPT ![s] = None]
  /\ source' = [source EXCEPT ![s] = None]
  /\ stamp' = [stamp EXCEPT ![s] = 0]
  /\ UNCHANGED <<text, version>>

Next ==
  \/ \E b \in Buffers : Insert(b) \/ Erase(b) \/ Replace(b) \/ Load(b)
  \/ \E b, c \in Buffers : Copy(b, c)
  \/ \E b \in Buffers, s \in Snapshots : Take(b, s)
  \/ \E s \in Snapshots : Drop(s)

Spec == Init /\ [][Next]_vars

-----------------------------------------------------------------------------

\* A generation names a text as long as the buffer is only edited: a snapshot whose
\* generation is still the buffer's shows the buffer's text.  The caches of the
\* highlighter rely on it.
GenerationNamesText ==
  \A s \in Snapshots :
    source[s] # None /\ held[s] # None /\ stamp[s] = version[source[s]] =>
      heap[held[s]] = Text(source[s])

Content == [b \in Buffers |-> Text(b)]

View == [s \in Snapshots |-> IF held[s] = None THEN None ELSE <<heap[held[s]], stamp[s]>>]

Value == INSTANCE BufferValues WITH content <- Content, view <- View

\* Sharing is invisible: every buffer and snapshot behaves as a value of its own, so
\* no edit is ever seen through a snapshot or through another buffer.
ValueSemantics == Value!Spec

=============================================================================
