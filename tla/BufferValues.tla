----------------------------- MODULE BufferValues -----------------------------
(***************************************************************************)
(* What textbuf::Buffer and textbuf::Snapshot promise: each of them is a   *)
(* value of its own.  An edit changes one buffer; a snapshot stays what    *)
(* the buffer was when it was taken.                                       *)
(***************************************************************************)
EXTENDS Naturals

CONSTANTS
  Buffers, Snapshots, None, Values, Places,
  Inserted(_, _, _), Erased(_, _, _), Replaced(_, _, _, _)  \* what an edit makes of a text

VARIABLES
  content,   \* content[b] is the text of buffer b
  version,   \* version[b] is its generation
  view       \* view[s] is what snapshot s shows, or None

vars == <<content, version, view>>

Init ==
  /\ content = [b \in Buffers |-> <<>>]
  /\ version = [b \in Buffers |-> 0]
  /\ view = [s \in Snapshots |-> None]

Become(b, t, v) ==
  /\ content' = [content EXCEPT ![b] = t]
  /\ version' = [version EXCEPT ![b] = v]
  /\ UNCHANGED view

Insert(b, p, value) == Become(b, Inserted(content[b], p, value), version[b] + 1)

Erase(b, p, q) == Become(b, Erased(content[b], p, q), version[b] + 1)

Replace(b, p, q, value) == Become(b, Replaced(content[b], p, q, value), version[b] + 2)

Load(b, t) == Become(b, t, 0)

Copy(b, c) == Become(b, content[c], version[c])

Take(b, s) ==
  /\ view' = [view EXCEPT ![s] = <<content[b], version[b]>>]
  /\ UNCHANGED <<content, version>>

Drop(s) == view' = [view EXCEPT ![s] = None] /\ UNCHANGED <<content, version>>

Next ==
  \/ \E b \in Buffers, p \in Places, t \in Values : Insert(b, p, t)
  \/ \E b \in Buffers, p, q \in Places : Erase(b, p, q)
  \/ \E b \in Buffers, p, q \in Places, t \in Values : Replace(b, p, q, t)
  \/ \E b \in Buffers, t \in Values : Load(b, t)
  \/ \E b, c \in Buffers : Copy(b, c)
  \/ \E b \in Buffers, s \in Snapshots : Take(b, s)
  \/ \E s \in Snapshots : Drop(s)

Spec == Init /\ [][Next]_vars

=============================================================================
