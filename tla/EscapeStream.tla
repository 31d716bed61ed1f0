----------------------------- MODULE EscapeStream -----------------------------
(***************************************************************************)
(* What ttytk::Automaton promises: a transducer from bytes to events that  *)
(* looks at one byte at a time and emits what it means at once.  It knows  *)
(* nothing of chunks, runs of text or callbacks.                           *)
(***************************************************************************)
EXTENDS Naturals, Sequences

CONSTANT Bytes

VARIABLES
  mode,      \* what the bytes so far are the beginning of
  body,      \* what has been collected of an unfinished sequence
  emitted,   \* the events so far
  fed,       \* the bytes so far
  resets     \* how often the owner dropped what was unfinished

vars == <<mode, body, emitted, fed, resets>>

Event(k, d) == <<[kind |-> k, data |-> d]>>

Modes == {"ground", "escape", "csi", "osc", "dcs", "osc_escape", "dcs_escape"}

Init == mode = "ground" /\ body = <<>> /\ emitted = <<>> /\ fed = <<>> /\ resets = 0

-----------------------------------------------------------------------------

Opens(b) ==
  CASE b = 155 -> {"csi"} [] b = 157 -> {"osc"} [] b = 144 -> {"dcs"} [] OTHER -> {}

OpensAfterEscape(b) ==
  CASE b = 91 -> {"csi"} [] b = 93 -> {"osc"} [] b = 80 -> {"dcs"} [] OTHER -> {}

InString == mode \in {"osc", "dcs"}
Control(b) == b < 32
HighControl(b) == 128 <= b /\ b <= 159

\* Bytes with the same meaning wherever they come: ESC outside a string, CAN, SUB
\* and the eight-bit introducers.
Everywhere(b) == b \in {24, 27, 26} \cup {144, 155, 157}

Restart(b) ==
  \/ b = 27 /\ ~ InString /\ mode' = "escape" /\ body' = <<>> /\ UNCHANGED emitted
  \/ b \in {24, 26} /\ mode' = "ground" /\ body' = <<>> /\ UNCHANGED emitted
  \/ mode' \in Opens(b) /\ body' = <<>> /\ UNCHANGED emitted

\* Emitted and forgotten: the byte is an event of its own and changes nothing else.
Pass(k, b) == emitted' = emitted \o Event(k, <<b>>) /\ UNCHANGED <<mode, body>>

Finish(k, d) == emitted' = emitted \o Event(k, d) /\ mode' = "ground" /\ body' = <<>>

Grow(m, bs) == mode' = m /\ body' = body \o bs /\ UNCHANGED emitted

InGround(b) ==
  /\ mode = "ground" /\ ~ Everywhere(b)
  /\ \/ Control(b) /\ Pass("control", b)
     \/ b = 127 /\ UNCHANGED <<mode, body, emitted>>
     \/ ~ Control(b) /\ b # 127 /\ Pass("print", b)

\* The other eight-bit controls are executed inside a sequence, except ST.
HighInSequence(b) ==
  /\ mode # "ground" /\ HighControl(b) /\ ~ Everywhere(b)
  /\ IF b = 156 THEN UNCHANGED <<mode, body, emitted>> ELSE Pass("control", b)

Low(b) == ~ Everywhere(b) /\ ~ HighControl(b)

AfterEscape(b) ==
  /\ mode = "escape" /\ Low(b)
  /\ \/ Control(b) /\ Pass("control", b)
     \/ mode' \in OpensAfterEscape(b) /\ body' = <<>> /\ UNCHANGED emitted
     \/ ~ Control(b) /\ OpensAfterEscape(b) = {} /\ mode' = "ground" /\ UNCHANGED <<body, emitted>>

InCsi(b) ==
  /\ mode = "csi" /\ Low(b)
  /\ \/ Control(b) /\ Pass("control", b)
     \/ b \in 32..63 /\ Grow("csi", <<b>>)
     \/ b \in 64..126 /\ Finish("csi", Append(body, b))
     \/ b > 126 /\ UNCHANGED <<mode, body, emitted>>

InOscOrDcs(b) ==
  /\ InString
  /\ \/ b = 27 /\ mode' = (IF mode = "osc" THEN "osc_escape" ELSE "dcs_escape")
               /\ UNCHANGED <<body, emitted>>
     \/ Low(b) /\ b = 7 /\ mode = "osc" /\ Finish("osc", body)
     \/ Low(b) /\ Control(b) /\ (b = 7 => mode = "dcs") /\ UNCHANGED <<mode, body, emitted>>
     \/ Low(b) /\ ~ Control(b) /\ Grow(mode, <<b>>)

AfterStringEscape(b) ==
  \E k \in {"osc", "dcs"} :
    /\ mode = (IF k = "osc" THEN "osc_escape" ELSE "dcs_escape") /\ Low(b)
    /\ \/ b = 92 /\ Finish(k, body)
       \/ b # 92 /\ Grow(k, <<27, b>>)

Meaning(b) ==
  \/ Restart(b) \/ HighInSequence(b)
  \/ InGround(b) \/ AfterEscape(b) \/ InCsi(b) \/ InOscOrDcs(b) \/ AfterStringEscape(b)

Consume(b) == fed' = Append(fed, b) /\ UNCHANGED resets /\ Meaning(b)

\* The owner may drop whatever is unfinished.
Forget ==
  /\ resets' = resets + 1
  /\ mode' = "ground" /\ body' = <<>> /\ UNCHANGED <<emitted, fed>>

Next == Forget \/ \E b \in Bytes : Consume(b)

Spec == Init /\ [][Next]_vars

=============================================================================
