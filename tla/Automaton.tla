------------------------------ MODULE Automaton ------------------------------
(***************************************************************************)
(* ttytk::Automaton, the VT500-style parser every byte of terminal output  *)
(* goes through: printable text is buffered and handed on in runs, control *)
(* sequences are collected and dispatched, and feed() may be called with   *)
(* any split of the stream.  One action consumes one byte.                 *)
(*                                                                         *)
(* out is the log of the callbacks.  How printable bytes are grouped into  *)
(* on_print calls depends on the chunks by design, so out records each     *)
(* byte of a run as an event of its own.                                   *)
(***************************************************************************)
EXTENDS Naturals, Sequences, FiniteSets

CONSTANTS
  Bytes,      \* the bytes that occur in the stream
  MaxBytes,   \* bound: bytes fed in a behaviour
  MaxResets   \* bound: calls of reset()

Byte == 0..255

ASSUME BytesAssumption == Bytes \subseteq Byte /\ MaxBytes \in Nat /\ MaxResets \in Nat

BEL == 7
CAN == 24
SUB == 26
ESC == 27
LeftBracket == 91    \* '['
Backslash == 92
RightBracket == 93   \* ']'
LetterP == 80        \* 'P'
DCS8 == 144
CSI8 == 155
ST8 == 156
OSC8 == 157

C0(b) == b < 32
C1(b) == 128 <= b /\ b <= 159
Parameter(b) == 32 <= b /\ b <= 63
Final(b) == 64 <= b /\ b <= 126
Cancel(b) == b = CAN \/ b = SUB

VARIABLES
  state,      \* state_
  sequence,   \* sequence_
  printable,  \* printable_
  stringEsc,  \* string_esc_: the ESC seen in a string belongs to an OSC
  feeding,    \* inside feed()
  out,        \* history: the callbacks made, printable runs byte by byte
  fed,        \* history: every byte consumed
  opened,     \* history: Len(fed) when the sequence being collected was introduced
  resets      \* history: calls of reset()

parserVars == <<state, sequence, printable, stringEsc, feeding, out, fed, opened, resets>>

States == {"ground", "escape", "csi", "osc", "dcs", "string_escape"}

Event == [kind : {"print", "csi", "osc", "dcs", "control"}, data : Seq(Byte)]

ParserTypes ==
  /\ state \in States
  /\ sequence \in Seq(Byte) /\ printable \in Seq(Byte)
  /\ stringEsc \in BOOLEAN /\ feeding \in BOOLEAN
  /\ out \in Seq(Event)
  /\ fed \in Seq(Byte) /\ opened \in Nat /\ resets \in Nat

ParserInit ==
  /\ state = "ground" /\ sequence = <<>> /\ printable = <<>> /\ stringEsc = FALSE
  /\ feeding = FALSE
  /\ out = <<>> /\ fed = <<>> /\ opened = 0 /\ resets = 0

-----------------------------------------------------------------------------

Emit(k, d) == <<[kind |-> k, data |-> d]>>

Prints(s) == [i \in 1..Len(s) |-> [kind |-> "print", data |-> <<s[i]>>]]

\* flush_printable(), then the callbacks in events.
FlushThen(events) ==
  /\ out' = out \o Prints(printable) \o events
  /\ printable' = <<>>

\* A handler is called, or none, and no text is flushed.
Dispatch(events) ==
  /\ out' = out \o events
  /\ UNCHANGED printable

Quiet == UNCHANGED <<out, printable>>

\* Mutant of Introduce: what was collected before is kept.
IntroduceKeeping(s) == state' = s /\ opened' = Len(fed) + 1 /\ UNCHANGED sequence

\* A control sequence begins: what was collected before is dropped.
Introduce(s) == state' = s /\ sequence' = <<>> /\ opened' = Len(fed) + 1

\* sequence_ and state_ do not change.
Stay == UNCHANGED <<state, sequence, opened>>

\* Mutant of ToGround: the sequence is not cleared.
ToGroundKeeping == state' = "ground" /\ UNCHANGED <<sequence, opened>>

ToGround == state' = "ground" /\ sequence' = <<>> /\ UNCHANGED opened

Collect(s, bs) == state' = s /\ sequence' = sequence \o bs /\ UNCHANGED opened

-----------------------------------------------------------------------------
(* feed_byte(), the tests that come before the switch on state_.            *)

\* Inside a string ESC may begin the ESC \ that ends it.
EscInString(b) ==
  /\ b = ESC /\ state \in {"osc", "dcs"}
  /\ state' = "string_escape" /\ stringEsc' = (state = "osc")
  /\ Quiet /\ UNCHANGED <<sequence, opened>>

\* Mutant of EscElsewhere: enter_escape() does not flush.
EscWithoutFlush(b) ==
  /\ b = ESC /\ state \notin {"osc", "dcs"}
  /\ Introduce("escape") /\ Quiet
  /\ UNCHANGED stringEsc

EscElsewhere(b) ==
  /\ b = ESC /\ state \notin {"osc", "dcs"}
  /\ Introduce("escape") /\ FlushThen(<<>>)
  /\ UNCHANGED stringEsc

CancelByte(b) ==
  /\ Cancel(b)
  /\ ToGround /\ FlushThen(<<>>)
  /\ UNCHANGED stringEsc

Introducer(b) ==
  CASE b = CSI8 -> "csi" [] b = OSC8 -> "osc" [] b = DCS8 -> "dcs" [] OTHER -> "none"

C1Byte(b) ==
  /\ C1(b) /\ state # "ground"
  /\ IF Introducer(b) # "none"
       THEN Introduce(Introducer(b)) /\ Quiet
       ELSE /\ Stay
            /\ IF b = ST8 THEN Quiet ELSE Dispatch(Emit("control", <<b>>))
  /\ UNCHANGED stringEsc

\* A byte the tests above do not take goes to the switch.
Plain(b) == b # ESC /\ ~ Cancel(b) /\ ~ (C1(b) /\ state # "ground")

-----------------------------------------------------------------------------
(* feed_byte(), the switch on state_.                                        *)

Ground(b) ==
  /\ Plain(b) /\ state = "ground"
  /\ \/ /\ C0(b) \/ b = 127
        /\ FlushThen(IF C0(b) THEN Emit("control", <<b>>) ELSE <<>>)
        /\ Stay
     \/ /\ Introducer(b) # "none"
        /\ FlushThen(<<>>) /\ Introduce(Introducer(b))
     \/ /\ ~ C0(b) /\ b # 127 /\ Introducer(b) = "none"
        /\ printable' = Append(printable, b)
        /\ Stay /\ UNCHANGED out
  /\ UNCHANGED stringEsc

EscapeIntroducer(b) ==
  CASE b = LeftBracket -> "csi" [] b = RightBracket -> "osc" [] b = LetterP -> "dcs"
    [] OTHER -> "none"

Escape(b) ==
  /\ Plain(b) /\ state = "escape"
  /\ \/ C0(b) /\ Dispatch(Emit("control", <<b>>)) /\ Stay
     \/ EscapeIntroducer(b) # "none" /\ Introduce(EscapeIntroducer(b)) /\ Quiet
     \/ /\ ~ C0(b) /\ EscapeIntroducer(b) = "none"
        /\ state' = "ground" /\ Quiet /\ UNCHANGED <<sequence, opened>>
  /\ UNCHANGED stringEsc

\* Mutant of Csi: C0 controls are collected instead of executed.
CsiCollectingControls(b) ==
  /\ Plain(b) /\ state = "csi"
  /\ \/ Final(b) /\ Dispatch(Emit("csi", Append(sequence, b))) /\ ToGround
     \/ (Parameter(b) \/ C0(b)) /\ Collect("csi", <<b>>) /\ Quiet
     \/ b > 126 /\ Quiet /\ Stay
  /\ UNCHANGED stringEsc

Csi(b) ==
  /\ Plain(b) /\ state = "csi"
  /\ \/ Final(b) /\ Dispatch(Emit("csi", Append(sequence, b))) /\ ToGround
     \/ Parameter(b) /\ Collect("csi", <<b>>) /\ Quiet
     \/ C0(b) /\ Dispatch(Emit("control", <<b>>)) /\ Stay
     \/ b > 126 /\ Quiet /\ Stay
  /\ UNCHANGED stringEsc

\* ST8 does not get as far as the switch (C1Byte takes it), so BEL is the only
\* single byte that ends an OSC, and none ends a DCS.
String(b) ==
  /\ Plain(b) /\ state \in {"osc", "dcs"}
  /\ \/ b = BEL /\ state = "osc" /\ Dispatch(Emit("osc", sequence)) /\ ToGround
     \/ C0(b) /\ (b = BEL => state = "dcs") /\ Quiet /\ Stay
     \/ ~ C0(b) /\ Collect(state, <<b>>) /\ Quiet
  /\ UNCHANGED stringEsc

StringEscape(b) ==
  /\ Plain(b) /\ state = "string_escape"
  /\ LET kind == IF stringEsc THEN "osc" ELSE "dcs"
     IN  \/ b = Backslash /\ Dispatch(Emit(kind, sequence)) /\ ToGround
         \/ b # Backslash /\ Collect(kind, <<ESC, b>>) /\ Quiet
  /\ UNCHANGED stringEsc

-----------------------------------------------------------------------------

FeedByte(b) ==
  /\ feeding /\ Len(fed) < MaxBytes
  /\ fed' = Append(fed, b)
  /\ \/ EscInString(b) \/ EscElsewhere(b) \/ CancelByte(b) \/ C1Byte(b)
     \/ Ground(b) \/ Escape(b) \/ Csi(b) \/ String(b) \/ StringEscape(b)
  /\ UNCHANGED <<feeding, resets>>

\* feed() is called, with any number of bytes.
BeginFeed ==
  /\ ~ feeding
  /\ feeding' = TRUE
  /\ UNCHANGED <<state, sequence, printable, stringEsc, out, fed, opened, resets>>

\* Mutant of EndFeed: an unfinished sequence does not survive the chunk.
EndFeedDropping ==
  /\ feeding
  /\ feeding' = FALSE
  /\ FlushThen(<<>>) /\ ToGround
  /\ UNCHANGED <<stringEsc, fed, resets>>

\* The chunk is used up: feed() flushes and returns.
EndFeed ==
  /\ feeding
  /\ feeding' = FALSE
  /\ FlushThen(<<>>)
  /\ UNCHANGED <<state, sequence, stringEsc, fed, opened, resets>>

\* reset() between two chunks.
Reset ==
  /\ ~ feeding /\ resets < MaxResets
  /\ resets' = resets + 1
  /\ state' = "ground" /\ sequence' = <<>> /\ printable' = <<>> /\ stringEsc' = FALSE
  /\ UNCHANGED <<feeding, out, fed, opened>>

ParserNext == BeginFeed \/ EndFeed \/ Reset \/ \E b \in Bytes : FeedByte(b)

ParserSpec == ParserInit /\ [][ParserNext]_parserVars

-----------------------------------------------------------------------------

\* Nothing collected outlives its sequence: in the ground and escape states
\* sequence_ is empty, so no callback sees bytes of an earlier, abandoned one.
FreshSequence == state \in {"ground", "escape"} => sequence = <<>>

\* Text is only ever held back in the ground state inside feed(): when a sequence
\* begins, everything printed before it has been handed over, and when feed()
\* returns the caller has seen all of the text it passed.
NothingHeldBack == printable # <<>> => state = "ground" /\ feeding

\* Where the parameter and intermediate bytes are among those from first to last.
ParametersIn(bytes, first, last) == {j \in first..last : Parameter(bytes[j])}

\* A CSI in progress has collected exactly the parameter and intermediate bytes
\* that came after its introducer, each at its rank, whatever controls were executed in
\* between and however the stream was cut.
CsiPayload ==
  state = "csi" =>
    /\ Len(sequence) = Cardinality(ParametersIn(fed, opened + 1, Len(fed)))
    /\ \A j \in ParametersIn(fed, opened + 1, Len(fed)) :
         sequence[Cardinality(ParametersIn(fed, opened + 1, j))] = fed[j]

\* Every CSI handed to on_csi is parameters and intermediates, then one final byte.
CsiWellFormed ==
  \A i \in 1..Len(out) :
    out[i].kind = "csi" =>
      LET d == out[i].data
      IN  Len(d) > 0 /\ Final(d[Len(d)]) /\ \A j \in 1..(Len(d) - 1) : Parameter(d[j])

\* A CSI carries its own bytes: what is collected so far, and what on_csi is given.
CsiCarriesBytes == CsiPayload /\ CsiWellFormed

\* The comments in feed_byte(): an OSC ends at BEL or at ST, which is ESC \ or the
\* single byte 0x9C; a DCS ends at ST.
StringEndsAtST8 ==
  [][(state \in {"osc", "dcs"} /\ fed' = Append(fed, ST8)) => state' = "ground"]_parserVars

-----------------------------------------------------------------------------
(* The stream seen as a whole, without chunks and without the text buffer.   *)

Mode ==
  IF state = "string_escape" THEN IF stringEsc THEN "osc_escape" ELSE "dcs_escape"
                             ELSE state

Emitted == out \o Prints(printable)

Stream == INSTANCE EscapeStream WITH mode <- Mode, body <- sequence, emitted <- Emitted

\* What the callbacks see depends on the bytes and the calls of reset() alone, not
\* on how the bytes were split into calls of feed().
ChunkIndependent == Stream!Spec

=============================================================================
