--------------------------- MODULE AutomatonProofs ---------------------------
(* Theorems about Automaton, for every alphabet and stream length.           *)
EXTENDS Automaton, SequenceTheorems, FiniteSetTheorems, TLAPS

USE BytesAssumption

-----------------------------------------------------------------------------
(* Logs of events.                                                           *)

LEMMA EmitType ==
  ASSUME NEW k \in {"print", "csi", "osc", "dcs", "control"}, NEW d \in Seq(Byte)
  PROVE  Emit(k, d) \in Seq(Event)
BY DEF Emit, Event

LEMMA PrintsType ==
  ASSUME NEW s \in Seq(Byte)
  PROVE  Prints(s) \in Seq(Event) /\ Len(Prints(s)) = Len(s)
<1>1. Len(s) \in Nat
  OBVIOUS
<1>2. \A i \in 1..Len(s) : [kind |-> "print", data |-> <<s[i]>>] \in Event
  <2> TAKE i \in 1..Len(s)
  <2>1. s[i] \in Byte
    OBVIOUS
  <2>2. <<s[i]>> \in Seq(Byte)
    BY <2>1
  <2>3. QED
    BY <2>2 DEF Event
<1>3. Prints(s) \in [1..Len(s) -> Event]
  BY <1>2 DEF Prints
<1>4. QED
  BY <1>1, <1>3

LEMMA PrintsEmpty == Prints(<<>>) = <<>>
<1>1. <<>> \in Seq(Byte)
  OBVIOUS
<1>2. Len(Prints(<<>>)) = 0 /\ Prints(<<>>) \in Seq(Event)
  BY <1>1, PrintsType
<1>3. QED
  BY <1>2, EmptySeq

LEMMA ConcatEvents ==
  ASSUME NEW p \in Seq(Event), NEW e \in Seq(Event)
  PROVE  /\ p \o e \in Seq(Event) /\ Len(p \o e) = Len(p) + Len(e)
         /\ \A i \in 1..Len(p) + Len(e) :
              (p \o e)[i] = IF i <= Len(p) THEN p[i] ELSE e[i - Len(p)]
BY ConcatProperties, Zenon

LEMMA PrintsAppend ==
  ASSUME NEW s \in Seq(Byte), NEW b \in Byte
  PROVE  Prints(Append(s, b)) = Prints(s) \o Emit("print", <<b>>)
<1> DEFINE t == Append(s, b)
<1>1. t \in Seq(Byte) /\ Len(t) = Len(s) + 1 /\ t[Len(s) + 1] = b
      /\ \A i \in 1..Len(s) : t[i] = s[i]
  OBVIOUS
<1> HIDE DEF t
<1>2. Len(s) \in Nat
  OBVIOUS
<1>3. /\ Prints(t) \in Seq(Event) /\ Len(Prints(t)) = Len(s) + 1
      /\ Prints(s) \in Seq(Event) /\ Len(Prints(s)) = Len(s)
  BY <1>1, PrintsType
<1> DEFINE e == Emit("print", <<b>>)
<1>4. e \in Seq(Event) /\ Len(e) = 1 /\ e[1] = [kind |-> "print", data |-> <<b>>]
  <2>1. <<b>> \in Seq(Byte)
    OBVIOUS
  <2>2. QED
    BY <2>1, EmitType DEF Emit
<1> HIDE DEF e
<1> DEFINE c == Prints(s) \o e
<1>5. /\ c \in Seq(Event) /\ Len(c) = Len(s) + 1
      /\ \A i \in 1..Len(s) : c[i] = Prints(s)[i]
      /\ c[Len(s) + 1] = e[1]
  <2> DEFINE p == Prints(s)
  <2>1. p \in Seq(Event) /\ Len(p) = Len(s)
    BY <1>3
  <2>5. e \in Seq(Event)
    BY <1>4
  <2> HIDE DEF p
  <2>2. /\ p \o e \in Seq(Event) /\ Len(p \o e) = Len(p) + Len(e)
        /\ \A i \in 1..Len(p) + Len(e) :
             (p \o e)[i] = IF i <= Len(p) THEN p[i] ELSE e[i - Len(p)]
    BY <2>1, <2>5, ConcatEvents
  <2>3. /\ \A i \in 1..Len(s) : (p \o e)[i] = p[i]
        /\ (p \o e)[Len(s) + 1] = e[1]
    BY <1>2, <1>4, <2>1, <2>2
  <2>4. QED
    BY <1>4, <2>1, <2>2, <2>3 DEF p
<1>6. ASSUME NEW i \in 1..Len(s) + 1 PROVE Prints(t)[i] = c[i]
  <2>1. Prints(t)[i] = [kind |-> "print", data |-> <<t[i]>>]
    BY <1>1 DEF Prints
  <2>2. CASE i \in 1..Len(s)
    <3>1. Prints(s)[i] = [kind |-> "print", data |-> <<s[i]>>]
      BY <2>2 DEF Prints
    <3>2. QED
      BY <1>1, <1>2, <1>5, <2>1, <2>2, <3>1
  <2>3. CASE i = Len(s) + 1
    BY <1>1, <1>2, <1>4, <1>5, <2>1, <2>3
  <2>4. i \in 1..Len(s) \/ i = Len(s) + 1
    BY <1>2
  <2>5. QED
    BY <2>2, <2>3, <2>4
<1> HIDE DEF c
<1>7. Prints(t) = c
  BY <1>3, <1>5, <1>6, SeqEqual
<1>8. QED
  BY <1>7 DEF c, e, t

-----------------------------------------------------------------------------
(* Types.                                                                    *)

LEMMA CallbackTypes ==
  ASSUME ParserTypes, NEW events \in Seq(Event)
  PROVE  /\ FlushThen(events) => out' \in Seq(Event) /\ printable' = <<>>
         /\ Dispatch(events) => out' \in Seq(Event) /\ printable' = printable
         /\ Quiet => out' = out /\ printable' = printable
<1>1. out \in Seq(Event) /\ Prints(printable) \in Seq(Event)
  BY PrintsType DEF ParserTypes
<1>2. out \o Prints(printable) \in Seq(Event)
  BY <1>1
<1>3. out \o Prints(printable) \o events \in Seq(Event) /\ out \o events \in Seq(Event)
  BY <1>1, <1>2
<1>4. QED
  BY <1>3 DEF FlushThen, Dispatch, Quiet

LEMMA ByteData ==
  ASSUME ParserTypes, NEW b \in Byte
  PROVE  /\ <<b>> \in Seq(Byte) /\ <<ESC, b>> \in Seq(Byte) /\ <<>> \in Seq(Event)
         /\ Append(sequence, b) \in Seq(Byte) /\ Append(printable, b) \in Seq(Byte)
         /\ sequence \o <<b>> \in Seq(Byte) /\ sequence \o <<ESC, b>> \in Seq(Byte)
         /\ Emit("control", <<b>>) \in Seq(Event)
         /\ Emit("csi", Append(sequence, b)) \in Seq(Event)
         /\ Emit("osc", sequence) \in Seq(Event) /\ Emit("dcs", sequence) \in Seq(Event)
<1>1. sequence \in Seq(Byte) /\ printable \in Seq(Byte) /\ ESC \in Byte
  BY DEF ParserTypes, ESC, Byte
<1>2. <<b>> \in Seq(Byte) /\ <<ESC, b>> \in Seq(Byte) /\ <<>> \in Seq(Event)
  BY <1>1
<1>3. /\ Append(sequence, b) \in Seq(Byte) /\ Append(printable, b) \in Seq(Byte)
      /\ sequence \o <<b>> \in Seq(Byte) /\ sequence \o <<ESC, b>> \in Seq(Byte)
  BY <1>1, <1>2
<1>4. QED
  BY <1>1, <1>2, <1>3, EmitType

\* What a byte does to the parser's own variables, besides what it emits.
LEMMA ByteType ==
  ASSUME ParserTypes, NEW b \in Bytes, FeedByte(b)
  PROVE  ParserTypes'
<1>1. /\ b \in Byte /\ state \in States /\ sequence \in Seq(Byte) /\ printable \in Seq(Byte)
      /\ stringEsc \in BOOLEAN /\ Len(fed) + 1 \in Nat /\ opened \in Nat
      /\ <<>> \in Seq(Byte)
  BY DEF ParserTypes
<1>2. fed' \in Seq(Byte) /\ feeding' \in BOOLEAN /\ resets' \in Nat
  BY <1>1 DEF ParserTypes, FeedByte
<1> USE DEF Introduce, Stay, ToGround, Collect
<1>3. CASE EscInString(b)
  <2>1. out' \in Seq(Event) /\ printable' \in Seq(Byte)
    BY <1>3 DEF EscInString, Quiet, ParserTypes
  <2>2. QED
    BY <1>1, <1>2, <1>3, <2>1 DEF EscInString, States, ParserTypes
<1>4. CASE EscElsewhere(b)
  <2>1. out' \in Seq(Event) /\ printable' \in Seq(Byte)
    BY <1>1, <1>4, ByteData, CallbackTypes DEF EscElsewhere
  <2>2. QED
    BY <1>1, <1>2, <1>4, <2>1 DEF EscElsewhere, States, ParserTypes
<1>5. CASE CancelByte(b)
  <2>1. out' \in Seq(Event) /\ printable' \in Seq(Byte)
    BY <1>1, <1>5, ByteData, CallbackTypes DEF CancelByte
  <2>2. QED
    BY <1>1, <1>2, <1>5, <2>1 DEF CancelByte, States, ParserTypes
<1>6. CASE C1Byte(b)
  <2>1. out' \in Seq(Event) /\ printable' \in Seq(Byte)
    BY <1>1, <1>6, ByteData, CallbackTypes DEF C1Byte, Quiet, ParserTypes
  <2>2. Introducer(b) # "none" => Introducer(b) \in States
    BY DEF Introducer, States
  <2>3. QED
    BY <1>1, <1>2, <1>6, <2>1, <2>2 DEF C1Byte, ParserTypes
<1>7. CASE Ground(b)
  <2>1. out' \in Seq(Event) /\ printable' \in Seq(Byte)
    BY <1>1, <1>7, ByteData, CallbackTypes DEF Ground, ParserTypes
  <2>2. Introducer(b) # "none" => Introducer(b) \in States
    BY DEF Introducer, States
  <2>3. QED
    BY <1>1, <1>2, <1>7, <2>1, <2>2 DEF Ground, ParserTypes
<1>8. CASE Escape(b)
  <2>1. out' \in Seq(Event) /\ printable' \in Seq(Byte)
    BY <1>1, <1>8, ByteData, CallbackTypes DEF Escape, Quiet, ParserTypes
  <2>2. EscapeIntroducer(b) # "none" => EscapeIntroducer(b) \in States
    BY DEF EscapeIntroducer, States
  <2>3. "ground" \in States
    BY DEF States
  <2>4. QED
    BY <1>1, <1>2, <1>8, <2>1, <2>2, <2>3 DEF Escape, ParserTypes
<1>9. CASE Csi(b)
  <2>1. out' \in Seq(Event) /\ printable' \in Seq(Byte)
    BY <1>1, <1>9, ByteData, CallbackTypes DEF Csi, Quiet, ParserTypes
  <2>2. QED
    BY <1>1, <1>2, <1>9, <2>1, ByteData DEF Csi, States, ParserTypes
<1>10. CASE String(b)
  <2>1. out' \in Seq(Event) /\ printable' \in Seq(Byte)
    BY <1>1, <1>10, ByteData, CallbackTypes DEF String, Quiet, ParserTypes
  <2>2. QED
    BY <1>1, <1>2, <1>10, <2>1, ByteData DEF String, States, ParserTypes
<1>11. CASE StringEscape(b)
  <2>1. out' \in Seq(Event) /\ printable' \in Seq(Byte)
    BY <1>1, <1>11, ByteData, CallbackTypes DEF StringEscape, Quiet, ParserTypes
  <2>2. QED
    BY <1>1, <1>2, <1>11, <2>1, ByteData DEF StringEscape, States, ParserTypes
<1>12. QED
  BY <1>3, <1>4, <1>5, <1>6, <1>7, <1>8, <1>9, <1>10, <1>11 DEF FeedByte

\* The parser's variables keep their types on every stream.
THEOREM TypeCorrect == ParserSpec => []ParserTypes
<1>1. ParserInit => ParserTypes
  <2>1. ParserInit => sequence \in Seq(Byte) /\ printable \in Seq(Byte) /\ fed \in Seq(Byte)
    BY DEF ParserInit
  <2>2. ParserInit => out \in Seq(Event)
    BY DEF ParserInit
  <2>3. ParserInit => stringEsc \in BOOLEAN /\ feeding \in BOOLEAN
    BY DEF ParserInit
  <2>4. ParserInit => state \in States /\ opened \in Nat /\ resets \in Nat
    BY DEF ParserInit, States
  <2>5. QED
    BY <2>1, <2>2, <2>3, <2>4 DEF ParserTypes
<1>2. ParserTypes /\ [ParserNext]_parserVars => ParserTypes'
  <2> SUFFICES ASSUME ParserTypes, [ParserNext]_parserVars
               PROVE  ParserTypes'
    OBVIOUS
  <2>1. CASE BeginFeed
    BY <2>1 DEF BeginFeed, ParserTypes
  <2>2. CASE EndFeed
    <3>1. <<>> \in Seq(Event) /\ <<>> \in Seq(Byte)
      OBVIOUS
    <3>2. out' \in Seq(Event) /\ printable' \in Seq(Byte)
      BY <2>2, <3>1, CallbackTypes DEF EndFeed
    <3>3. QED
      BY <2>2, <3>2 DEF EndFeed, ParserTypes
  <2>3. CASE Reset
    <3>1. state' \in States /\ stringEsc' \in BOOLEAN
      BY <2>3 DEF Reset, States
    <3>2. sequence' \in Seq(Byte) /\ printable' \in Seq(Byte)
      BY <2>3 DEF Reset
    <3>3. QED
      BY <2>3, <3>1, <3>2 DEF Reset, ParserTypes
  <2>4. ASSUME NEW b \in Bytes, FeedByte(b) PROVE ParserTypes'
    BY <2>4, ByteType
  <2>5. CASE UNCHANGED parserVars
    BY <2>5 DEF parserVars, ParserTypes
  <2>6. QED
    BY <2>1, <2>2, <2>3, <2>4, <2>5 DEF ParserNext
<1>3. QED
  BY <1>1, <1>2, PTL DEF ParserSpec

-----------------------------------------------------------------------------
(* What is pending in each state.                                            *)

PendingInv == FreshSequence /\ NothingHeldBack

LEMMA PendingStep == ParserTypes /\ PendingInv /\ [ParserNext]_parserVars => PendingInv'
<1> SUFFICES ASSUME ParserTypes, PendingInv, [ParserNext]_parserVars
             PROVE  PendingInv'
  OBVIOUS
<1> USE DEF PendingInv, FreshSequence, NothingHeldBack
<1>1. CASE BeginFeed \/ EndFeed \/ Reset \/ UNCHANGED parserVars
  BY <1>1 DEF BeginFeed, EndFeed, Reset, FlushThen, parserVars
<1>2. ASSUME NEW b \in Bytes, FeedByte(b)
      PROVE  PendingInv'
  <2> USE DEF Introduce, Stay, ToGround, Collect, FlushThen, Dispatch, Quiet
  <2>1. feeding /\ feeding'
    BY <1>2 DEF FeedByte
  <2>2. CASE EscInString(b)
    BY <2>1, <2>2 DEF EscInString
  <2>3. CASE EscElsewhere(b) \/ CancelByte(b)
    BY <2>1, <2>3 DEF EscElsewhere, CancelByte
  <2>4. CASE C1Byte(b)
    BY <2>1, <2>4 DEF C1Byte
  <2>5. CASE Ground(b)
    BY <2>1, <2>5 DEF Ground
  <2>6. CASE Escape(b)
    BY <2>1, <2>6 DEF Escape
  <2>7. CASE Csi(b)
    BY <2>1, <2>7 DEF Csi
  <2>8. CASE String(b)
    BY <2>1, <2>8 DEF String
  <2>9. CASE StringEscape(b)
    BY <2>1, <2>9 DEF StringEscape
  <2>10. QED
    BY <1>2, <2>2, <2>3, <2>4, <2>5, <2>6, <2>7, <2>8, <2>9 DEF FeedByte
<1>3. QED
  BY <1>1, <1>2 DEF ParserNext

LEMMA PendingAlways == ParserSpec => []PendingInv
<1>1. ParserInit => PendingInv
  BY DEF ParserInit, PendingInv, FreshSequence, NothingHeldBack
<1>2. QED
  BY <1>1, PendingStep, TypeCorrect, PTL DEF ParserSpec

\* No sequence inherits bytes from an abandoned one: sequence_ is empty whenever
\* the parser is outside a sequence.
THEOREM SequencesStartFresh == ParserSpec => []FreshSequence
BY PendingAlways, PTL DEF PendingInv

\* Text is held back only in the ground state and only inside feed(), so what was
\* printed before a sequence is always handed over before it.
THEOREM TextIsHandedOver == ParserSpec => []NothingHeldBack
BY PendingAlways, PTL DEF PendingInv

-----------------------------------------------------------------------------
(* Automaton implements EscapeStream.                                        *)

\* How the whole log changes with each way of calling back: held-back text is part
\* of it, so a flush does not show.
LEMMA EmittedStep ==
  ASSUME ParserTypes, NEW events \in Seq(Event)
  PROVE  /\ FlushThen(events) => Emitted' = Emitted \o events
         /\ FlushThen(<<>>) => Emitted' = Emitted
         /\ Dispatch(events) /\ printable = <<>> => Emitted' = Emitted \o events
         /\ Quiet => Emitted' = Emitted
<1>1. /\ out \in Seq(Event) /\ Prints(printable) \in Seq(Event) /\ Prints(<<>>) = <<>>
      /\ <<>> \in Seq(Event)
  BY PrintsType, PrintsEmpty DEF ParserTypes
<1>2. \A s \in Seq(Event) : s \o <<>> = s
  BY ConcatEmptySeq
<1>3. /\ out \o Prints(printable) \in Seq(Event)
      /\ out \o Prints(printable) \o events \in Seq(Event)
      /\ out \o events \in Seq(Event)
  BY <1>1
<1>4. FlushThen(events) => Emitted' = Emitted \o events
  BY <1>1, <1>2, <1>3 DEF FlushThen, Emitted
<1>5. FlushThen(<<>>) => Emitted' = Emitted
  BY <1>1, <1>2, <1>3 DEF FlushThen, Emitted
<1>6. Dispatch(events) /\ printable = <<>> => Emitted' = Emitted \o events
  BY <1>1, <1>2, <1>3 DEF Dispatch, Emitted
<1>7. Quiet => Emitted' = Emitted
  BY DEF Quiet, Emitted
<1>8. QED
  BY <1>4, <1>5, <1>6, <1>7

\* A byte appended to the run of text is a print event appended to the log.
LEMMA EmittedPrint ==
  ASSUME ParserTypes, NEW b \in Byte, printable' = Append(printable, b), out' = out
  PROVE  Emitted' = Emitted \o Emit("print", <<b>>)
<1>1. out \in Seq(Event) /\ Prints(printable) \in Seq(Event) /\ printable \in Seq(Byte)
  BY PrintsType DEF ParserTypes
<1>2. Emit("print", <<b>>) \in Seq(Event)
  <2>1. <<b>> \in Seq(Byte)
    OBVIOUS
  <2>2. QED
    BY <2>1, EmitType
<1>3. Emitted' = out \o (Prints(printable) \o Emit("print", <<b>>))
  BY <1>1, PrintsAppend DEF Emitted
<1>4. \A s \in Seq(Event), t \in Seq(Event), u \in Seq(Event) :
        (s \o t) \o u = s \o (t \o u)
  BY ConcatAssociative
<1>5. QED
  BY <1>1, <1>2, <1>3, <1>4 DEF Emitted

LEMMA ByteRefines ==
  ASSUME ParserTypes, PendingInv, NEW b \in Bytes, FeedByte(b)
  PROVE  Stream!Meaning(b)
<1>1. /\ b \in Byte /\ b \in 0..255 /\ state \in States
      /\ <<>> \in Seq(Event) /\ Emit("control", <<b>>) \in Seq(Event)
      /\ Emit("csi", Append(sequence, b)) \in Seq(Event)
      /\ Emit("osc", sequence) \in Seq(Event) /\ Emit("dcs", sequence) \in Seq(Event)
  <2>1. b \in Byte /\ state \in States
    BY DEF ParserTypes
  <2>2. b \in 0..255
    BY <2>1 DEF Byte
  <2>3. /\ <<>> \in Seq(Event) /\ Emit("control", <<b>>) \in Seq(Event)
        /\ Emit("csi", Append(sequence, b)) \in Seq(Event)
        /\ Emit("osc", sequence) \in Seq(Event) /\ Emit("dcs", sequence) \in Seq(Event)
    BY <2>1, ByteData
  <2>4. QED
    BY <2>1, <2>2, <2>3
<1>2. /\ state # "ground" => printable = <<>>
      /\ state \in {"ground", "escape"} => sequence = <<>>
  BY DEF PendingInv, FreshSequence, NothingHeldBack
<1>3. \A k, d : Stream!Event(k, d) = Emit(k, d)
  BY DEF Stream!Event, Emit
<1> USE DEF Introduce, Stay, ToGround, Collect, C0, C1, Final, Parameter, Cancel, Plain,
            BEL, CAN, SUB, ESC, DCS8, CSI8, ST8, OSC8,
            Stream!Control, Stream!HighControl, Stream!Everywhere, Stream!InString, Stream!Low
<1>4. CASE EscInString(b)
  <2>1. Emitted' = Emitted
    BY <1>1, <1>4, EmittedStep DEF EscInString
  <2>2. Stream!InOscOrDcs(b)
    BY <1>4, <2>1 DEF EscInString, Mode, Stream!InOscOrDcs
  <2>3. QED
    BY <2>2 DEF Stream!Meaning
<1>5. CASE EscElsewhere(b) \/ CancelByte(b)
  <2>1. Emitted' = Emitted
    BY <1>1, <1>5, EmittedStep DEF EscElsewhere, CancelByte
  <2>2. Stream!Restart(b)
    BY <1>5, <2>1 DEF EscElsewhere, CancelByte, Mode, Stream!Restart
  <2>3. QED
    BY <2>2 DEF Stream!Meaning
<1>6. CASE C1Byte(b)
  <2>1. CASE Introducer(b) # "none"
    <3>1. Emitted' = Emitted
      BY <1>1, <1>6, <2>1, EmittedStep DEF C1Byte
    <3>2. Stream!Restart(b)
      BY <1>6, <2>1, <3>1 DEF C1Byte, Introducer, Mode, Stream!Restart, Stream!Opens
    <3>3. QED
      BY <3>2 DEF Stream!Meaning
  <2>2. CASE Introducer(b) = "none"
    <3>1. ~ Stream!Everywhere(b) /\ Mode # "ground" /\ C1(b) /\ Mode' = Mode
      BY <1>1, <1>6, <2>2 DEF C1Byte, Introducer, Mode
    <3>2. IF b = 156 THEN Emitted' = Emitted
                     ELSE Emitted' = Emitted \o Emit("control", <<b>>)
      BY <1>1, <1>2, <1>6, <2>2, EmittedStep DEF C1Byte
    <3>3. Stream!HighInSequence(b)
      BY <1>3, <1>6, <2>2, <3>1, <3>2
         DEF C1Byte, Stream!HighInSequence, Stream!Pass
    <3>4. QED
      BY <3>3 DEF Stream!Meaning
  <2>3. QED
    BY <2>1, <2>2
<1>7. CASE Ground(b)
  <2>1. CASE Introducer(b) # "none"
    <3>1. Emitted' = Emitted
      BY <1>1, <1>7, <2>1, EmittedStep DEF Ground, Introducer
    <3>2. Stream!Restart(b)
      BY <1>7, <2>1, <3>1 DEF Ground, Introducer, Mode, Stream!Restart, Stream!Opens
    <3>3. QED
      BY <3>2 DEF Stream!Meaning
  <2>2. CASE Introducer(b) = "none"
    <3>1. /\ ~ Stream!Everywhere(b) /\ Mode = "ground" /\ Mode' = Mode
          /\ sequence' = sequence
      BY <1>7, <2>2 DEF Ground, Introducer, Mode
    <3>2. CASE C0(b)
      <4>1. Emitted' = Emitted \o Emit("control", <<b>>)
        BY <1>1, <1>7, <2>2, <3>2, EmittedStep DEF Ground
      <4>2. Stream!InGround(b)
        BY <1>3, <3>1, <3>2, <4>1 DEF Stream!InGround, Stream!Pass
      <4>3. QED
        BY <4>2 DEF Stream!Meaning
    <3>3. CASE b = 127
      <4>1. Emitted' = Emitted
        BY <1>1, <1>7, <2>2, <3>3, EmittedStep DEF Ground
      <4>2. Stream!InGround(b)
        BY <3>1, <3>3, <4>1 DEF Stream!InGround
      <4>3. QED
        BY <4>2 DEF Stream!Meaning
    <3>4. CASE ~ C0(b) /\ b # 127
      <4>1. Emitted' = Emitted \o Emit("print", <<b>>)
        BY <1>1, <1>7, <2>2, <3>4, EmittedPrint DEF Ground
      <4>2. Stream!InGround(b)
        BY <1>3, <3>1, <3>4, <4>1 DEF Stream!InGround, Stream!Pass
      <4>3. QED
        BY <4>2 DEF Stream!Meaning
    <3>5. QED
      BY <3>2, <3>3, <3>4
  <2>3. QED
    BY <2>1, <2>2
<1>8. CASE Escape(b)
  <2>1. Mode = "escape" /\ Stream!Low(b) /\ sequence = <<>> /\ printable = <<>>
    BY <1>1, <1>2, <1>8 DEF Escape, Mode
  <2>2. Stream!AfterEscape(b)
    <3>1. CASE C0(b) /\ Dispatch(Emit("control", <<b>>)) /\ Stay
      <4>1. Emitted' = Emitted \o Emit("control", <<b>>) /\ Mode' = Mode
        BY <1>1, <1>8, <2>1, <3>1, EmittedStep DEF Mode, Escape
      <4>2. QED
        BY <1>3, <2>1, <3>1, <4>1 DEF Stream!AfterEscape, Stream!Pass
    <3>2. CASE EscapeIntroducer(b) # "none" /\ Introduce(EscapeIntroducer(b)) /\ Quiet
      <4>1. Emitted' = Emitted
        BY <1>1, <3>2, EmittedStep
      <4>2. QED
        BY <2>1, <3>2, <4>1 DEF EscapeIntroducer, LeftBracket, RightBracket, LetterP, Mode,
                                Stream!AfterEscape, Stream!OpensAfterEscape
    <3>3. CASE /\ ~ C0(b) /\ EscapeIntroducer(b) = "none"
               /\ state' = "ground" /\ Quiet /\ UNCHANGED <<sequence, opened>>
      <4>1. Emitted' = Emitted
        BY <1>1, <3>3, EmittedStep
      <4>2. QED
        BY <2>1, <3>3, <4>1 DEF EscapeIntroducer, LeftBracket, RightBracket, LetterP, Mode,
                                Stream!AfterEscape, Stream!OpensAfterEscape
    <3>4. QED
      BY <1>8, <3>1, <3>2, <3>3 DEF Escape
  <2>3. QED
    BY <2>2 DEF Stream!Meaning
<1>9. CASE Csi(b)
  <2>1. Mode = "csi" /\ Stream!Low(b) /\ printable = <<>>
    BY <1>1, <1>2, <1>9 DEF Csi, Mode
  <2>2. Stream!InCsi(b)
    <3>1. CASE Final(b) /\ Dispatch(Emit("csi", Append(sequence, b))) /\ ToGround
      <4> DEFINE done == Append(sequence, b)
                 event == Emit("csi", done)
      <4>1. event \in Seq(Event) /\ Dispatch(event)
        BY <1>1, <3>1
      <4>2. event = Stream!Event("csi", done)
        BY <1>3
      <4> HIDE DEF event
      <4>3. Emitted' = Emitted \o event
        BY <2>1, <4>1, EmittedStep
      <4>4. Stream!Finish("csi", done)
        BY <3>1, <4>2, <4>3 DEF Mode, Stream!Finish
      <4>5. QED
        BY <1>1, <2>1, <3>1, <4>4 DEF Stream!InCsi
    <3>2. CASE Parameter(b) /\ Collect("csi", <<b>>) /\ Quiet
      <4>1. Emitted' = Emitted
        BY <1>1, <3>2, EmittedStep
      <4>2. QED
        BY <1>1, <2>1, <3>2, <4>1 DEF Mode, Stream!InCsi, Stream!Grow
    <3>3. CASE C0(b) /\ Dispatch(Emit("control", <<b>>)) /\ Stay
      <4>1. Emitted' = Emitted \o Emit("control", <<b>>) /\ Mode' = Mode
        BY <1>1, <1>9, <2>1, <3>3, EmittedStep DEF Mode, Csi
      <4>2. QED
        BY <1>3, <2>1, <3>3, <4>1 DEF Stream!InCsi, Stream!Pass
    <3>4. CASE b > 126 /\ Quiet /\ Stay
      <4>1. Emitted' = Emitted /\ Mode' = Mode
        BY <1>1, <1>9, <3>4, EmittedStep DEF Mode, Csi
      <4>2. QED
        BY <2>1, <3>4, <4>1 DEF Stream!InCsi
    <3>5. QED
      BY <1>9, <3>1, <3>2, <3>3, <3>4 DEF Csi
  <2>3. QED
    BY <2>2 DEF Stream!Meaning
<1>10. CASE String(b)
  <2>1. Mode = state /\ state \in {"osc", "dcs"} /\ Stream!Low(b) /\ printable = <<>>
    BY <1>1, <1>2, <1>10 DEF String, Mode
  <2>2. Stream!InOscOrDcs(b)
    <3>1. CASE b = BEL /\ state = "osc" /\ Dispatch(Emit("osc", sequence)) /\ ToGround
      <4>1. Emitted' = Emitted \o Emit("osc", sequence)
        BY <1>1, <2>1, <3>1, EmittedStep
      <4>2. QED
        BY <1>3, <2>1, <3>1, <4>1 DEF Mode, Stream!InOscOrDcs, Stream!Finish
    <3>2. CASE C0(b) /\ (b = BEL => state = "dcs") /\ Quiet /\ Stay
      <4>1. Emitted' = Emitted /\ Mode' = Mode
        BY <1>1, <1>10, <3>2, EmittedStep DEF Mode, String
      <4>2. QED
        BY <2>1, <3>2, <4>1 DEF Stream!InOscOrDcs
    <3>3. CASE ~ C0(b) /\ Collect(state, <<b>>) /\ Quiet
      <4>1. Emitted' = Emitted
        BY <1>1, <3>3, EmittedStep
      <4>2. QED
        BY <2>1, <3>3, <4>1 DEF Mode, Stream!InOscOrDcs, Stream!Grow
    <3>4. QED
      BY <1>10, <3>1, <3>2, <3>3 DEF String
  <2>3. QED
    BY <2>2 DEF Stream!Meaning
<1>11. CASE StringEscape(b)
  <2> DEFINE kind == IF stringEsc THEN "osc" ELSE "dcs"
  <2>1. /\ kind \in {"osc", "dcs"} /\ Stream!Low(b) /\ printable = <<>>
        /\ Mode = IF kind = "osc" THEN "osc_escape" ELSE "dcs_escape"
        /\ Emit(kind, sequence) \in Seq(Event)
    BY <1>1, <1>2, <1>11 DEF StringEscape, Mode
  <2>2. /\ Stream!Low(b)
        /\ \/ b = 92 /\ Stream!Finish(kind, sequence)
           \/ b # 92 /\ Stream!Grow(kind, <<27, b>>)
    <3>1. CASE b = Backslash /\ Dispatch(Emit(kind, sequence)) /\ ToGround
      <4>1. Emitted' = Emitted \o Emit(kind, sequence)
        BY <2>1, <3>1, EmittedStep
      <4>2. QED
        BY <1>3, <2>1, <3>1, <4>1 DEF Backslash, Mode, Stream!Finish
    <3>2. CASE b # Backslash /\ Collect(kind, <<ESC, b>>) /\ Quiet
      <4>1. Emitted' = Emitted
        BY <1>1, <3>2, EmittedStep
      <4>2. QED
        BY <2>1, <3>2, <4>1 DEF Backslash, Mode, Stream!Grow
    <3>3. QED
      BY <1>11, <3>1, <3>2 DEF StringEscape
  <2> HIDE DEF kind
  <2>3. QED
    BY <2>1, <2>2 DEF Stream!Meaning, Stream!AfterStringEscape
<1>12. QED
  BY <1>4, <1>5, <1>6, <1>7, <1>8, <1>9, <1>10, <1>11 DEF FeedByte

\* However the bytes are split into calls of feed(), the callbacks made are those of
\* the stream read byte by byte: feed() and its buffer of text implement EscapeStream.
THEOREM FeedIsChunkIndependent == ParserSpec => ChunkIndependent
<1>1. ParserInit => Stream!Init
  <2>1. <<>> \in Seq(Event)
    OBVIOUS
  <2>2. ParserInit => Emitted = <<>>
    BY <2>1, PrintsEmpty, ConcatEmptySeq DEF ParserInit, Emitted
  <2>3. QED
    BY <2>2 DEF ParserInit, Mode, Stream!Init
<1>2. ParserTypes /\ PendingInv /\ [ParserNext]_parserVars => [Stream!Next]_(Stream!vars)
  <2> SUFFICES ASSUME ParserTypes, PendingInv, [ParserNext]_parserVars
               PROVE  [Stream!Next]_(Stream!vars)
    OBVIOUS
  <2>1. CASE BeginFeed \/ UNCHANGED parserVars
    BY <2>1 DEF BeginFeed, parserVars, Mode, Emitted, Stream!vars
  <2>2. CASE EndFeed
    <3>1. <<>> \in Seq(Event)
      OBVIOUS
    <3>2. Emitted' = Emitted /\ Mode' = Mode /\ sequence' = sequence /\ fed' = fed
                /\ resets' = resets
      BY <2>2, <3>1, EmittedStep DEF EndFeed, Mode
    <3>3. QED
      BY <3>2 DEF Stream!vars
  <2>3. CASE Reset
    <3>1. printable = <<>>
      BY <2>3 DEF Reset, PendingInv, NothingHeldBack
    <3>2. Emitted' = Emitted
      BY <2>3, <3>1 DEF Reset, Emitted
    <3>3. QED
      BY <2>3, <3>2 DEF Reset, Mode, Stream!Forget, Stream!Next
  <2>4. ASSUME NEW b \in Bytes, FeedByte(b)
        PROVE  Stream!Next
    <3>1. Stream!Meaning(b) /\ fed' = Append(fed, b) /\ UNCHANGED resets
      BY <2>4, ByteRefines DEF FeedByte
    <3>2. QED
      BY <2>4, <3>1 DEF Stream!Consume, Stream!Next
  <2>5. QED
    BY <2>1, <2>2, <2>3, <2>4 DEF ParserNext
<1>3. QED
  BY <1>1, <1>2, TypeCorrect, PendingAlways, PTL DEF ParserSpec, ChunkIndependent, Stream!Spec

-----------------------------------------------------------------------------
(* What a CSI carries.                                                       *)

\* The CSI in progress, with the bytes it has collected known to be parameters.
CollectedInv ==
  /\ state = "csi" => opened <= Len(fed) /\ \A k \in 1..Len(sequence) : Parameter(sequence[k])
  /\ CsiPayload

\* more is bytes with b at its end, and a CSI begins at first, no later than there.
OneMore(bytes, first, b, more) ==
  /\ bytes \in Seq(Byte) /\ more \in Seq(Byte) /\ first \in 1..Len(bytes) + 1
  /\ Len(more) = Len(bytes) + 1 /\ more[Len(more)] = b
  /\ \A j \in 1..Len(bytes) : more[j] = bytes[j]

LEMMA ParametersOfMore ==
  ASSUME NEW bytes, NEW first, NEW b, NEW more, OneMore(bytes, first, b, more)
  PROVE  ParametersIn(more, first, Len(more)) =
           ParametersIn(bytes, first, Len(bytes)) \cup (IF Parameter(b) THEN {Len(more)} ELSE {})
<1>1. Len(bytes) \in Nat
  BY DEF OneMore
<1> QED
  BY <1>1 DEF OneMore, ParametersIn

LEMMA RanksOfMore ==
  ASSUME NEW bytes, NEW first, NEW b, NEW more, OneMore(bytes, first, b, more),
         NEW j \in ParametersIn(bytes, first, Len(bytes))
  PROVE  ParametersIn(more, first, j) = ParametersIn(bytes, first, j)
<1>1. Len(bytes) \in Nat
  BY DEF OneMore
<1> QED
  BY <1>1 DEF OneMore, ParametersIn

LEMMA CountOfMore ==
  ASSUME NEW bytes, NEW first, NEW b, NEW more, OneMore(bytes, first, b, more)
  PROVE  /\ IsFiniteSet(ParametersIn(bytes, first, Len(bytes)))
         /\ Cardinality(ParametersIn(bytes, first, Len(bytes))) \in Nat
         /\ Cardinality(ParametersIn(bytes, first, Len(bytes)) \cup {Len(more)}) =
              Cardinality(ParametersIn(bytes, first, Len(bytes))) + 1
<1> DEFINE before == ParametersIn(bytes, first, Len(bytes))
<1>1. Len(bytes) \in Nat /\ first \in Nat /\ Len(more) = Len(bytes) + 1
  BY DEF OneMore
<1>2. IsFiniteSet(before)
  <2>1. IsFiniteSet(first..Len(bytes))
    BY <1>1, FS_Interval
  <2> QED
    BY <2>1, FS_Subset DEF ParametersIn
<1>3. Len(more) \notin before
  BY <1>1 DEF ParametersIn
<1> QED
  BY <1>2, <1>3, FS_AddElement, FS_CardinalityType

\* A byte that is read while a CSI is collected, and what it does to the places of the
\* parameters.
LEMMA ReadInCsi ==
  ASSUME ParserTypes, CollectedInv, state = "csi", NEW b \in Byte, fed' = Append(fed, b)
  PROVE  OneMore(fed, opened + 1, b, fed')
<1>1. /\ fed \in Seq(Byte) /\ opened \in Nat /\ opened <= Len(fed)
  BY DEF ParserTypes, CollectedInv
<1> QED
  BY <1>1 DEF OneMore

\* A byte that leaves a CSI as it is is no parameter of it.
LEMMA CollectedSame ==
  ASSUME ParserTypes, CollectedInv, NEW b \in Byte, ~ Parameter(b), state = "csi",
         state' = "csi", sequence' = sequence, opened' = opened, fed' = Append(fed, b)
  PROVE  CollectedInv'
<1> DEFINE first == opened + 1
           before == ParametersIn(fed, first, Len(fed))
<1>1. OneMore(fed, first, b, fed')
  BY ReadInCsi
<1>2. Len(sequence) = Cardinality(before)
      /\ \A j \in before : sequence[Cardinality(ParametersIn(fed, first, j))] = fed[j]
  BY DEF CollectedInv, CsiPayload
<1> HIDE DEF first
<1>3. ParametersIn(fed', first, Len(fed')) = before
  <2>1. ParametersIn(fed', first, Len(fed')) =
          before \cup (IF Parameter(b) THEN {Len(fed')} ELSE {})
    BY <1>1, ParametersOfMore
  <2> HIDE DEF before
  <2> QED
    BY <2>1
<1>4. \A j \in before : ParametersIn(fed', first, j) = ParametersIn(fed, first, j)
  BY <1>1, RanksOfMore
<1>5. \A j \in before : fed'[j] = fed[j]
  BY <1>1 DEF OneMore, ParametersIn
<1> HIDE DEF before
<1>6. CsiPayload'
  <2>1. \A j \in before : sequence'[Cardinality(ParametersIn(fed', first, j))] = fed'[j]
    BY <1>2, <1>4, <1>5
  <2> QED
    BY <1>2, <1>3, <2>1 DEF CsiPayload, first
<1>7. opened' <= Len(fed')
  BY <1>1 DEF ParserTypes, CollectedInv, OneMore, first
<1> QED
  BY <1>6, <1>7 DEF CollectedInv

LEMMA CollectedMore ==
  ASSUME ParserTypes, CollectedInv, NEW b \in Byte, Parameter(b), state = "csi",
         state' = "csi", sequence' = sequence \o <<b>>, opened' = opened, fed' = Append(fed, b)
  PROVE  CollectedInv'
<1> DEFINE first == opened + 1
           before == ParametersIn(fed, first, Len(fed))
           n == Len(fed')
<1>1. OneMore(fed, first, b, fed')
  BY ReadInCsi
<1>2. Len(sequence) = Cardinality(before)
      /\ \A j \in before : sequence[Cardinality(ParametersIn(fed, first, j))] = fed[j]
  BY DEF CollectedInv, CsiPayload
<1> HIDE DEF first
<1>3. ParametersIn(fed', first, n) = before \cup {n}
  BY <1>1, ParametersOfMore
<1>4. \A j \in before : ParametersIn(fed', first, j) = ParametersIn(fed, first, j)
  BY <1>1, RanksOfMore
<1>5. /\ IsFiniteSet(before) /\ Cardinality(before) \in Nat
      /\ Cardinality(before \cup {n}) = Cardinality(before) + 1
  BY <1>1, CountOfMore
<1>6. (\A j \in before : fed'[j] = fed[j]) /\ fed'[n] = b
  BY <1>1 DEF OneMore, ParametersIn
<1>7. /\ Len(sequence') = Len(sequence) + 1 /\ sequence'[Len(sequence) + 1] = b
      /\ \A k \in 1..Len(sequence) : sequence'[k] = sequence[k]
      /\ Len(sequence) \in Nat
  <2>1. sequence \in Seq(Byte)
    BY DEF ParserTypes
  <2> QED
    BY <2>1
<1>8. \A j \in before : Cardinality(ParametersIn(fed, first, j)) \in 1..Len(sequence)
  <2> TAKE j \in before
  <2>1. ParametersIn(fed, first, j) \subseteq before /\ j \in ParametersIn(fed, first, j)
    BY <1>1 DEF OneMore, ParametersIn
  <2> HIDE DEF before
  <2>2. /\ IsFiniteSet(ParametersIn(fed, first, j))
        /\ Cardinality(ParametersIn(fed, first, j)) <= Cardinality(before)
    BY <1>5, <2>1, FS_Subset
  <2>3. Cardinality(ParametersIn(fed, first, j)) \in Nat \ {0}
    BY <2>1, <2>2, FS_CardinalityType, FS_EmptySet
  <2> QED
    BY <1>2, <1>5, <2>2, <2>3
<1> HIDE DEF before, n
<1>9. CsiPayload'
  <2>1. \A j \in before : sequence'[Cardinality(ParametersIn(fed', first, j))] = fed'[j]
    <3> TAKE j \in before
    <3>1. sequence'[Cardinality(ParametersIn(fed, first, j))] = fed[j]
      BY <1>2, <1>7, <1>8
    <3> QED
      BY <1>4, <1>6, <3>1
  <2>2. Len(sequence') = Cardinality(ParametersIn(fed', first, n))
    BY <1>2, <1>3, <1>5, <1>7
  <2>3. sequence'[Cardinality(ParametersIn(fed', first, n))] = fed'[n]
    BY <1>2, <1>3, <1>5, <1>6, <1>7
  <2>4. \A j \in ParametersIn(fed', first, n) :
          sequence'[Cardinality(ParametersIn(fed', first, j))] = fed'[j]
    BY <1>3, <2>1, <2>3
  <2>5. first = opened' + 1
    BY DEF first
  <2> QED
    BY <2>2, <2>4, <2>5 DEF CsiPayload, n
<1>10. \A k \in 1..Len(sequence') : Parameter(sequence'[k])
  <2>1. \A k \in 1..Len(sequence') : k \in 1..Len(sequence) \/ k = Len(sequence) + 1
    BY <1>7
  <2>2. \A k \in 1..Len(sequence) : Parameter(sequence[k])
    BY DEF CollectedInv
  <2> QED
    BY <1>7, <2>1, <2>2
<1>11. opened' <= Len(fed')
  BY <1>1 DEF ParserTypes, CollectedInv, OneMore, first
<1> QED
  BY <1>9, <1>10, <1>11 DEF CollectedInv

\* A CSI that has just been introduced has collected nothing.
LEMMA CollectedNothing ==
  ASSUME ParserTypes, sequence' = <<>>, opened' = Len(fed'), Len(fed') \in Nat
  PROVE  CollectedInv'
<1>1. ParametersIn(fed', opened' + 1, Len(fed')) = {}
  BY DEF ParametersIn
<1>2. CsiPayload'
  BY <1>1, FS_EmptySet DEF CsiPayload
<1> QED
  BY <1>2 DEF CollectedInv

LEMMA CollectedStep == ParserTypes /\ CollectedInv /\ [ParserNext]_parserVars => CollectedInv'
<1> SUFFICES ASSUME ParserTypes, CollectedInv, [ParserNext]_parserVars
             PROVE  CollectedInv'
  OBVIOUS
<1>1. ASSUME state' # "csi" PROVE CollectedInv'
  BY <1>1 DEF CollectedInv, CsiPayload
<1>2. CASE BeginFeed \/ EndFeed \/ UNCHANGED parserVars
  <2>1. UNCHANGED <<state, sequence, opened, fed>>
    BY <1>2 DEF BeginFeed, EndFeed, parserVars
  <2> QED
    BY <2>1 DEF CollectedInv, CsiPayload
<1>3. CASE Reset
  BY <1>1, <1>3 DEF Reset
<1>4. ASSUME NEW b \in Bytes, FeedByte(b)
      PROVE  CollectedInv'
  <2>1. b \in Byte /\ fed' = Append(fed, b) /\ Len(fed') = Len(fed) + 1 /\ Len(fed) \in Nat
    BY <1>4 DEF FeedByte, ParserTypes
  <2>2. ASSUME NEW s, Introduce(s) PROVE CollectedInv'
    BY <2>1, <2>2, CollectedNothing DEF Introduce
  <2>3. ASSUME state' = "csi", ~ (\E s : Introduce(s))
        PROVE  /\ state = "csi" /\ opened' = opened
               /\ \/ ~ Parameter(b) /\ sequence' = sequence
                  \/ Parameter(b) /\ sequence' = sequence \o <<b>>
    <3> USE DEF Stay, ToGround, Collect
    <3>1. CASE EscInString(b) \/ EscElsewhere(b) \/ CancelByte(b)
      BY <2>3, <3>1 DEF EscInString, EscElsewhere, CancelByte
    <3>2. CASE C1Byte(b)
      BY <2>1, <2>3, <3>2 DEF C1Byte, C1, Parameter, Byte
    <3>3. CASE Ground(b) \/ Escape(b)
      BY <2>3, <3>3 DEF Ground, Escape
    <3>4. CASE Csi(b)
      BY <2>1, <2>3, <3>4 DEF Csi, C0, Final, Parameter, Byte
    <3>5. CASE String(b) \/ StringEscape(b)
      BY <2>3, <3>5 DEF String, StringEscape
    <3> QED
      BY <1>4, <3>1, <3>2, <3>3, <3>4, <3>5 DEF FeedByte
  <2> QED
    BY <1>1, <2>1, <2>2, <2>3, CollectedSame, CollectedMore
<1> QED
  BY <1>2, <1>3, <1>4 DEF ParserNext

LEMMA CollectedAlways == ParserSpec => []CollectedInv
<1>1. ParserInit => CollectedInv
  BY DEF ParserInit, CollectedInv, CsiPayload
<1> QED
  BY <1>1, CollectedStep, TypeCorrect, PTL DEF ParserSpec

\* Every CSI of a log is well formed.
WellFormed(log) ==
  \A i \in 1..Len(log) :
    log[i].kind = "csi" =>
      LET d == log[i].data
      IN  Len(d) > 0 /\ Final(d[Len(d)]) /\ \A j \in 1..(Len(d) - 1) : Parameter(d[j])

LEMMA WellFormedJoined ==
  ASSUME NEW p \in Seq(Event), NEW e \in Seq(Event), WellFormed(p), WellFormed(e)
  PROVE  WellFormed(p \o e)
<1>1. /\ Len(p \o e) = Len(p) + Len(e) /\ Len(p) \in Nat /\ Len(e) \in Nat
      /\ \A i \in 1..Len(p) + Len(e) :
           (p \o e)[i] = IF i <= Len(p) THEN p[i] ELSE e[i - Len(p)]
  BY ConcatEvents
<1>2. ASSUME NEW i \in 1..Len(p \o e)
      PROVE  \/ i \in 1..Len(p) /\ (p \o e)[i] = p[i]
             \/ i - Len(p) \in 1..Len(e) /\ (p \o e)[i] = e[i - Len(p)]
  BY <1>1
<1> QED
  BY <1>2, Zenon DEF WellFormed

LEMMA WellFormedPrints ==
  ASSUME NEW s \in Seq(Byte)
  PROVE  WellFormed(Prints(s)) /\ Prints(s) \in Seq(Event)
<1>1. Prints(s) \in Seq(Event) /\ Len(Prints(s)) = Len(s)
  BY PrintsType
<1>2. \A i \in 1..Len(s) : Prints(s)[i].kind = "print"
  BY DEF Prints
<1> QED
  BY <1>1, <1>2 DEF WellFormed

LEMMA WellFormedCallback ==
  ASSUME NEW k \in {"print", "osc", "dcs", "control"}, NEW d
  PROVE  WellFormed(Emit(k, d)) /\ WellFormed(<<>>)
<1>1. Len(Emit(k, d)) = 1 /\ Emit(k, d)[1].kind = k
  BY DEF Emit
<1> QED
  BY <1>1 DEF WellFormed

\* What on_csi is given: what was collected, then the final byte.
LEMMA WellFormedCsi ==
  ASSUME ParserTypes, CollectedInv, state = "csi", NEW b \in Byte, Final(b)
  PROVE  WellFormed(Emit("csi", Append(sequence, b)))
<1> DEFINE d == Append(sequence, b)
<1>1. sequence \in Seq(Byte) /\ \A k \in 1..Len(sequence) : Parameter(sequence[k])
  BY DEF ParserTypes, CollectedInv
<1>2. /\ Len(d) = Len(sequence) + 1 /\ Len(sequence) \in Nat /\ d[Len(sequence) + 1] = b
      /\ \A k \in 1..Len(sequence) : d[k] = sequence[k]
  BY <1>1
<1> HIDE DEF d
<1>3. Len(d) > 0 /\ Final(d[Len(d)]) /\ \A j \in 1..(Len(d) - 1) : Parameter(d[j])
  BY <1>1, <1>2
<1>4. Len(Emit("csi", d)) = 1 /\ Emit("csi", d)[1].data = d
  BY DEF Emit
<1>5. WellFormed(Emit("csi", d))
  <2>1. \A i \in 1..1 : i = 1
    OBVIOUS
  <2> QED
    BY <1>3, <1>4, <2>1, Zenon DEF WellFormed
<1> QED
  BY <1>5 DEF d

LogInv == WellFormed(out)

LEMMA LogStep == ParserTypes /\ CollectedInv /\ LogInv /\ [ParserNext]_parserVars => LogInv'
<1> SUFFICES ASSUME ParserTypes, CollectedInv, WellFormed(out), [ParserNext]_parserVars
             PROVE  WellFormed(out')
  BY DEF LogInv
<1>1. /\ out \in Seq(Event) /\ Prints(printable) \in Seq(Event) /\ WellFormed(Prints(printable))
      /\ out \o Prints(printable) \in Seq(Event) /\ <<>> \in Seq(Event)
  <2>1. out \in Seq(Event) /\ printable \in Seq(Byte)
    BY DEF ParserTypes
  <2>2. Prints(printable) \in Seq(Event) /\ WellFormed(Prints(printable))
    BY <2>1, WellFormedPrints
  <2> QED
    BY <2>1, <2>2, ConcatEvents
<1>2. ASSUME NEW e \in Seq(Event), WellFormed(e), FlushThen(e) \/ Dispatch(e)
      PROVE  WellFormed(out')
  <2>1. WellFormed(out \o Prints(printable))
    BY <1>1, WellFormedJoined
  <2>2. WellFormed((out \o Prints(printable)) \o e) /\ WellFormed(out \o e)
    BY <1>1, <1>2, <2>1, WellFormedJoined
  <2> QED
    BY <1>2, <2>2 DEF FlushThen, Dispatch
<1>3. ASSUME out' = out PROVE WellFormed(out')
  BY <1>3
<1>4. WellFormed(<<>>)
  BY WellFormedCallback
<1>5. CASE BeginFeed \/ Reset \/ UNCHANGED parserVars
  BY <1>3, <1>5 DEF BeginFeed, Reset, parserVars
<1>6. CASE EndFeed
  BY <1>1, <1>2, <1>4, <1>6 DEF EndFeed
<1>7. ASSUME NEW b \in Bytes, FeedByte(b)
      PROVE  WellFormed(out')
  <2>1. b \in Byte
    OBVIOUS
  <2>2. /\ Emit("control", <<b>>) \in Seq(Event) /\ WellFormed(Emit("control", <<b>>))
        /\ Emit("osc", sequence) \in Seq(Event) /\ WellFormed(Emit("osc", sequence))
        /\ Emit("dcs", sequence) \in Seq(Event) /\ WellFormed(Emit("dcs", sequence))
        /\ Emit("csi", Append(sequence, b)) \in Seq(Event)
    BY <2>1, ByteData, WellFormedCallback
  <2>3. CASE EscInString(b)
    BY <1>3, <2>3 DEF EscInString, Quiet
  <2>4. CASE EscElsewhere(b) \/ CancelByte(b)
    BY <1>1, <1>2, <1>4, <2>4 DEF EscElsewhere, CancelByte
  <2>5. CASE C1Byte(b)
    BY <1>2, <1>3, <2>2, <2>5 DEF C1Byte, Quiet
  <2>6. CASE Ground(b)
    BY <1>1, <1>2, <1>3, <1>4, <2>2, <2>6 DEF Ground
  <2>7. CASE Escape(b)
    BY <1>2, <1>3, <2>2, <2>7 DEF Escape, Quiet
  <2>8. CASE Csi(b)
    <3>1. state = "csi" /\ (Final(b) => WellFormed(Emit("csi", Append(sequence, b))))
      BY <2>1, <2>8, WellFormedCsi DEF Csi
    <3> QED
      BY <1>2, <1>3, <2>2, <2>8, <3>1 DEF Csi, Quiet
  <2>9. CASE String(b) \/ StringEscape(b)
    BY <1>2, <1>3, <2>2, <2>9 DEF String, StringEscape, Quiet
  <2> QED
    BY <1>7, <2>3, <2>4, <2>5, <2>6, <2>7, <2>8, <2>9 DEF FeedByte
<1> QED
  BY <1>5, <1>6, <1>7 DEF ParserNext

\* On every stream a CSI collects exactly the parameter bytes that came since its
\* introducer, in order, whatever was executed in between, and on_csi is only ever given
\* parameters followed by one final byte.
THEOREM CsiKeepsItsBytes == ParserSpec => []CsiCarriesBytes
<1>1. ParserInit => LogInv
  BY WellFormedCallback DEF ParserInit, LogInv
<1>2. ParserSpec => []LogInv
  BY <1>1, LogStep, TypeCorrect, CollectedAlways, PTL DEF ParserSpec
<1>3. CollectedInv /\ LogInv => CsiCarriesBytes
  BY DEF CollectedInv, LogInv, WellFormed, CsiCarriesBytes, CsiWellFormed
<1> QED
  BY <1>2, <1>3, CollectedAlways, PTL
================================================================================
