------------------------------- MODULE LineEditing -------------------------------
(***************************************************************************)
(* The two line editors, ttytk::Editor and ttyutils::rl::Editor, with what    *)
(* stands around them: the kill ring, the clipboard's history and Recorder.    *)
(***************************************************************************)
EXTENDS Naturals, SequencesExt

CONSTANTS
  Codes,        \* code points that are typed
  Encoded(_),   \* utf8::encode()
  Valid(_),     \* utf8::validate()
  RingLimit, ClipLimit,   \* entries kept (32), bytes of a clipboard entry (1 MiB)
  MaxLine, MaxLines,      \* bounds: bytes of a line, lines submitted
  MaxOutput               \* bound: pieces of output recorded

VARIABLES
  line, saved, history, cursor, index,   \* ttytk::Editor; index counts the entries before it
  recalled,                              \* history: history_up() since the last submit()
  text, at, accepted,                    \* rl::Editor
  halved,                                \* history: a backspace left a part of a character
  ring, turn, latest,                    \* KillRing; history: the last kill, until a rotation
  clips, copied,                         \* clip::History; history: the last text copied
  recording, events, shown               \* Recorder; history: output since start()

editVars == <<line, saved, history, cursor, index, recalled>>
readVars == <<text, at, accepted, halved>>
ringVars == <<ring, turn, latest, clips, copied>>
recordVars == <<recording, events, shown>>
vars == <<editVars, readVars, ringVars, recordVars>>

Init ==
  /\ line = <<>> /\ saved = <<>> /\ history = <<>> /\ cursor = 0 /\ index = 0
  /\ recalled = FALSE /\ latest = <<>>
  /\ text = <<>> /\ at = 0 /\ accepted = FALSE /\ halved = FALSE
  /\ ring = <<>> /\ turn = 0 /\ clips = <<>> /\ copied = <<>>
  /\ recording = FALSE /\ events = <<>> /\ shown = <<>>

InsertedAt(bytes, place, more) == SubSeq(bytes, 1, place) \o more \o SubSeq(bytes, place + 1, Len(bytes))

-----------------------------------------------------------------------------
\* ttytk::Editor.

\* A character that is not ASCII is ignored.
Insert ==
  /\ \E code \in Codes :
       /\ code <= 127 /\ Len(line) < MaxLine
       /\ line' = InsertedAt(line, cursor, <<code>>) /\ cursor' = cursor + 1
  /\ UNCHANGED <<saved, history, index, recalled, readVars, ringVars, recordVars>>

Backspace ==
  /\ cursor > 0
  /\ line' = RemoveAt(line, cursor) /\ cursor' = cursor - 1
  /\ UNCHANGED <<saved, history, index, recalled, readVars, ringVars, recordVars>>

\* history_up(): the line typed so far is saved and never comes back.
HistoryUp ==
  /\ history # <<>>
  /\ saved' = IF index = Len(history) THEN line ELSE saved
  /\ index' = IF index > 0 THEN index - 1 ELSE index
  /\ line' = history[index' + 1] /\ cursor' = Len(line')
  /\ recalled' = TRUE
  /\ UNCHANGED <<history, readVars, ringVars, recordVars>>

\* Mutant of IndexAfter: the index stays where history_up() left it.
IndexAfterStays(entries) == index

IndexAfter(entries) == Len(entries)

Submit ==
  /\ Len(history) < MaxLines
  /\ history' = IF line = <<>> THEN history ELSE Append(history, line)
  /\ index' = IndexAfter(history') /\ line' = <<>> /\ cursor' = 0
  /\ recalled' = FALSE
  /\ UNCHANGED <<saved, readVars, ringVars, recordVars>>

EditNext == Insert \/ Backspace \/ HistoryUp \/ Submit

-----------------------------------------------------------------------------
\* rl::Editor: feed() of a key, and of a paste; read_line().

\* Mutant of Step: the cursor moves by one, whatever was inserted.
StepOne(bytes) == 1

Step(bytes) == Len(bytes)

\* A printable key, or a paste of any characters, whether a line is accepted or not.
Type ==
  /\ \E codes \in {<<c>> : c \in {d \in Codes : d >= 32}} \cup (Codes \X Codes) :
       LET bytes == FlattenSeq([i \in DOMAIN codes |-> Encoded(codes[i])])
       IN  /\ Len(text) + Len(bytes) <= MaxLine
           /\ text' = InsertedAt(text, at, bytes) /\ at' = at + Step(bytes)
  /\ UNCHANGED <<accepted, halved, editVars, ringVars, recordVars>>

\* One byte goes, of however many the character has.
FeedBackspace ==
  /\ at > 0
  /\ text' = RemoveAt(text, at) /\ at' = at - 1
  /\ halved' = (halved \/ text[at] >= 128)
  /\ UNCHANGED <<accepted, editVars, ringVars, recordVars>>

FeedEnter ==
  /\ accepted' = TRUE
  /\ UNCHANGED <<text, at, halved, editVars, ringVars, recordVars>>

\* read_line(): nothing until a line is accepted; then the line, and an empty editor.
ReadLine ==
  /\ accepted
  /\ text' = <<>> /\ at' = 0 /\ accepted' = FALSE /\ halved' = FALSE
  /\ UNCHANGED <<editVars, ringVars, recordVars>>

ReadNext == Type \/ FeedBackspace \/ FeedEnter \/ ReadLine

-----------------------------------------------------------------------------
\* KillRing::push() and rotate(); History::push() of the clipboard, which cuts at a byte.

Pushed(entries, bytes) == SubSeq(<<bytes>> \o entries, 1, Min({Len(entries) + 1, RingLimit}))

Kill ==
  /\ \E code \in Codes : ring' = Pushed(ring, Encoded(code)) /\ latest' = Encoded(code)
  /\ turn' = 0
  /\ UNCHANGED <<clips, copied, editVars, readVars, recordVars>>

Rotate ==
  /\ ring # <<>> /\ turn' = (turn + 1) % Len(ring) /\ latest' = <<>>
  /\ UNCHANGED <<ring, clips, copied, editVars, readVars, recordVars>>

Copy ==
  /\ \E code \in Codes :
       /\ clips' = Pushed(clips, SubSeq(Encoded(code), 1, Min({Len(Encoded(code)), ClipLimit})))
       /\ copied' = Encoded(code)
  /\ UNCHANGED <<ring, turn, latest, editVars, readVars, recordVars>>

RingNext == Kill \/ Rotate \/ Copy

\* yank() and paste()
Yank == IF ring = <<>> THEN <<>> ELSE ring[(turn % Len(ring)) + 1]
Paste == IF clips = <<>> THEN <<>> ELSE clips[1]

-----------------------------------------------------------------------------
\* Recorder.

\* Mutant of Kept: what an earlier recording held is kept.
KeptAll == events

\* The events start() leaves.
Kept == <<>>

Start ==
  /\ recording' = TRUE /\ events' = Kept /\ shown' = <<>>
  /\ UNCHANGED <<editVars, readVars, ringVars>>

Stop ==
  /\ recording' = FALSE
  /\ UNCHANGED <<events, shown, editVars, readVars, ringVars>>

\* record_output(): a piece of one character, or of two.
RecordOutput ==
  /\ \E codes \in {<<c>> : c \in Codes} \cup (Codes \X Codes) :
       LET bytes == FlattenSeq([i \in DOMAIN codes |-> Encoded(codes[i])])
       IN  IF recording
           THEN /\ Len(events) < MaxOutput
                /\ events' = Append(events, bytes) /\ shown' = shown \o bytes
           ELSE UNCHANGED <<events, shown>>
  /\ UNCHANGED <<recording, editVars, readVars, ringVars>>

RecordNext == Start \/ Stop \/ RecordOutput

Next == EditNext \/ ReadNext \/ RingNext \/ RecordNext

Spec == Init /\ [][Next]_vars

\* write_json(): a quote or a backslash is escaped, and the two line breaks (34, 92, 10 and
\* 13); every other control character is written as it is.
WriteJson(bytes) ==
  LET written(b) == IF b = 34 \/ b = 92 THEN <<92, b>>
                    ELSE IF b = 10 THEN <<92, 110>>
                    ELSE IF b = 13 THEN <<92, 114>> ELSE <<b>>
  IN  <<34>> \o FlattenSeq([i \in DOMAIN bytes |-> written(bytes[i])]) \o <<34>>

-----------------------------------------------------------------------------

\* What a JSON reader has read, with one byte more: a backslash says that the next byte
\* stands for another.
OneRead(state, byte) ==
  LET meant == IF byte = 110 THEN 10 ELSE IF byte = 114 THEN 13 ELSE byte
  IN  IF state.escaped THEN [escaped |-> FALSE, bytes |-> Append(state.bytes, meant)]
      ELSE IF byte = 92 THEN [escaped |-> TRUE, bytes |-> state.bytes]
      ELSE [escaped |-> FALSE, bytes |-> Append(state.bytes, byte)]

\* What it makes of a string in quotes, if it is one: a control character is not allowed
\* in a string.
ReadJson(bytes) ==
  LET inside == SubSeq(bytes, 2, Len(bytes) - 1)
      read[n \in 0..Len(inside)] ==
        IF n = 0 THEN [escaped |-> FALSE, bytes |-> <<>>] ELSE OneRead(read[n - 1], inside[n])
  IN  IF \E i \in DOMAIN inside : inside[i] < 32 THEN {} ELSE {read[Len(inside)].bytes}

\* The control characters write_json() has no escape for.
Unescaped(bytes) == \E i \in DOMAIN bytes : bytes[i] < 32 /\ bytes[i] \notin {10, 13}

\* Both editors keep the cursor behind what was typed, whatever was recalled from the
\* history, pasted or deleted; after a submission, going up begins at the newest entry;
\* the text stays UTF-8 until a backspace takes one byte of a longer character; the last
\* kill is what a yank gives, and the last copy, up to the limit, what a paste gives,
\* whatever was pushed out of the rings; a recording holds the output since the last
\* start(), and every piece of it reads back from the JSON it is saved as, if no control
\* character but a line break is in it.
EditorsExact ==
  /\ cursor = Len(line) /\ index <= Len(history) /\ (~ recalled => index = Len(history))
  /\ at = Len(text) /\ (~ halved => Valid(text))
  /\ latest # <<>> => Yank = latest
  /\ IsPrefix(Paste, copied) /\ (Len(Paste) < ClipLimit => Paste = copied)
  /\ FlattenSeq(events) = shown
  /\ \A i \in DOMAIN events : ~ Unescaped(events[i]) => ReadJson(WriteJson(events[i])) = {events[i]}

\* The manifest: the output of a session is saved as asciicast v2, whose events are JSON,
\* so every piece of it can be read back.
RecordingReadsBack == \A i \in DOMAIN events : ReadJson(WriteJson(events[i])) = {events[i]}

==================================================================================
