------------------------------- MODULE Interaction -------------------------------
(***************************************************************************)
(* What stands between a program and its user: bytes and keys, command         *)
(* history, line editors, focus and widgets, completion and configuration.     *)
(* In each behaviour one part moves; a pure reader is given every short input. *)
(***************************************************************************)
EXTENDS Utf8, InputKeys, Lookups, WidgetLayout

CONSTANTS
  Readers,                            \* inputs of the pure readers: [part, from, with, most]
  Shells, Texts, Long, Broken, MaxAppends,                            \* HistoryFile
  Codes, RingLimit, ClipLimit, MaxLine, MaxLines, MaxOutput,          \* LineEditing
  Widgets, Roots, Skipped, MaxChains,                                 \* FocusChains
  Tabs, Rows, Paths, Height, Width, Amounts, Totals, Inputs, Masks, MaxTasks  \* Views

\* A line torn by another process reads back as no text.
ASSUME HistoryAssumption == "torn" \notin Texts

\* What is typed are characters; a ring keeps at least one entry.
ASSUME EditorsAssumption ==
  /\ \A c \in Codes : c \in Nat /\ c <= 1114111 /\ ~ Surrogate(c)
  /\ RingLimit \in Nat \ {0} /\ ClipLimit \in Nat

\* Widgets are numbered from 1, as they are made.
ASSUME FocusAssumption ==
  Widgets \subseteq Nat \ {0} /\ IsFiniteSet(Widgets) /\ Roots \subseteq Widgets

\* A pager shows something of a text, and no amount is a fraction.
ASSUME ViewsAssumption ==
  /\ Rows \in Nat \ {0} /\ Height \in Nat \ {0} /\ Width \in Nat
  /\ Amounts \subseteq Int /\ Totals \subseteq Int

\* Coordinates are numbers.
ASSUME LayoutAssumption ==
  /\ Places \subseteq Int \X Int /\ Ratios \subseteq Int
  /\ \A r \in Readers : r.part = "layout" => r.from \in Seq(Int) /\ r.with \subseteq Int

VARIABLES
  part, given,
  merge, file, writing, loaded, since, appends, odd,
  line, saved, history, cursor, index, recalled, text, at, accepted, halved,
  ring, turn, latest, clips, copied, recording, events, shown,
  children, chain, forward, backward, focused, scopes, calm, last,
  tabs, selectedTab, chosenTab, lines, offset, rows, row, picked, rowKnown,
  policy, expanded, single, total, value, raised, input, mask, masked,
  progress, tasks, reserved

H == INSTANCE HistoryFile WITH entries <- loaded
L == INSTANCE LineEditing WITH Encoded <- Encode, Valid <- Validate
F == INSTANCE FocusChains
V == INSTANCE Views

historyVars == <<merge, file, writing, loaded, since, appends, odd>>
editorVars == <<line, saved, history, cursor, index, recalled, text, at, accepted, halved,
  ring, turn, latest, clips, copied, recording, events, shown>>
focusVars == <<children, chain, forward, backward, focused, scopes, calm, last>>
viewVars == <<tabs, selectedTab, chosenTab, lines, offset, rows, row, picked, rowKnown,
  policy, expanded, single, total, value, raised, input, mask, masked, progress, tasks, reserved>>
vars == <<part, given, historyVars, editorVars, focusVars, viewVars>>

Grow ==
  /\ \E r \in Readers :
       /\ part = r.part /\ IsPrefix(r.from, given) /\ Len(given) < r.most
       /\ \E c \in r.with : given' = Append(given, c)
  /\ UNCHANGED <<part, historyVars, editorVars, focusVars, viewVars>>

Init ==
  /\ \/ \E r \in Readers : part = r.part /\ given = r.from
     \/ /\ part \in {"history", "edit", "read", "rings", "record", "focus",
                     "tabs", "pager", "list", "tree", "bar", "input", "tasks"}
        /\ given = <<>>
  /\ H!Init /\ L!Init /\ F!Init /\ V!Init
  /\ part # "history" => merge = "all"
  /\ part # "focus" => chain.root = CHOOSE r \in Roots : TRUE

Next ==
  \/ Grow
  \/ /\ UNCHANGED <<part, given>>
     /\ \/ /\ part = "history" /\ H!Next
           /\ UNCHANGED <<editorVars, focusVars, viewVars>>
        \/ /\ \/ part = "edit" /\ L!EditNext
              \/ part = "read" /\ L!ReadNext
              \/ part = "rings" /\ L!RingNext
              \/ part = "record" /\ L!RecordNext
           /\ UNCHANGED <<historyVars, focusVars, viewVars>>
        \/ part = "focus" /\ F!Next /\ UNCHANGED <<historyVars, editorVars, viewVars>>
        \/ /\ \/ part = "tabs" /\ V!TabNext
              \/ part = "pager" /\ V!PagerNext
              \/ part = "list" /\ V!ListNext
              \/ part = "tree" /\ V!TreeNext
              \/ part = "bar" /\ V!BarNext
              \/ part = "input" /\ V!InputNext
              \/ part = "tasks" /\ V!TaskNext
           /\ UNCHANGED <<historyVars, editorVars, focusVars>>

Spec == Init /\ [][Next]_vars

-----------------------------------------------------------------------------

Short(characters, n) == UNION {[1..k -> characters] : k \in 0..n}

Words ==
  <<<<>>, <<1>>, <<2>>, <<2, 1>>, <<1, 2>>, <<1, 1>>, <<3, 1, 2>>, <<1, 2, 1>>, <<1, 3, 2>>, <<2, 1, 3>>>>

Keys == [scope |-> 1, name |-> 2, types |-> 3, words |-> 4]

\* Every reader agrees with its reference on every input that is tried: the UTF-8
\* decoders with the table of the standard, and keys, completion, configuration,
\* validators and grammars with what their modules state.
ReadersExact ==
  /\ part = "bytes" => DecodersAgree(given)
  /\ part = "tokens" => KeysRoundTrip(given)
  /\ part = "notation" => BindingsDistinct({given} \cup Short({32, 97}, 3))
  /\ part = "query" => CompletionExact(Words, given)
  /\ part = "line" => ConfigExact(given)
  /\ part = "class" => \A t \in Short({45, 97, 98, 99}, 2) : ValidatorExact(given, t)
  /\ part = "pairs" => GrammarExact(given, Keys)

\* The file of several shells (stated in HistoryFile).
HistoryKept == H!HistoryKept

\* The line editors, their rings and the recorder (stated in LineEditing).
EditorsExact == L!EditorsExact

\* What is recorded can be read back, escape sequences included (stated in LineEditing).
RecordingReadsBack == L!RecordingReadsBack

\* Focus, what views keep beside their models, and boxes (stated in FocusChains, Views and
\* WidgetLayout).
WidgetsExact ==
  /\ F!FocusExact
  /\ V!ViewsExact
  /\ part = "layout" /\ Len(given) = 4 =>
       LayoutTiles([x |-> given[1], y |-> 1, width |-> given[2], height |-> given[3]],
                     IF given[4] < 1 THEN 1 ELSE given[4])

-----------------------------------------------------------------------------
(* Values for TLC.                                                          *)

\* What the tables of the code say of the bytes and code points that are tried.
MCCp437 ==
  [b \in {128, 143, 160, 191, 194, 224, 237, 239, 240, 244, 255} |->
     CASE b = 128 -> 199 [] b = 143 -> 197 [] b = 160 -> 225 [] b = 191 -> 9488 [] b = 194 -> 9516
       [] b = 224 -> 945 [] b = 237 -> 966 [] b = 239 -> 8745 [] b = 240 -> 8801 [] b = 244 -> 8992
       [] b = 255 -> 160]

MCWide(c) == c \in 53248..54271 \/ c = 65504 \/ c \in 131072..196605 \/ c \in 196608..262141

\* What a reader is given begins with from; with are the characters that are added, and
\* most is how many there are at most.
MCReaders ==
  {[part |-> "bytes", from |-> <<>>, with |-> {65, 127, 128, 143, 160, 191, 194, 224, 237, 239, 240, 244, 255}, most |-> 4],
   [part |-> "tokens", from |-> <<Csi, Less>>,
    with |-> {0, 39, Semicolon, Press, Release}, most |-> 8],
   [part |-> "tokens", from |-> <<Csi>>,
    with |-> {0, 39, TooBig, Semicolon, Colon, FinalU, Letter}, most |-> 6],
   [part |-> "tokens", from |-> <<Csi, 200, Tilde>>, with |-> {1, Csi, 201, Tilde}, most |-> 8],
   [part |-> "notation", from |-> <<>>, with |-> {32, 97, 98}, most |-> 4],
   [part |-> "query", from |-> <<>>, with |-> {1, 2, 3}, most |-> 4],
   [part |-> "line", from |-> <<>>, with |-> {32, 34, 50, 61, 97, 116}, most |-> 5],
   [part |-> "class", from |-> <<>>, with |-> {45, 91, 97, 98, 99}, most |-> 4],
   [part |-> "pairs", from |-> <<>>, with |-> {1, 2, 3, 5} \X {1, 2, 3, 5}, most |-> 3],
   [part |-> "layout", from |-> <<>>, with |-> -1..5, most |-> 4]}

MCPlaces == (-2..9) \X (-2..9)
MCRatios == {-1, 0, 33, 50, 100, 101}

MCAmounts == {-2, 1, 3, 7}
MCTotals == {-1, 0, 2, 5}

MCInputs == {<<>>, <<49>>, <<97>>, <<97, 49>>, <<49, 49>>}
MCMasks == {<<>>, <<57>>, <<88, 57>>}

==================================================================================
