-------------------------------- MODULE InputKeys --------------------------------
(***************************************************************************)
(* ttytk::input::decode_seq() and what sends and takes its events: Puppet,    *)
(* KeyListener, MouseListener and ttyutils::keymap.  A sequence is a sequence  *)
(* of tokens: a number of decimal digits is the number, the rest are below.    *)
(***************************************************************************)
EXTENDS Integers, SequencesExt

Csi == -1
Semicolon == -2
Colon == -3
Less == -4
FinalU == -5      \* 'u'
Press == -6       \* 'M'
Release == -7     \* 'm'
Tilde == -8
TooBig == -9      \* digits that do not fit an unsigned
Letter == -10     \* any other character
Blank == 32

Failed == [kind |-> "error"]

-----------------------------------------------------------------------------

\* The first place of a token, or 0; what is before it, and after it.
Find(text, token) == SelectInSeq(text, LAMBDA t : t = token)
Before(text, token) == IF Find(text, token) = 0 THEN text ELSE SubSeq(text, 1, Find(text, token) - 1)
After(text, token) == SubSeq(text, Find(text, token) + 1, Len(text))

\* number(): the whole text is one number.
IsNumber(text) == Len(text) = 1 /\ text[1] >= 0

\* numbers(): all the fields, or nothing if one is no number.
Numbers(text) ==
  IF \A i \in DOMAIN text : IF i % 2 = 1 THEN IsNumber(<<text[i]>>) ELSE text[i] = Semicolon
  THEN IF Len(text) % 2 = 1 THEN [i \in 1..(Len(text) + 1) \div 2 |-> text[2 * i - 1]] ELSE <<>>
  ELSE <<>>

DecodeKey(parameters) ==
  LET code == Before(Before(parameters, Semicolon), Colon)
      rest == After(parameters, Semicolon)
      modifiers == Before(rest, Colon)
      type == After(rest, Colon)
      some == Find(parameters, Semicolon) > 0
      typed == some /\ Find(rest, Colon) > 0
  IN  IF /\ IsNumber(code) /\ (some => IsNumber(modifiers)) /\ (typed => IsNumber(type))
      THEN [kind |-> "key", code |-> code[1],
            modifiers |-> IF some /\ modifiers[1] > 0 THEN modifiers[1] - 1 ELSE 0,
            type |-> IF typed THEN type[1] ELSE 1]
      ELSE Failed

\* The bits of the first number: 1 and 2 the button, 4, 8 and 16 the modifiers, 32 motion.
DecodeMouse(parameters, final) ==
  LET values == Numbers(Tail(parameters))
  IN  IF Len(values) # 3 THEN Failed
      ELSE [kind |-> "mouse", button |-> values[1] % 4, modifiers |-> 4 * ((values[1] \div 4) % 8),
            x |-> values[2], y |-> values[3], pressed |-> final = Press,
            motion |-> (values[1] \div 32) % 2 = 1]

\* decode_seq()
DecodeSeq(sequence) ==
  LET final == Last(sequence)
      parameters == SubSeq(sequence, 2, Len(sequence) - 1)
  IN  CASE IsPrefix(<<Csi, 200, Tilde>>, sequence) /\ IsSuffix(<<Csi, 201, Tilde>>, sequence) ->
             [kind |-> "paste", text |-> SubSeq(sequence, 4, Len(sequence) - 3)]
        [] Len(sequence) >= 3 /\ sequence[1] = Csi /\ final = FinalU -> DecodeKey(parameters)
        [] Len(sequence) >= 3 /\ sequence[1] = Csi /\ final \in {Press, Release} /\ parameters[1] = Less ->
             DecodeMouse(parameters, final)
        [] OTHER -> Failed

-----------------------------------------------------------------------------

\* Mutant of SendKey: the modifiers as they are, not one more.
SendKeyUnshifted(key) == <<Csi, key.code, Semicolon, key.modifiers, FinalU>>

\* Puppet::send_key() and send_mouse(): neither says everything of the event.
SendKey(key) == <<Csi, key.code, Semicolon, key.modifiers + 1, FinalU>>

SendMouse(mouse) ==
  <<Csi, Less, mouse.button + mouse.modifiers, Semicolon, mouse.x, Semicolon, mouse.y,
    IF mouse.pressed THEN Press ELSE Release>>

\* MouseListener::dispatch(): the callback that runs, if it is set.
MouseCallback(mouse, hit) ==
  CASE ~ hit -> "none"
    [] hit /\ mouse.motion -> IF mouse.pressed THEN "on_drag" ELSE "on_move"
    [] hit /\ ~ mouse.motion -> IF mouse.pressed THEN "on_click" ELSE "none"

-----------------------------------------------------------------------------

\* keymap::parse_key(): the keys between single spaces; a notation is a sequence of
\* characters, numbers here.
ParseKey(notation) ==
  LET ends == {i \in DOMAIN notation : notation[i] = Blank} \cup {Len(notation) + 1}
      starts == {0} \cup {i \in DOMAIN notation : notation[i] = Blank}
      from == SetToSortSeq(starts, <)
  IN  [i \in DOMAIN from |-> SubSeq(notation, from[i] + 1, Min({e \in ends : e > from[i]}) - 1)]

\* Map::canonical(), by which bind() and lookup() keep an action.
Canonical(keys) == FlattenSeq([i \in DOMAIN keys |-> Append(keys[i], Blank)])

-----------------------------------------------------------------------------

\* What the puppet sends is decoded as the event it sent, but for the motion and the
\* event type, which are not in what it sends: a drag arrives as a click.  What is
\* decoded, sent again, stays what it is.
KeysRoundTrip(sequence) ==
  LET event == DecodeSeq(sequence)
  IN  /\ event.kind = "key" => DecodeSeq(SendKey(event)) = [event EXCEPT !.type = 1]
      /\ event.kind = "mouse" =>
           /\ DecodeSeq(SendMouse(event)) = [event EXCEPT !.motion = FALSE]
           /\ \A hit \in BOOLEAN :
                MouseCallback(event, hit) = "on_drag" =>
                  MouseCallback(DecodeSeq(SendMouse(event)), hit) = "on_click"

\* Two notations share a binding only if they are the same notation.
BindingsDistinct(notations) ==
  \A a, b \in notations : Canonical(ParseKey(a)) = Canonical(ParseKey(b)) <=> a = b

==================================================================================
