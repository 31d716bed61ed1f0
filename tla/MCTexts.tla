-------------------------------- MODULE MCTexts --------------------------------
(* Instances of Texts and TextBuffer for TLC: a behaviour is of one of the two.    *)
EXTENDS TextBuffer, TextTools

VARIABLE part

MCValues == {<<"other">>, <<"lf">>}

MCPlaces == {Pos(0, 0), Pos(1, 0)}

Symmetry == Permutations(Buffers) \cup Permutations(Cells)

\* While the buffers move, the text is one that search is not checked on.
MCInit ==
  /\ Init
  /\ \/ part = "typed" /\ TextInit
     \/ part = "buffers" /\ typed = <<"cr">>

MCNext ==
  \/ part = "typed" /\ Type /\ UNCHANGED <<part, vars>>
  \/ part = "buffers" /\ Next /\ UNCHANGED <<part, typed>>

MCSpec == MCInit /\ [][MCNext]_<<part, typed, vars>>
================================================================================
