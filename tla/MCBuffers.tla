------------------------------- MODULE MCBuffers -------------------------------
(***************************************************************************)
(* What TTyPack keeps of a text, of a screen and of a stream, side by side:   *)
(* the undo tree, cell buffers, a virtual terminal, a terminal's parts and    *)
(* the parser.  In each behaviour one of them moves and the others stay as    *)
(* they began.                                                                *)
(***************************************************************************)
EXTENDS UndoHistory, VirtualTerm, TerminalParts, Automaton

CONSTANTS
  a, b  \* the texts other than the empty one

VARIABLES
  moves   \* the one that moves

allVars == <<moves, vars, virtualVars, partVars, parserVars>>

\* What the texts are does not matter.
Symmetry == Permutations({a, b})

MCInit ==
  /\ moves \in {"undo", "cells", "virtual", "damage", "others", "parser"}
  /\ Init /\ (moves = "undo" \/ text = Empty)
  /\ VirtualInit
  /\ moves \in {"cells", "virtual"} \/ (rows = 0 /\ columns = 0)
  /\ moves = "virtual" => rows <= 2
  /\ PartsInit
  /\ ParserInit

MCNext ==
  /\ UNCHANGED moves
  /\ \/ moves = "undo" /\ Next /\ UNCHANGED <<virtualVars, partVars, parserVars>>
     \/ /\ moves = "cells" /\ CellNext
        /\ UNCHANGED <<vars, cursorRow, cursorColumn, resized, partVars, parserVars>>
     \/ /\ moves = "virtual" /\ VirtualNext
        /\ rows' <= 2 /\ \A p \in DOMAIN cells' : cells'[p] \notin Wide
        /\ UNCHANGED <<vars, partVars, parserVars>>
     \/ /\ \/ moves = "damage" /\ DamageNext
           \/ moves = "others" /\ OthersNext
        /\ UNCHANGED <<vars, virtualVars, parserVars>>
     \/ moves = "parser" /\ ParserNext /\ UNCHANGED <<vars, virtualVars, partVars>>

MCSpec == MCInit /\ [][MCNext]_allVars
================================================================================
