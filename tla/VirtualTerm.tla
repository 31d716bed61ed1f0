------------------------------ MODULE VirtualTerm ------------------------------
(***************************************************************************)
(* ttytk::VirtualTerm: the text and control callbacks of its Automaton      *)
(* write a CellBuffer, which its owner reaches through screen() and may      *)
(* resize, clear, scroll or write at any time between two inputs.           *)
(***************************************************************************)
EXTENDS CellBuffer

VARIABLES
  cursorRow, cursorColumn,  \* row_ and column_
  resized                   \* history: the owner resized the screen

cursor == <<cursorRow, cursorColumn>>

\* Variables before CellInit of the cell buffer: the constructor sizes it.
VirtualInit == CellInit /\ cursorRow = 0 /\ cursorColumn = 0 /\ resized = FALSE

\* Mutant of Advanced: no wrap.
AdvancedOff ==
  cursorColumn' = cursorColumn + 1 /\ cursorRow' = cursorRow

\* ++column_ == columns(): the next row, or the same one if it is the last.
Advanced ==
  IF cursorColumn + 1 = columns
  THEN /\ cursorColumn' = 0
       /\ cursorRow' = IF cursorRow + 1 < rows THEN cursorRow + 1 ELSE cursorRow
  ELSE cursorColumn' = cursorColumn + 1 /\ cursorRow' = cursorRow

\* put_text() of one byte; put() ignores a place off the screen.
PutText ==
  /\ phase = "idle" /\ rows > 0 /\ columns > 0
  /\ cursorColumn <= MaxColumns
  /\ \E g \in Narrow : cells' = With(cursorRow, cursorColumn, g)
  /\ Advanced
  /\ saved' = cells'
  /\ UNCHANGED <<rows, columns, phase, top, bottom, shift, up, row, resized>>

\* on_control
NewLine ==
  /\ phase = "idle"
  /\ cursorColumn' = 0
  /\ cursorRow' = IF cursorRow + 1 < rows THEN cursorRow + 1 ELSE cursorRow
  /\ UNCHANGED <<cellVars, resized>>

Return ==
  /\ phase = "idle"
  /\ cursorColumn' = 0
  /\ UNCHANGED <<cellVars, cursorRow, resized>>

Backspace ==
  /\ phase = "idle" /\ cursorColumn > 0
  /\ cursorColumn' = cursorColumn - 1
  /\ UNCHANGED <<cellVars, cursorRow, resized>>

\* The owner, through screen().
Owner ==
  /\ CellNext
  /\ resized' = (resized \/ <<rows, columns>>' # <<rows, columns>>)
  /\ UNCHANGED cursor

VirtualNext == PutText \/ NewLine \/ Return \/ Backspace \/ Owner

virtualVars == <<cellVars, cursorRow, cursorColumn, resized>>

VirtualSpec == VirtualInit /\ [][VirtualNext]_virtualVars

\* As long as the owner leaves the size alone, the cursor is on the screen, so that
\* every byte of text is shown: the automaton's callbacks keep it there between them.
\* A screen that was made smaller under it shows nothing until a '\n' or a '\r'.
VirtualCursorOnScreen ==
  ~ resized /\ rows > 0 /\ columns > 0 => cursorRow < rows /\ cursorColumn < columns

=============================================================================
