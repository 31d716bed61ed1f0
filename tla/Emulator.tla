------------------------------- MODULE Emulator -------------------------------
(***************************************************************************)
(* ttyutils::term::Emulator: a grid of letters, a cursor and a scrollback,  *)
(* written by the bytes a child sends.  Each action is one item of feed():  *)
(* a byte, or a control sequence that is whole in its chunk.  A sequence    *)
(* that a chunk cuts off is dropped without effect, and its rest is text.   *)
(***************************************************************************)
EXTENDS Naturals, SequencesExt

CONSTANTS
  Letters,     \* what is printed
  Blank,       \* a space
  MaxRows,     \* bound: rows of the screen
  MaxColumns,  \* bound: columns of the screen
  Limit,       \* limit_ of the scrollback
  MaxLines     \* bound: lines ever scrolled off

ASSUME LimitsAssumption == MaxRows \in Nat /\ MaxColumns \in Nat /\ Limit \in Nat

VARIABLES
  rows, columns,   \* rows_ and columns_
  screen,          \* screen_: a sequence of lines
  row, column,     \* cursor_row_ and cursor_column_
  lines,           \* the scrollback
  crashed,         \* front() of an empty screen was read
  sheet,           \* history: what a printer with endless paper would have printed
  torn             \* history: something was erased or resized; the sheet is thrown away

emulatorVars == <<rows, columns, screen, row, column, lines, crashed, sheet, torn>>

BlankLine(n) == [c \in 1..n |-> Blank]

EmulatorInit ==
  /\ rows \in 0..MaxRows /\ columns \in 0..MaxColumns
  /\ screen = [r \in 1..rows |-> BlankLine(columns)]
  /\ row = 0 /\ column = 0 /\ lines = <<>> /\ crashed = FALSE
  /\ sheet = screen /\ torn = FALSE

EmulatorTypeOK ==
  /\ rows \in Nat /\ columns \in Nat /\ row \in Nat /\ column \in Nat
  /\ Len(screen) = rows /\ \A r \in 1..rows : screen[r] \in [1..columns -> Letters \cup {Blank}]
  /\ crashed \in BOOLEAN /\ torn \in BOOLEAN

-----------------------------------------------------------------------------

\* put() of a letter: the last column is written again and again.
PutLetter ==
  /\ ~ crashed
  /\ \E v \in Letters :
       IF rows = 0 \/ columns = 0 THEN UNCHANGED <<screen, column, sheet>>
       ELSE /\ screen' = [screen EXCEPT ![row + 1][column + 1] = v]
            /\ sheet' = IF torn THEN sheet
                        ELSE [sheet EXCEPT ![Len(sheet) - rows + row + 1][column + 1] = v]
            /\ column' = IF column + 1 < columns THEN column + 1 ELSE column
  /\ UNCHANGED <<rows, columns, row, lines, crashed, torn>>

CarriageReturn ==
  /\ ~ crashed
  /\ column' = 0
  /\ UNCHANGED <<rows, columns, screen, row, lines, crashed, sheet, torn>>

\* Scrollback::push()
Pushed(line) ==
  LET all == Append(lines, line)
  IN  IF Len(all) > Limit THEN Tail(all) ELSE all

\* Mutant of Scroll: the new last line is not cleared.
ScrollUncleared ==
  /\ Len(sheet) < MaxRows + MaxLines
  /\ lines' = Pushed(Head(screen))
  /\ screen' = Append(Tail(screen), Head(screen))
  /\ sheet' = IF torn THEN sheet ELSE Append(sheet, BlankLine(columns))
  /\ UNCHANGED <<row, crashed>>

\* put() of '\n' on the last row.
Scroll ==
  /\ Len(sheet) < MaxRows + MaxLines
  /\ lines' = Pushed(Head(screen))
  /\ screen' = Append(Tail(screen), BlankLine(columns))
  /\ sheet' = IF torn THEN sheet ELSE Append(sheet, BlankLine(columns))
  /\ UNCHANGED <<row, crashed>>

\* Without rows, front() of the empty screen is undefined, and so is the rotation.
ScrollNothing ==
  /\ crashed' \in BOOLEAN
  /\ UNCHANGED <<lines, screen, sheet, row>>

LineFeed ==
  /\ ~ crashed
  /\ \/ row + 1 < rows /\ row' = row + 1 /\ UNCHANGED <<screen, lines, sheet, crashed>>
     \/ row + 1 >= rows /\ rows > 0 /\ Scroll
     \/ rows = 0 /\ ScrollNothing
  /\ UNCHANGED <<rows, columns, column, torn>>

Clamp(n, size) == IF size = 0 THEN 0 ELSE Min({n, size - 1})

\* handle_csi(): 'H' and 'f' with their first two values, none or zero counting as one.
MoveTo ==
  /\ ~ crashed
  /\ \E first \in 1..MaxRows + 1, second \in 1..MaxColumns + 1 :
       row' = Clamp(first - 1, rows) /\ column' = Clamp(second - 1, columns)
  /\ UNCHANGED <<rows, columns, screen, lines, crashed, sheet, torn>>

\* 'J' with 2: the screen, and of the sheet what is on it.
EraseScreen ==
  /\ ~ crashed
  /\ screen' = [r \in 1..rows |-> BlankLine(columns)]
  /\ torn' = TRUE /\ sheet' = <<>>
  /\ UNCHANGED <<rows, columns, row, column, lines, crashed>>

\* 'K': the row from the cursor on.
EraseLine ==
  /\ ~ crashed
  /\ screen' = [r \in 1..rows |-> [c \in 1..columns |->
                  IF r = row + 1 /\ c > column THEN Blank ELSE screen[r][c]]]
  /\ torn' = TRUE /\ sheet' = <<>>
  /\ UNCHANGED <<rows, columns, row, column, lines, crashed>>

\* Mutant of Resize: the cursor stays where it was.
ResizeUnderCursor ==
  /\ ~ crashed
  /\ rows' \in 0..MaxRows /\ columns' \in 0..MaxColumns
  /\ screen' = [r \in 1..rows' |-> [c \in 1..columns' |->
                  IF r <= rows /\ c <= columns THEN screen[r][c] ELSE Blank]]
  /\ torn' = TRUE /\ sheet' = <<>>
  /\ UNCHANGED <<row, column, lines, crashed>>

\* resize(): cut or filled with spaces, at the bottom and at the right.
Resize ==
  /\ ~ crashed
  /\ rows' \in 0..MaxRows /\ columns' \in 0..MaxColumns
  /\ screen' = [r \in 1..rows' |-> [c \in 1..columns' |->
                  IF r <= rows /\ c <= columns THEN screen[r][c] ELSE Blank]]
  /\ row' = Clamp(row, rows') /\ column' = Clamp(column, columns')
  /\ torn' = TRUE /\ sheet' = <<>>
  /\ UNCHANGED <<lines, crashed>>

EmulatorNext ==
  \/ PutLetter \/ CarriageReturn \/ LineFeed
  \/ MoveTo \/ EraseScreen \/ EraseLine \/ Resize

EmulatorSpec == EmulatorInit /\ [][EmulatorNext]_emulatorVars

-----------------------------------------------------------------------------

\* put() and handle_csi() index the screen with the cursor: in whatever order text,
\* cursor movements and resizes come, it is inside, unless there is no row or column.
CursorInside ==
  /\ rows > 0 => row < rows
  /\ columns > 0 => column < columns

\* Until something is erased or resized, the scrollback and the screen are the end of
\* what a printer with endless paper would have printed: no line is lost, repeated or
\* out of place when it scrolls off, and the scrollback is as long as its limit allows.
SheetKept ==
  ~ torn =>
    LET off == SubSeq(sheet, 1, Len(sheet) - rows)
    IN  /\ screen = SubSeq(sheet, Len(sheet) - rows + 1, Len(sheet))
        /\ lines = SubSeq(off, Max({0, Len(off) - Limit}) + 1, Len(off))

\* Both, for feed() as a whole.
ScreenKept == EmulatorTypeOK /\ CursorInside /\ SheetKept

=============================================================================
