\* Trees of four nodes over three texts; damage of two rows of four cells;
\* cell buffers of up to three rows and two columns; a virtual terminal of two by two.
\* One byte of each class feed_byte() distinguishes: BEL, LF, CAN, ESC, a
\* parameter, P, the bracket of CSI and of OSC, backslash, DEL, an eight-bit
\* control, DCS, CSI, ST, OSC and a byte that is none of these.
CONSTANTS
  Texts = {empty, a, b}
  Empty = empty
  a = a
  b = b
  MaxNodes = 4
  MaxDepth = 2
  MaxMarks = 1
  Narrow = {space, n}
  Wide = {w}
  Blank = space
  Continuation = tail
  MaxRows = 3
  MaxColumns = 2
  Rows = 2
  Columns = 4
  PrivateModes = {1, 7}
  Stops = {8, 16, 24}
  MaxPushes = 4
  Bytes = {7, 10, 24, 27, 49, 80, 91, 92, 93, 127, 132, 144, 155, 156, 157, 195}
  MaxBytes = 4
  MaxResets = 1
SPECIFICATION MCSpec
SYMMETRY Symmetry
INVARIANTS
  TreeWellFormed
  EdgesMatch
  ShowsCurrent
  ScrollMoves
  ScrollKeepsWide
  VirtualCursorOnScreen
  PartsExact
  FreshSequence
  NothingHeldBack
  CsiCarriesBytes
PROPERTIES
  KeepsBranches
  ChunkIndependent
CHECK_DEADLOCK FALSE
