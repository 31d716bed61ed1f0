\* The eight-bit string terminator.
\* One byte of each class feed_byte() distinguishes: BEL, LF, CAN, ESC, a
\* parameter, P, the bracket of CSI and of OSC, backslash, DEL, an eight-bit
\* control, DCS, CSI, ST, OSC and a byte that is none of these.
CONSTANTS
  Bytes = {7, 10, 24, 27, 49, 80, 91, 92, 93, 127, 132, 144, 155, 156, 157, 195}
  MaxBytes = 4
  MaxResets = 1
SPECIFICATION ParserSpec
PROPERTY StringEndsAtST8
CHECK_DEADLOCK FALSE
