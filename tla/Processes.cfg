\* Three messages through a socket of five bytes; three objects and three descriptors;
\* three children and two ids, so that one comes back; five changes of the size through a
\* pipe of three; a throttle whose sums wrap; a screen of two by two.
CONSTANTS
  Payloads <- SomePayloads
  MaxMessages = 3
  WireLimit = 5
  Objects = {1, 2, 3}
  Files = {3, 4, 5}
  Kinds = {"pty", "channel", "listening", "server", "link", "serial", "port"}
  Addresses = 2
  Handles = {1, 2, 3}
  Pids = {100, 101}
  MaxChildren = 3
  PipeLimit = 3
  Chunk = 2
  MaxChanges = 5
  Sizes = {0, 3, 4, 9}
  MaxEvents = 4
  MaxSubscribers = 2
  Capacity = 3
  Largest = 7
  Names = {"a", "b", "c"}
  MaxSessions = 3
  Codes = {0, 7}
  DataBits = {4, 5, 7, 8}
  Parities = {"N", "E", "O", "M"}
  StopBits = {1, 2, 3}
  Letters = {x, y}
  Blank = space
  MaxRows = 2
  MaxColumns = 2
  Limit = 1
  MaxLines = 2
SPECIFICATION MCSpec
INVARIANTS
  FramesKept
  DescriptorsOwned
  JobsNameTheirChild
  SizeChangeKept
  ServicesExact
  ScreenKept
CHECK_DEADLOCK FALSE
