\* Two threads that post, beside the loop's.
CONSTANTS
  Posters = {p1, p2}
  MaxTasks = 1
  PipeLimit = 2
  NodeSize = 2
  MapSize = 5
SPECIFICATION PostSpec
INVARIANT NoPostLost
CHECK_DEADLOCK FALSE
