\* One thread that posts, beside the loop's, until the map has no place left.
CONSTANTS
  Posters = {p1}
  MaxTasks = 8
  PipeLimit = 2
  NodeSize = 2
  MapSize = 5
SPECIFICATION PostSpec
INVARIANT OnlyTasksCalled
CHECK_DEADLOCK FALSE
