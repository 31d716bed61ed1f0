\* The task queue and the self-pipe, with more posts than the pipe holds, and the growth
\* of timers_ and idles_ under their own range-for.  A thread that posts beside the loop,
\* over blocks of two tasks, a first map that fills and is moved in itself and then to a
\* larger one, and a self-pipe that fills.
CONSTANTS
  Fds = {f1}
  WakeFd = wake
  PipeCap = 2
  MaxPosts = 4
  MaxTimers = 4
  MaxIdles = 2
  MaxTime = 2
  Delays <- MCDelays
  Posters = {p1}
  MaxTasks = 8
  PipeLimit = 2
  NodeSize = 2
  MapSize = 5
SPECIFICATION MCSpec
INVARIANTS
  NoLostWakeup
  TasksInOrder
  BlockedOnlyWhenFlooded
  OneShotOnce
  PassComplete
  PostersServed
PROPERTIES
  PostedRuns
  StopReturns
  PostCompletes
CHECK_DEADLOCK FALSE
