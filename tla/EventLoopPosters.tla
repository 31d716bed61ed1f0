-------------------------- MODULE EventLoopPosters --------------------------
(***************************************************************************)
(* loop::post() called from threads other than the loop's.  tasks_ is a    *)
(* std::deque that nothing protects, so its operations are split into the  *)
(* reads and writes another thread can come between, as libstdc++ makes    *)
(* them: elements lie in blocks of NodeSize, a map holds the blocks in     *)
(* order, and each end of the deque is a place in the map, the block found *)
(* there and the current element.  push_back() at the end of a block adds  *)
(* one, and moves the map's content, or the map, when no place is left;    *)
(* that writes both ends.  pop_front() writes start.  Of finish, the loop's *)
(* thread reads nothing but the current element.  Memory is assumed to     *)
(* keep program order, and what is freed to keep its content, which is the *)
(* mildest it can do.                                                      *)
(***************************************************************************)
EXTENDS Naturals, Sequences

CONSTANTS
  Posters,   \* threads that call post()
  MaxTasks,  \* bound: posts each of them makes
  PipeLimit, \* bytes the self-pipe holds before write() blocks
  NodeSize,  \* tasks in a block (16)
  MapSize    \* places of the first map (8)

ASSUME PostersAssumption ==
  /\ MaxTasks \in Nat /\ PipeLimit \in Nat \ {0}
  /\ NodeSize \in Nat \ {0} /\ MapSize \in Nat \ 0..2

VARIABLES
  ppc,     \* where each poster is in enqueue()
  count,   \* how many posts each poster has begun
  at,      \* the place of the element it constructs
  moved,   \* where _M_reallocate_map() has read the start, then where it moves both ends
  blocks,  \* what the blocks hold, in the order they were allocated
  nodes,   \* the maps allocated so far, one behind the other; 0 is no block
  base,    \* the map is what follows the first base places of nodes
  start, finish,
  bytes,   \* in the self-pipe
  lpc,     \* where the loop's thread is in run_once()
  going,   \* the place of the map pop_front() moves start to
  taken,   \* the task run_tasks() has moved out of the front
  called,  \* history: tasks in the order they were called
  raced    \* history: pop_front() changed the block while a push_back() moved the map

dequeVars == <<blocks, nodes, base, start, finish>>
posterVars == <<ppc, count, at, moved>>
threadVars == <<lpc, going, taken, called>>
postVars == <<posterVars, dequeVars, bytes, threadVars, raced>>

Task == Posters \X (1..MaxTasks)
NoTask == <<>>

EmptyBlock == [i \in 1..NodeSize |-> NoTask]

\* The place after cur in its block.
After(cur) == <<cur[1], cur[2] + 1>>

\* The last element of the block of one end.
Last(side) == <<side.block, NodeSize>>

NodeAt(n) == IF n \in DOMAIN nodes THEN nodes[n] ELSE 0

\* An element, or what is behind the end of a block.
Element(cur) ==
  IF cur[1] \in DOMAIN blocks /\ cur[2] <= NodeSize THEN blocks[cur[1]][cur[2]] ELSE NoTask

\* The deque begins in the middle of its map.
PostInit ==
  /\ ppc = [p \in Posters |-> "ready"]
  /\ count = [p \in Posters |-> 0]
  /\ at = [p \in Posters |-> <<1, 1>>]
  /\ moved = [p \in Posters |-> [start |-> 0, finish |-> 0]]
  /\ blocks = <<EmptyBlock>> /\ base = 0
  /\ LET middle == (MapSize - 1) \div 2 + 1
     IN  /\ nodes = [n \in 1..MapSize |-> IF n = middle THEN 1 ELSE 0]
         /\ start = [node |-> middle, block |-> 1, cur |-> <<1, 1>>] /\ finish = start
  /\ bytes = 0 /\ lpc = "first" /\ going = 0 /\ taken = NoTask /\ called = <<>>
  /\ raced = FALSE

-----------------------------------------------------------------------------
(* enqueue() in a poster's thread.                                           *)

Begin(p) ==
  /\ ppc[p] = "ready" /\ count[p] < MaxTasks /\ lpc # "dead"
  /\ ppc' = [ppc EXCEPT ![p] = "reading"]
  /\ count' = [count EXCEPT ![p] = @ + 1]
  /\ UNCHANGED <<at, moved, dequeVars, bytes, threadVars, raced>>

ReadFinish(p) ==
  /\ ppc[p] = "reading"
  /\ at' = [at EXCEPT ![p] = finish.cur]
  /\ ppc' = [ppc EXCEPT ![p] = IF finish.cur = Last(finish) THEN "full" ELSE "writing"]
  /\ UNCHANGED <<count, moved, dequeVars, bytes, threadVars, raced>>

\* _M_reallocate_map() reads from where to where the map is in use.
ReadMap(p) ==
  /\ ppc[p] = "full" /\ finish.node >= Len(nodes)
  /\ moved' = [moved EXCEPT ![p].start = start.node]
  /\ ppc' = [ppc EXCEPT ![p] = "copying"]
  /\ UNCHANGED <<count, at, dequeVars, bytes, threadVars, raced>>

\* The blocks in use are copied to the middle of the map, if it is large enough, or of a
\* new one.
CopyMap(p) ==
  /\ ppc[p] = "copying"
  /\ LET from == moved[p].start
         used == finish.node - from + 1
         size == Len(nodes) - base
         roomy == size > 2 * (used + 1)
         all == IF roomy THEN size ELSE 2 * size + 2
         to == base' + (all - (used + 1)) \div 2 + 1
     IN  /\ base' = IF roomy THEN base ELSE Len(nodes)
         /\ nodes' = [n \in 1..base' + all |->
                        IF n \in to..to + used - 1 THEN NodeAt(from + (n - to)) ELSE NodeAt(n)]
         /\ moved' = [moved EXCEPT ![p] = [start |-> to, finish |-> to + used - 1]]
  /\ ppc' = [ppc EXCEPT ![p] = "moving"]
  /\ raced' = (raced \/ lpc \in {"firstnode", "lastnode"})
  /\ UNCHANGED <<count, at, blocks, start, finish, bytes, threadVars>>

MoveNode(p) ==
  /\ ppc[p] = "moving"
  /\ start' = [start EXCEPT !.node = moved[p].start]
  /\ ppc' = [ppc EXCEPT ![p] = "setting"]
  /\ UNCHANGED <<count, at, moved, blocks, nodes, base, finish, bytes, threadVars, raced>>

MoveBlock(p) ==
  /\ ppc[p] = "setting"
  /\ start' = [start EXCEPT !.block = NodeAt(moved[p].start)]
  /\ ppc' = [ppc EXCEPT ![p] = "finishing"]
  /\ UNCHANGED <<count, at, moved, blocks, nodes, base, finish, bytes, threadVars, raced>>

MoveFinish(p) ==
  /\ ppc[p] = "finishing"
  /\ finish' = [finish EXCEPT !.node = moved[p].finish, !.block = NodeAt(moved[p].finish)]
  /\ ppc' = [ppc EXCEPT ![p] = "full"]
  /\ UNCHANGED <<count, at, moved, blocks, nodes, base, start, bytes, threadVars, raced>>

AddNode(p) ==
  /\ ppc[p] = "full" /\ finish.node < Len(nodes)
  /\ blocks' = Append(blocks, EmptyBlock)
  /\ nodes' = [nodes EXCEPT ![finish.node + 1] = Len(blocks')]
  /\ ppc' = [ppc EXCEPT ![p] = "writing"]
  /\ UNCHANGED <<count, at, moved, base, start, finish, bytes, threadVars, raced>>

WriteElement(p) ==
  /\ ppc[p] = "writing"
  /\ blocks' = [blocks EXCEPT ![at[p][1]][at[p][2]] = <<p, count[p]>>]
  /\ ppc' = [ppc EXCEPT ![p] = "advancing"]
  /\ UNCHANGED <<count, at, moved, nodes, base, start, finish, bytes, threadVars, raced>>

AdvanceFinish(p) ==
  /\ ppc[p] = "advancing" /\ at[p] # Last(finish)
  /\ finish' = [finish EXCEPT !.cur = After(at[p])]
  /\ ppc' = [ppc EXCEPT ![p] = "waking"]
  /\ UNCHANGED <<count, at, moved, blocks, nodes, base, start, bytes, threadVars, raced>>

\* The end is in the new block: its place in the map, then the element.
NextNode(p) ==
  /\ ppc[p] = "advancing" /\ at[p] = Last(finish)
  /\ finish' = [finish EXCEPT !.node = @ + 1, !.block = NodeAt(finish.node + 1)]
  /\ ppc' = [ppc EXCEPT ![p] = "entering"]
  /\ UNCHANGED <<count, at, moved, blocks, nodes, base, start, bytes, threadVars, raced>>

EnterNext(p) ==
  /\ ppc[p] = "entering"
  /\ finish' = [finish EXCEPT !.cur = <<finish.block, 1>>]
  /\ ppc' = [ppc EXCEPT ![p] = "waking"]
  /\ UNCHANGED <<count, at, moved, blocks, nodes, base, start, bytes, threadVars, raced>>

\* The write end of the self-pipe blocks while the pipe is full.
WriteWakeup(p) ==
  /\ ppc[p] = "waking" /\ bytes < PipeLimit
  /\ bytes' = bytes + 1
  /\ ppc' = [ppc EXCEPT ![p] = "ready"]
  /\ UNCHANGED <<count, at, moved, dequeVars, threadVars, raced>>

\* What a thread inside post() does.
Posting(p) ==
  \/ ReadFinish(p) \/ ReadMap(p) \/ CopyMap(p) \/ MoveNode(p) \/ MoveBlock(p) \/ MoveFinish(p)
  \/ AddNode(p) \/ WriteElement(p) \/ AdvanceFinish(p) \/ NextNode(p) \/ EnterNext(p)
  \/ WriteWakeup(p)

-----------------------------------------------------------------------------
(* run_once() in the loop's thread, as far as posted tasks go.               *)

\* The task is moved out of the front element before pop_front().  To call what is no
\* task ends the program.
TakeFront ==
  /\ lpc \in {"first", "last"} /\ start.cur # finish.cur
  /\ taken' = Element(start.cur)
  /\ IF taken' = NoTask THEN lpc' = "dead" /\ UNCHANGED blocks
     ELSE /\ lpc' = IF lpc = "first" THEN "firstpop" ELSE "lastpop"
          /\ blocks' = [blocks EXCEPT ![start.cur[1]][start.cur[2]] = NoTask]
  /\ UNCHANGED <<posterVars, nodes, base, start, finish, bytes, going, called, raced>>

\* The task is called; the loop goes on where it was.
CallTaken ==
  /\ called' = Append(called, taken) /\ taken' = NoTask
  /\ lpc' = IF lpc \in {"firstpop", "firstblock"} THEN "first" ELSE "last"
  /\ UNCHANGED <<posterVars, blocks, nodes, base, finish, bytes, going, raced>>

\* Mutant of PopAndCall: the task is called but stays in the queue.
CallWithoutPop ==
  /\ lpc \in {"firstpop", "lastpop"} /\ start.cur # Last(start)
  /\ UNCHANGED start /\ CallTaken

PopAndCall ==
  /\ lpc \in {"firstpop", "lastpop"} /\ start.cur # Last(start)
  /\ start' = [start EXCEPT !.cur = After(@)]
  /\ CallTaken

\* pop_front() of the last element of a block frees the block; start moves on in the map,
\* to the block there, to its first element.
LeaveNode ==
  /\ lpc \in {"firstpop", "lastpop"} /\ start.cur = Last(start)
  /\ going' = start.node + 1 /\ start' = [start EXCEPT !.node = going']
  /\ lpc' = IF lpc = "firstpop" THEN "firstnode" ELSE "lastnode"
  /\ raced' = (raced \/ \E p \in Posters : ppc[p] \in {"copying", "moving", "setting"})
  /\ UNCHANGED <<posterVars, blocks, nodes, base, finish, bytes, taken, called>>

ReadBlock ==
  /\ lpc \in {"firstnode", "lastnode"}
  /\ start' = [start EXCEPT !.block = NodeAt(going)]
  /\ lpc' = IF lpc = "firstnode" THEN "firstblock" ELSE "lastblock"
  /\ UNCHANGED <<posterVars, blocks, nodes, base, finish, bytes, going, taken, called, raced>>

EnterAndCall ==
  /\ lpc \in {"firstblock", "lastblock"}
  /\ start' = [start EXCEPT !.cur = <<start.block, 1>>]
  /\ CallTaken

GoToPoll ==
  /\ lpc = "first" /\ start.cur = finish.cur
  /\ lpc' = "poll"
  /\ UNCHANGED <<posterVars, dequeVars, bytes, going, taken, called, raced>>

PollPipe ==
  /\ lpc = "poll"
  /\ lpc' = IF bytes > 0 THEN "dispatch" ELSE "last"
  /\ UNCHANGED <<posterVars, dequeVars, bytes, going, taken, called, raced>>

\* Mutant of DrainPipe: the bytes are not read.
DrainNothing ==
  /\ lpc = "dispatch"
  /\ lpc' = "last"
  /\ UNCHANGED <<posterVars, dequeVars, bytes, going, taken, called, raced>>

\* Mutant of DrainPipe: poll() is called again after draining.
DrainAndPollAgain ==
  /\ lpc = "dispatch"
  /\ bytes' = 0 /\ lpc' = "poll"
  /\ UNCHANGED <<posterVars, dequeVars, going, taken, called, raced>>

DrainPipe ==
  /\ lpc = "dispatch"
  /\ bytes' = 0 /\ lpc' = "last"
  /\ UNCHANGED <<posterVars, dequeVars, going, taken, called, raced>>

\* Mutant of EndTurn: what is still queued is cleared.
EndAndClear ==
  /\ lpc = "last"
  /\ start' = finish /\ lpc' = "first"
  /\ UNCHANGED <<posterVars, blocks, nodes, base, finish, bytes, going, taken, called, raced>>

EndTurn ==
  /\ lpc = "last" /\ start.cur = finish.cur
  /\ lpc' = "first"
  /\ UNCHANGED <<posterVars, dequeVars, bytes, going, taken, called, raced>>

LoopThread ==
  \/ TakeFront \/ PopAndCall \/ LeaveNode \/ ReadBlock \/ EnterAndCall
  \/ GoToPoll \/ PollPipe \/ DrainPipe \/ EndTurn

PostNext == LoopThread \/ \E p \in Posters : lpc # "dead" /\ (Begin(p) \/ Posting(p))

PostSpec == PostInit /\ [][PostNext]_postVars

\* Threads keep running; a blocked write() proceeds when the pipe has room.
PostFairness ==
  /\ WF_postVars(LoopThread)
  /\ \A p \in Posters : WF_postVars(lpc # "dead" /\ Posting(p))

-----------------------------------------------------------------------------

Before(a, b) == a[1] < b[1] \/ (a[1] = b[1] /\ a[2] < b[2])

Queued ==
  {blocks[a[1]][a[2]] :
     a \in {c \in (DOMAIN blocks) \X (1..NodeSize) :
              ~ Before(c, start.cur) /\ Before(c, finish.cur)}}

Called == {called[i] : i \in DOMAIN called}

\* The posts of p whose push_back() has returned.
Pushed(p) ==
  {<<p, n>> : n \in 1..(IF ppc[p] \in {"waking", "ready"} THEN count[p] ELSE count[p] - 1)}

\* A task whose push_back() has returned is in the queue, in the loop's hands or
\* has run: no other thread's post makes it disappear.
NoPostLost ==
  \A p \in Posters : Pushed(p) \subseteq Queued \cup Called \cup {taken}

\* The loop's thread calls nothing but tasks that were posted, so it goes on.
OnlyTasksCalled == lpc # "dead"

\* The loop does not sleep on a finished post: when it is at poll() with an empty
\* self-pipe, only a post still on its way to write() can be in the queue.
AsleepMeansServed ==
  lpc = "poll" /\ bytes = 0 =>
    \A p \in Posters : ppc[p] = "ready" => Pushed(p) \cap Queued \subseteq Called

\* A poster's tasks run in the order it posted them, and none twice.
PosterOrder ==
  \A i, j \in DOMAIN called :
    i < j /\ called[i][1] = called[j][1] => called[i][2] < called[j][2]

\* What one thread posts beside the loop is neither lost, slept on, repeated nor
\* reordered, at every interleaving of the two threads' reads and writes of tasks_, but
\* those where pop_front() changes the block while push_back() moves the map.
PostersServed == ~ raced => NoPostLost /\ OnlyTasksCalled /\ AsleepMeansServed /\ PosterOrder

\* Every post() returns and its task runs, unless that happened: a thread that posts
\* MaxTasks times at most is again and again out of post() with all its tasks called.  The
\* full pipe only ever delays a thread that is not the loop's.
PostCompletes ==
  \A p \in Posters : []<>((ppc[p] = "ready" /\ Pushed(p) \subseteq Called) \/ raced)

=============================================================================
