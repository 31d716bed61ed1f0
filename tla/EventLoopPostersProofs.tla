------------------------ MODULE EventLoopPostersProofs ------------------------
(***************************************************************************)
(* One thread that posts beside the loop's, for any number of posts, a       *)
(* self-pipe, blocks and a first map of any size.                            *)
(***************************************************************************)
EXTENDS EventLoopPosters, SequenceTheorems, TLAPS

Moving == {"copying", "moving", "setting", "finishing"}
PosterPCs == {"ready", "reading", "full", "writing", "advancing", "entering", "waking"} \cup Moving
AtNode == {"firstnode", "lastnode"}
AtBlock == {"firstblock", "lastblock"}
Holding == {"firstpop", "lastpop"} \cup AtNode \cup AtBlock
LoopPCs == {"first", "poll", "dispatch", "last"} \cup Holding

Cell == (Nat \ {0}) \X (1..NodeSize)
End == [node : Nat, block : Nat, cur : Cell]
Block == [1..NodeSize -> Task \cup {NoTask}]

\* The how many-th element a cell is, from the first of the first block.
Number(c) == (c[1] - 1) * NodeSize + c[2]

\* How many push_back()s of p have returned.
Returned(p) == IF ppc[p] \in {"waking", "ready"} THEN count[p] ELSE count[p] - 1

ThreadTypes(p) ==
  /\ ppc \in [Posters -> PosterPCs] /\ lpc \in LoopPCs
  /\ count \in [Posters -> 0..MaxTasks] /\ (ppc[p] # "ready" => count[p] > 0)
  /\ at \in [Posters -> Cell] /\ moved \in [Posters -> [start : Nat, finish : Nat]]
  /\ bytes \in 0..PipeLimit /\ called \in Seq(Task)

DequeTypes ==
  /\ blocks \in Seq(Block) /\ nodes \in Seq(Nat) /\ base \in Nat /\ going \in Nat
  /\ start \in End /\ finish \in End

\* Which block the first element is in, and where the map has it and the last.
FirstBlock == IF lpc \in AtNode THEN start.block + 1 ELSE start.block
FirstNode(p) == IF ppc[p] = "moving" THEN moved[p].start ELSE start.node
LastNode(p) == IF ppc[p] \in {"moving", "setting", "finishing"} THEN moved[p].finish ELSE finish.node

\* The blocks in use are in the map in their order.
MapInv(p) ==
  /\ base < FirstNode(p) /\ LastNode(p) <= Len(nodes)
  /\ LastNode(p) - FirstNode(p) = finish.block - FirstBlock
  /\ FirstBlock <= finish.block
  /\ \A n \in FirstNode(p)..LastNode(p) : nodes[n] = FirstBlock + (n - FirstNode(p))
  /\ ppc[p] \in {"copying", "setting"} => moved[p].start = start.node
  /\ ppc[p] \in {"moving", "setting"} => lpc \notin AtNode
  /\ lpc \in AtNode => going = start.node

\* The poster is where it read the end, and has added a block if that was the last cell.
EndInv(p) ==
  /\ ppc[p] \in {"full", "writing", "advancing", "entering"} \cup Moving => at[p] = finish.cur
  /\ ppc[p] \in {"full"} \cup Moving => finish.cur = Last(finish)
  /\ finish.cur[1] = (IF ppc[p] = "entering" THEN finish.block - 1 ELSE finish.block)
  /\ ppc[p] = "entering" => finish.cur[2] = NodeSize
  /\ IF ppc[p] \in {"writing", "advancing"} /\ finish.cur = Last(finish)
     THEN /\ Len(blocks) = finish.block + 1
          /\ finish.node + 1 <= Len(nodes) /\ nodes[finish.node + 1] = finish.block + 1
     ELSE Len(blocks) = finish.block

StartInv ==
  /\ start.cur[1] = (IF lpc \in AtBlock THEN start.block - 1 ELSE start.block)
  /\ lpc \in AtNode \cup AtBlock => start.cur[2] = NodeSize

\* The deque holds what was pushed and not called, each task in the cell of its number;
\* the poster alone writes behind finish, and the loop alone empties cells from start.
DequeInv(p) ==
  /\ Number(finish.cur) = Returned(p) + 1
  /\ Number(start.cur) = Len(called) + 1
  /\ Len(called) + (IF lpc \in Holding THEN 1 ELSE 0) <= Returned(p)
  /\ \A c \in Cell :
       /\ Len(called) + (IF lpc \in Holding THEN 1 ELSE 0) < Number(c)
       /\ Number(c) <= Returned(p) + (IF ppc[p] \in {"advancing", "entering"} THEN 1 ELSE 0)
       => c[1] <= Len(blocks) /\ blocks[c[1]][c[2]] = <<p, Number(c)>>

\* What was called is what left the queue, and the task in the loop's hands comes next.
CalledInv(p) ==
  /\ \A i \in 1..Len(called) : called[i] = <<p, i>>
  /\ taken = IF lpc \in Holding THEN <<p, Len(called) + 1>> ELSE NoTask

\* The loop went to poll() with an empty deque: what came since is announced in the
\* self-pipe, or about to be.
PollInv(p) == lpc = "poll" /\ bytes = 0 /\ ppc[p] # "waking" => start.cur = finish.cur

Ordered(p) ==
  /\ ThreadTypes(p) /\ DequeTypes
  /\ MapInv(p) /\ EndInv(p) /\ StartInv
  /\ DequeInv(p) /\ CalledInv(p) /\ PollInv(p)

PosterInv(p) == raced \in BOOLEAN /\ (raced \/ Ordered(p))

-----------------------------------------------------------------------------
(* Cells and their numbers.                                                    *)

LEMMA Products ==
  ASSUME NEW a \in Nat, NEW b \in Nat
  PROVE  /\ a * NodeSize \in Nat
         /\ (a + 1) * NodeSize = a * NodeSize + NodeSize
         /\ a < b => a * NodeSize + NodeSize <= b * NodeSize
<1>1. NodeSize \in Nat /\ NodeSize > 0
  BY PostersAssumption
<1>2. a * NodeSize \in Nat /\ (a + 1) * NodeSize = a * NodeSize + NodeSize
  BY <1>1
<1>3. ASSUME a < b PROVE a * NodeSize + NodeSize <= b * NodeSize
  <2>1. PICK d \in Nat : b = (a + 1) + d
    <3>1. b - (a + 1) \in Nat /\ b = (a + 1) + (b - (a + 1))
      BY <1>3
    <3> QED
      BY <3>1
  <2>2. b * NodeSize = (a + 1) * NodeSize + d * NodeSize /\ d * NodeSize \in Nat
    BY <1>1, <2>1
  <2> QED
    BY <1>1, <1>2, <2>2
<1> QED
  BY <1>2, <1>3

LEMMA CellNumber ==
  ASSUME NEW c \in Cell
  PROVE  /\ c[1] \in Nat /\ c[1] > 0 /\ c[2] \in Nat /\ 1 <= c[2] /\ c[2] <= NodeSize
         /\ c = <<c[1], c[2]>> /\ NodeSize \in Nat /\ NodeSize > 0
         /\ (c[1] - 1) \in Nat /\ (c[1] - 1) * NodeSize \in Nat
         /\ Number(c) \in Nat /\ Number(c) > 0
<1>1. c[1] \in Nat /\ c[1] > 0 /\ c[2] \in 1..NodeSize /\ c = <<c[1], c[2]>>
  BY DEF Cell
<1>2. NodeSize \in Nat /\ NodeSize > 0
  BY PostersAssumption
<1>3. (c[1] - 1) \in Nat
  BY <1>1
<1>4. (c[1] - 1) * NodeSize \in Nat
  BY <1>3, Products
<1> QED
  BY <1>1, <1>2, <1>3, <1>4 DEF Number

LEMMA NumberOrder ==
  ASSUME NEW a \in Cell, NEW b \in Cell
  PROVE  /\ Before(a, b) <=> Number(a) < Number(b)
         /\ Number(a) = Number(b) => a = b
<1>1. ASSUME NEW c \in Cell, NEW d \in Cell, c[1] < d[1] PROVE Number(c) < Number(d)
  <2>1. (c[1] - 1) * NodeSize + NodeSize <= (d[1] - 1) * NodeSize
    <3>1. (c[1] - 1) \in Nat /\ (d[1] - 1) \in Nat /\ c[1] - 1 < d[1] - 1
      BY <1>1, CellNumber
    <3> QED
      BY <3>1, Products
  <2> QED
    BY <2>1, CellNumber DEF Number
<1>2. ASSUME a[1] = b[1] PROVE Number(b) - Number(a) = b[2] - a[2]
  BY <1>2, CellNumber DEF Number
<1>3. CASE a[1] < b[1]
  BY <1>1, <1>3, CellNumber DEF Before
<1>4. CASE b[1] < a[1]
  BY <1>1, <1>4, CellNumber DEF Before
<1>5. CASE a[1] = b[1]
  <2>1. Number(a) < Number(b) <=> a[2] < b[2]
    BY <1>2, <1>5, CellNumber
  <2>2. Number(a) = Number(b) => a[2] = b[2]
    BY <1>2, <1>5, CellNumber
  <2>3. a = <<a[1], a[2]>> /\ b = <<b[1], b[2]>>
    BY CellNumber
  <2> QED
    BY <1>5, <2>1, <2>2, <2>3, CellNumber DEF Before
<1> QED
  BY <1>3, <1>4, <1>5, CellNumber

LEMMA NextCell ==
  ASSUME NEW c \in Cell
  PROVE  /\ c[2] < NodeSize => After(c) \in Cell /\ Number(After(c)) = Number(c) + 1
         /\ c[2] = NodeSize => /\ <<c[1] + 1, 1>> \in Cell
                               /\ Number(<<c[1] + 1, 1>>) = Number(c) + 1
<1>1. ASSUME c[2] < NodeSize PROVE After(c) \in Cell /\ Number(After(c)) = Number(c) + 1
  <2>1. After(c) = <<c[1], c[2] + 1>> /\ After(c)[1] = c[1] /\ After(c)[2] = c[2] + 1
    BY DEF After
  <2>2. After(c) \in Cell
    BY <1>1, <2>1, CellNumber DEF Cell
  <2> QED
    BY <2>1, <2>2, CellNumber DEF Number
<1>2. ASSUME c[2] = NodeSize
      PROVE  <<c[1] + 1, 1>> \in Cell /\ Number(<<c[1] + 1, 1>>) = Number(c) + 1
  <2>1. <<c[1] + 1, 1>> \in Cell
    BY CellNumber DEF Cell
  <2>2. Number(<<c[1] + 1, 1>>) = ((c[1] - 1) + 1) * NodeSize + 1
    <3>1. (c[1] + 1) - 1 = (c[1] - 1) + 1
      BY CellNumber
    <3> QED
      BY <3>1 DEF Number
  <2>3. ((c[1] - 1) + 1) * NodeSize = (c[1] - 1) * NodeSize + NodeSize
    BY CellNumber, Products
  <2> QED
    BY <1>2, <2>1, <2>2, <2>3, CellNumber DEF Number
<1> QED
  BY <1>1, <1>2

\* Every number is a cell's.
LEMMA CellOf ==
  ASSUME NEW n \in Nat, n > 0
  PROVE  \E c \in Cell : Number(c) = n
<1>1. NodeSize \in Nat /\ NodeSize > 0
  BY PostersAssumption
<1> DEFINE q == (n - 1) \div NodeSize
           r == (n - 1) % NodeSize
<1>2. q \in Nat /\ r \in 0..NodeSize - 1 /\ n - 1 = q * NodeSize + r
  BY <1>1
<1>3. <<q + 1, r + 1>> \in Cell
  BY <1>1, <1>2 DEF Cell
<1>4. Number(<<q + 1, r + 1>>) = n
  <2>1. (q + 1) - 1 = q
    BY <1>2
  <2>2. Number(<<q + 1, r + 1>>) = q * NodeSize + (r + 1)
    BY <2>1 DEF Number
  <2> HIDE DEF q, r
  <2>3. q * NodeSize \in Nat
    BY <1>2, Products
  <2> QED
    BY <1>2, <2>2, <2>3
<1> QED
  BY <1>3, <1>4

-----------------------------------------------------------------------------
(* The poster's steps.                                                         *)

\* The numbers of a state before a step: of tasks, of blocks and their places, of cells.
Counts(p) ==
  /\ count[p] \in Nat /\ count[p] <= MaxTasks /\ MaxTasks \in Nat
  /\ ppc[p] # "ready" => count[p] > 0
  /\ Returned(p) \in Nat /\ Len(called) \in Nat

NodeNumbers(p) ==
  /\ moved[p].start \in Nat /\ moved[p].finish \in Nat /\ base \in Nat /\ going \in Nat
  /\ start.node \in Nat /\ start.block \in Nat /\ finish.node \in Nat /\ finish.block \in Nat
  /\ Len(nodes) \in Nat /\ Len(blocks) \in Nat

CellNumbers ==
  /\ start.cur[1] \in Nat /\ start.cur[1] > 0 /\ start.cur[2] \in Nat
  /\ finish.cur[1] \in Nat /\ finish.cur[1] > 0 /\ finish.cur[2] \in Nat
  /\ 1 <= start.cur[2] /\ start.cur[2] <= NodeSize /\ 1 <= finish.cur[2] /\ finish.cur[2] <= NodeSize
  /\ NodeSize \in Nat /\ NodeSize > 0

Numbers(p) == Counts(p) /\ NodeNumbers(p) /\ CellNumbers

LEMMA OrderedNumbers ==
  ASSUME NEW p \in Posters, Ordered(p)
  PROVE  /\ Numbers(p) /\ start.cur \in Cell /\ finish.cur \in Cell
         /\ start.cur = <<start.cur[1], start.cur[2]>> /\ finish.cur = <<finish.cur[1], finish.cur[2]>>
<1>1. start \in End /\ finish \in End /\ start.cur \in Cell /\ finish.cur \in Cell
  BY DEF Ordered, DequeTypes, End
<1>2. /\ count[p] \in Nat /\ count[p] <= MaxTasks /\ (ppc[p] # "ready" => count[p] > 0)
      /\ MaxTasks \in Nat /\ PipeLimit \in Nat
      /\ moved[p].start \in Nat /\ moved[p].finish \in Nat
  BY PostersAssumption DEF Ordered, ThreadTypes
<1>3. Returned(p) \in Nat
  BY <1>2 DEF Returned
<1>4. /\ Len(called) \in Nat /\ Len(blocks) \in Nat /\ Len(nodes) \in Nat
      /\ base \in Nat /\ going \in Nat
  BY DEF Ordered, ThreadTypes, DequeTypes
<1>5. /\ start.node \in Nat /\ start.block \in Nat /\ finish.node \in Nat /\ finish.block \in Nat
  BY <1>1 DEF End
<1> QED
  BY <1>1, <1>2, <1>3, <1>4, <1>5, CellNumber DEF Numbers, Counts, NodeNumbers, CellNumbers

\* The poster's counter of steps changes, and what it keeps.
LEMMA QuietSteps ==
  ASSUME NEW p, Posters = {p}, Ordered(p), Begin(p) \/ ReadFinish(p) \/ ReadMap(p)
  PROVE  Ordered(p)'
<1>0. Numbers(p) /\ finish.cur \in Cell
  BY OrderedNumbers
<1>1. UNCHANGED <<blocks, nodes, base, start, finish, bytes, lpc, going, taken, called>>
  BY DEF Begin, ReadFinish, ReadMap, dequeVars, threadVars
<1>2. DequeTypes' /\ StartInv' /\ CalledInv(p)' /\ FirstBlock' = FirstBlock
  BY <1>1 DEF Ordered, DequeTypes, StartInv, CalledInv, FirstBlock
<1>3. CASE Begin(p)
  <2>1. /\ ppc[p] = "ready" /\ ppc'[p] = "reading" /\ count'[p] = count[p] + 1 /\ count[p] < MaxTasks
        /\ UNCHANGED <<at, moved>>
    BY <1>3 DEF Begin, Ordered, ThreadTypes
  <2>2. count' \in [Posters -> 0..MaxTasks] /\ count'[p] > 0
    <3>1. count[p] + 1 \in 0..MaxTasks /\ count[p] + 1 > 0
      BY <1>0, <2>1 DEF Numbers, Counts
    <3>2. count \in [Posters -> 0..MaxTasks] /\ count' = [count EXCEPT ![p] = count[p] + 1]
      BY <1>3 DEF Begin, Ordered, ThreadTypes
    <3> QED
      BY <3>1, <3>2
  <2>3. ThreadTypes(p)'
    BY <1>1, <1>3, <2>1, <2>2 DEF Begin, Ordered, ThreadTypes, PosterPCs
  <2>4. Returned(p)' = Returned(p)
    BY <1>0, <2>1 DEF Returned, Numbers, Counts, NodeNumbers, CellNumbers
  <2>5. MapInv(p)' /\ EndInv(p)' /\ PollInv(p)'
    BY <1>1, <1>2, <2>1 DEF Ordered, MapInv, FirstNode, LastNode, EndInv, Moving, PollInv
  <2>6. DequeInv(p)'
    BY <1>1, <2>1, <2>4 DEF Ordered, DequeInv, Number
  <2> QED
    BY <1>2, <2>3, <2>5, <2>6 DEF Ordered
<1>4. CASE ReadFinish(p)
  <2>1. /\ ppc[p] = "reading" /\ ppc'[p] \in {"full", "writing"} /\ at'[p] = finish.cur
        /\ ppc'[p] = "full" <=> finish.cur = Last(finish)
        /\ UNCHANGED <<count, moved>>
    BY <1>4 DEF ReadFinish, Ordered, ThreadTypes
  <2>2. ThreadTypes(p)'
    BY <1>0, <1>1, <1>4, <2>1 DEF ReadFinish, Ordered, ThreadTypes, PosterPCs
  <2>3. Returned(p)' = Returned(p)
    BY <2>1 DEF Returned
  <2>4. MapInv(p)' /\ EndInv(p)' /\ PollInv(p)'
    BY <1>1, <1>2, <2>1 DEF Ordered, MapInv, FirstNode, LastNode, EndInv, Moving, PollInv, Last
  <2>5. DequeInv(p)'
    BY <1>1, <2>1, <2>3 DEF Ordered, DequeInv, Number
  <2> QED
    BY <1>2, <2>2, <2>4, <2>5 DEF Ordered
<1>5. CASE ReadMap(p)
  <2>1. /\ ppc[p] = "full" /\ ppc'[p] = "copying" /\ moved'[p].start = start.node
        /\ UNCHANGED <<count, at>>
    BY <1>5 DEF ReadMap, Ordered, ThreadTypes
  <2>2. moved' \in [Posters -> [start : Nat, finish : Nat]]
    <3>1. [moved[p] EXCEPT !.start = start.node] \in [start : Nat, finish : Nat]
      BY <1>0 DEF Ordered, ThreadTypes, Numbers, Counts, NodeNumbers, CellNumbers
    <3>2. moved' = [moved EXCEPT ![p] = [moved[p] EXCEPT !.start = start.node]]
      BY <1>5 DEF ReadMap
    <3> QED
      BY <3>1, <3>2 DEF Ordered, ThreadTypes
  <2>3. ThreadTypes(p)'
    BY <1>1, <1>5, <2>1, <2>2 DEF ReadMap, Ordered, ThreadTypes, PosterPCs, Moving
  <2>4. Returned(p)' = Returned(p)
    BY <2>1 DEF Returned
  <2>5. MapInv(p)' /\ EndInv(p)' /\ PollInv(p)'
    BY <1>1, <1>2, <2>1 DEF Ordered, MapInv, FirstNode, LastNode, EndInv, Moving, PollInv, Last
  <2>6. DequeInv(p)'
    BY <1>1, <2>1, <2>4 DEF Ordered, DequeInv, Number
  <2> QED
    BY <1>2, <2>3, <2>5, <2>6 DEF Ordered
<1> QED
  BY <1>3, <1>4, <1>5

\* The byte in the pipe, when the task is there.
LEMMA WakeupStep ==
  ASSUME NEW p, Posters = {p}, Ordered(p), WriteWakeup(p)
  PROVE  Ordered(p)'
<1>1. /\ UNCHANGED <<blocks, nodes, base, start, finish, lpc, going, taken, called, count, at, moved>>
      /\ ppc[p] = "waking" /\ ppc'[p] = "ready" /\ bytes' # 0 /\ bytes' \in 0..PipeLimit
  BY PostersAssumption DEF WriteWakeup, dequeVars, threadVars, Ordered, ThreadTypes
<1>2. DequeTypes' /\ StartInv' /\ CalledInv(p)' /\ FirstBlock' = FirstBlock
  BY <1>1 DEF Ordered, DequeTypes, StartInv, CalledInv, FirstBlock
<1>3. ThreadTypes(p)'
  BY <1>1 DEF WriteWakeup, Ordered, ThreadTypes, PosterPCs
<1>4. Returned(p)' = Returned(p)
  BY <1>1 DEF Returned
<1>5. MapInv(p)' /\ EndInv(p)' /\ PollInv(p)'
  BY <1>1, <1>2 DEF Ordered, MapInv, FirstNode, LastNode, EndInv, Moving, PollInv
<1>6. DequeInv(p)'
  BY <1>1, <1>4 DEF Ordered, DequeInv, Number
<1> QED
  BY <1>2, <1>3, <1>5, <1>6 DEF Ordered

\* One cell of the blocks is written.
LEMMA CellWritten ==
  ASSUME NEW p \in Posters, Ordered(p), NEW d \in Cell, d[1] <= Len(blocks),
         NEW v \in Task \cup {NoTask},
         blocks' = [blocks EXCEPT ![d[1]][d[2]] = v]
  PROVE  /\ blocks' \in Seq(Block) /\ Len(blocks') = Len(blocks) /\ blocks'[d[1]][d[2]] = v
         /\ \A c \in Cell : c # d /\ c[1] <= Len(blocks) => blocks'[c[1]][c[2]] = blocks[c[1]][c[2]]
<1>1. blocks \in Seq(Block) /\ Len(blocks) \in Nat
  BY DEF Ordered, DequeTypes
<1>2. d[1] \in 1..Len(blocks) /\ d[2] \in 1..NodeSize /\ d = <<d[1], d[2]>>
  BY <1>1, CellNumber
<1> DEFINE new == [blocks[d[1]] EXCEPT ![d[2]] = v]
<1>3. blocks' = [blocks EXCEPT ![d[1]] = new]
  OBVIOUS
<1>4. blocks[d[1]] \in Block
  BY <1>1, <1>2
<1>5. /\ new \in Block /\ new[d[2]] = v
      /\ \A i \in 1..NodeSize : i # d[2] => new[i] = blocks[d[1]][i]
  BY <1>2, <1>4 DEF Block
<1> HIDE DEF new
<1>6. /\ blocks' \in Seq(Block) /\ Len(blocks') = Len(blocks) /\ blocks'[d[1]] = new
      /\ \A i \in 1..Len(blocks) : i # d[1] => blocks'[i] = blocks[i]
  BY <1>1, <1>2, <1>3, <1>5
<1>7. ASSUME NEW c \in Cell, c # d, c[1] <= Len(blocks) PROVE blocks'[c[1]][c[2]] = blocks[c[1]][c[2]]
  <2>1. c[1] \in 1..Len(blocks) /\ c[2] \in 1..NodeSize /\ c = <<c[1], c[2]>>
    BY <1>1, <1>7, CellNumber
  <2> QED
    BY <1>2, <1>5, <1>6, <1>7, <2>1
<1> QED
  BY <1>5, <1>6, <1>7

\* An element is constructed behind the end.
LEMMA WriteStep ==
  ASSUME NEW p, Posters = {p}, Ordered(p), WriteElement(p)
  PROVE  Ordered(p)'
<1>0. Numbers(p) /\ finish.cur \in Cell
  BY OrderedNumbers
<1>1. /\ UNCHANGED <<nodes, base, start, finish, lpc, going, taken, called, count, at, moved, bytes>>
      /\ ppc[p] = "writing" /\ ppc'[p] = "advancing" /\ at[p] = finish.cur
  BY DEF WriteElement, threadVars, Ordered, EndInv, ThreadTypes
<1>2. /\ finish.cur[1] = finish.block /\ finish.cur[1] <= Len(blocks)
      /\ Number(finish.cur) = count[p] /\ count[p] > 0
      /\ Returned(p)' = Returned(p) /\ Number(finish.cur) = Returned(p) + 1
  <2>1. Returned(p) = count[p] - 1 /\ Returned(p)' = count[p] - 1
    BY <1>1 DEF Returned
  <2>2. Number(finish.cur) = Returned(p) + 1
    BY DEF Ordered, DequeInv
  <2>3. finish.cur[1] = finish.block /\ Len(blocks) \in {finish.block, finish.block + 1}
    BY <1>1 DEF Ordered, EndInv
  <2>4. count[p] \in Nat /\ count[p] > 0 /\ Returned(p) \in Nat /\ Number(finish.cur) = count[p]
    BY <1>0, <1>1, <2>1, <2>2 DEF Numbers, Counts
  <2>5. finish.block <= Len(blocks)
    BY <1>0, <2>3 DEF Numbers, NodeNumbers
  <2>6. Returned(p)' = Returned(p)
    BY <2>1
  <2> QED
    BY <2>2, <2>3, <2>4, <2>5, <2>6
<1>3. <<p, count[p]>> \in Task
  BY <1>0, <1>2 DEF Task, Numbers, Counts, NodeNumbers, CellNumbers
<1>4. /\ blocks' \in Seq(Block) /\ Len(blocks') = Len(blocks)
      /\ blocks'[finish.cur[1]][finish.cur[2]] = <<p, count[p]>>
      /\ \A c \in Cell : c # finish.cur /\ c[1] <= Len(blocks) =>
                          blocks'[c[1]][c[2]] = blocks[c[1]][c[2]]
  <2>1. blocks' = [blocks EXCEPT ![finish.cur[1]][finish.cur[2]] = <<p, count[p]>>]
    BY <1>1 DEF WriteElement
  <2> QED
    BY <1>0, <1>2, <1>3, <2>1, CellWritten
<1>5. DequeTypes' /\ StartInv' /\ CalledInv(p)' /\ FirstBlock' = FirstBlock
  BY <1>1, <1>4 DEF Ordered, DequeTypes, StartInv, CalledInv, FirstBlock
<1>6. ThreadTypes(p)'
  BY <1>1 DEF WriteElement, Ordered, ThreadTypes, PosterPCs
<1>7. MapInv(p)' /\ EndInv(p)' /\ PollInv(p)'
  BY <1>1, <1>4, <1>5 DEF Ordered, MapInv, FirstNode, LastNode, EndInv, Moving, PollInv, Last
<1>8. DequeInv(p)'
  <2>1. ASSUME NEW c \in Cell, Len(called) + (IF lpc \in Holding THEN 1 ELSE 0) < Number(c),
               Number(c) <= Returned(p) + 1
        PROVE  c[1] <= Len(blocks') /\ blocks'[c[1]][c[2]] = <<p, Number(c)>>
    <3>1. CASE c = finish.cur
      BY <1>2, <1>4, <3>1
    <3>2. CASE c # finish.cur
      <4>1. Number(c) <= Returned(p)
        <5>1. Number(c) # Number(finish.cur)
          BY <1>0, <3>2, NumberOrder
        <5>2. Number(c) \in Nat /\ Returned(p) \in Nat
          BY <1>0, CellNumber DEF Numbers, Counts, NodeNumbers, CellNumbers
        <5> QED
          BY <1>2, <2>1, <5>1, <5>2
      <4>2. c[1] <= Len(blocks) /\ blocks[c[1]][c[2]] = <<p, Number(c)>>
        <5>1. ppc[p] \notin {"advancing", "entering"} /\ Returned(p) + 0 = Returned(p)
          BY <1>0, <1>1 DEF Numbers, Counts, NodeNumbers, CellNumbers
        <5> QED
          BY <2>1, <4>1, <5>1 DEF Ordered, DequeInv
      <4> QED
        BY <1>4, <3>2, <4>2
    <3> QED
      BY <3>1, <3>2
  <2> QED
    BY <1>1, <1>2, <2>1 DEF Ordered, DequeInv, Number
<1> QED
  BY <1>5, <1>6, <1>7, <1>8 DEF Ordered

\* The end moves past the element, in its block or to the next one.
LEMMA AdvanceStep ==
  ASSUME NEW p, Posters = {p}, Ordered(p), AdvanceFinish(p) \/ EnterNext(p)
  PROVE  Ordered(p)'
<1>0. Numbers(p) /\ finish.cur \in Cell /\ finish \in End /\ finish.cur = <<finish.cur[1], finish.cur[2]>>
  BY OrderedNumbers DEF Ordered, DequeTypes
<1>1. /\ UNCHANGED <<blocks, nodes, base, start, lpc, going, taken, called, count, at, moved, bytes>>
      /\ ppc[p] \in {"advancing", "entering"} /\ ppc'[p] = "waking"
  BY DEF AdvanceFinish, EnterNext, threadVars, Ordered, ThreadTypes
<1>2. /\ finish' = [finish EXCEPT !.cur = finish'.cur]
      /\ finish'.cur \in Cell /\ Number(finish'.cur) = Number(finish.cur) + 1
      /\ finish'.cur[1] = finish.block /\ Len(blocks) = finish.block
  <2>1. CASE AdvanceFinish(p)
    <3>1. ppc[p] = "advancing" /\ finish' = [finish EXCEPT !.cur = After(finish.cur)]
      BY <2>1 DEF AdvanceFinish, Ordered, EndInv
    <3>2. finish.cur # Last(finish) /\ finish'.cur = After(finish.cur)
      BY <1>0, <2>1, <3>1 DEF AdvanceFinish, Ordered, EndInv, End
    <3>3. finish.cur[1] = finish.block /\ Len(blocks) = finish.block
      BY <3>1, <3>2 DEF Ordered, EndInv
    <3>4. finish.cur[2] < NodeSize
      <4>1. finish.cur[2] # NodeSize
        BY <1>0, <3>2, <3>3 DEF Last
      <4> QED
        BY <1>0, <4>1 DEF Numbers, Counts, NodeNumbers, CellNumbers
    <3>5. After(finish.cur) \in Cell /\ Number(After(finish.cur)) = Number(finish.cur) + 1
      BY <1>0, <3>4, NextCell
    <3>6. After(finish.cur)[1] = finish.block
      BY <3>3 DEF After
    <3> QED
      BY <3>1, <3>2, <3>3, <3>5, <3>6
  <2>2. CASE EnterNext(p)
    <3>1. ppc[p] = "entering" /\ finish' = [finish EXCEPT !.cur = <<finish.block, 1>>]
      BY <2>2 DEF EnterNext
    <3>2. finish.cur[1] = finish.block - 1 /\ finish.cur[2] = NodeSize /\ Len(blocks) = finish.block
      BY <3>1 DEF Ordered, EndInv
    <3>3. finish.block = finish.cur[1] + 1
      BY <1>0, <3>2 DEF Numbers, Counts, NodeNumbers, CellNumbers
    <3>4. /\ <<finish.block, 1>> \in Cell /\ Number(<<finish.block, 1>>) = Number(finish.cur) + 1
          /\ <<finish.block, 1>>[1] = finish.block
      BY <1>0, <3>2, <3>3, NextCell
    <3>5. finish'.cur = <<finish.block, 1>>
      BY <1>0, <3>1 DEF End
    <3> QED
      BY <3>1, <3>2, <3>4, <3>5
  <2> QED
    BY <2>1, <2>2 DEF EnterNext, AdvanceFinish
<1>3. finish' \in End /\ finish'.node = finish.node /\ finish'.block = finish.block
  BY <1>0, <1>2 DEF End
<1>4. DequeTypes' /\ StartInv' /\ CalledInv(p)' /\ FirstBlock' = FirstBlock
  BY <1>1, <1>3 DEF Ordered, DequeTypes, StartInv, CalledInv, FirstBlock
<1>5. ThreadTypes(p)'
  BY <1>1 DEF AdvanceFinish, EnterNext, Ordered, ThreadTypes, PosterPCs
<1>6. Returned(p)' = Returned(p) + 1 /\ Returned(p) = count[p] - 1
  BY <1>0, <1>1 DEF Returned, Numbers, Counts
<1>7. MapInv(p)' /\ EndInv(p)' /\ PollInv(p)'
  BY <1>1, <1>2, <1>3, <1>4 DEF Ordered, MapInv, FirstNode, LastNode, EndInv, Moving, PollInv
<1>8. DequeInv(p)'
  <2>1. /\ Number(finish'.cur) = Returned(p)' + 1 /\ Number(start'.cur) = Len(called') + 1
        /\ Len(called') + (IF lpc' \in Holding THEN 1 ELSE 0) <= Returned(p)'
    BY <1>0, <1>1, <1>2, <1>6 DEF Ordered, DequeInv, Numbers, Counts
  <2>2. Returned(p)' + 0 = Returned(p) + 1
    BY <1>0, <1>6 DEF Numbers, Counts, NodeNumbers, CellNumbers
  <2>3. \A c \in Cell :
          /\ Len(called') + (IF lpc' \in Holding THEN 1 ELSE 0) < Number(c)
          /\ Number(c) <= Returned(p)' + (IF ppc'[p] \in {"advancing", "entering"} THEN 1 ELSE 0)
          => c[1] <= Len(blocks') /\ blocks'[c[1]][c[2]] = <<p, Number(c)>>
    BY <1>1, <2>2 DEF Ordered, DequeInv
  <2> QED
    BY <2>1, <2>3 DEF DequeInv, Number
<1> QED
  BY <1>4, <1>5, <1>7, <1>8 DEF Ordered

\* A block is allocated, and the map gets it behind the last one.
LEMMA AddStep ==
  ASSUME NEW p, Posters = {p}, Ordered(p), AddNode(p)
  PROVE  Ordered(p)'
<1>0. Numbers(p) /\ finish.cur \in Cell
  BY OrderedNumbers
<1>1. /\ UNCHANGED <<count, at, moved, base, start, finish, bytes, lpc, going, taken, called>>
      /\ ppc[p] = "full" /\ ppc'[p] = "writing" /\ finish.node < Len(nodes)
      /\ blocks' = Append(blocks, EmptyBlock) /\ nodes' = [nodes EXCEPT ![finish.node + 1] = Len(blocks')]
      /\ finish.cur = Last(finish) /\ Len(blocks) = finish.block
  BY DEF AddNode, threadVars, Ordered, ThreadTypes, EndInv, Moving
<1>2. EmptyBlock \in Block /\ blocks \in Seq(Block) /\ nodes \in Seq(Nat)
  BY DEF EmptyBlock, Block, Ordered, DequeTypes
<1>3. /\ blocks' \in Seq(Block) /\ Len(blocks') = finish.block + 1
      /\ \A i \in 1..Len(blocks) : blocks'[i] = blocks[i]
  BY <1>1, <1>2
<1>4. /\ nodes' \in Seq(Nat) /\ Len(nodes') = Len(nodes)
      /\ nodes'[finish.node + 1] = finish.block + 1
      /\ \A n \in 1..Len(nodes) : n # finish.node + 1 => nodes'[n] = nodes[n]
  <2>1. finish.node + 1 \in 1..Len(nodes) /\ finish.block + 1 \in Nat
    BY <1>0, <1>1 DEF Numbers, NodeNumbers
  <2> QED
    BY <1>1, <1>2, <1>3, <2>1
<1>5. DequeTypes' /\ StartInv' /\ CalledInv(p)' /\ FirstBlock' = FirstBlock
  BY <1>1, <1>3, <1>4 DEF Ordered, DequeTypes, StartInv, CalledInv, FirstBlock
<1>6. ThreadTypes(p)'
  BY <1>1 DEF AddNode, Ordered, ThreadTypes, PosterPCs
<1>7. Returned(p)' = Returned(p)
  BY <1>1 DEF Returned
<1>8. MapInv(p)'
  <2>1. FirstNode(p)' = FirstNode(p) /\ LastNode(p)' = finish.node /\ LastNode(p) = finish.node
        /\ FirstNode(p) \in Nat
    BY <1>0, <1>1 DEF FirstNode, LastNode, Numbers, Counts, NodeNumbers, CellNumbers
  <2>2. \A n \in FirstNode(p)..LastNode(p) : nodes'[n] = nodes[n]
    <3>1. base < FirstNode(p) /\ base \in Nat
      BY <1>0 DEF Ordered, MapInv, Numbers, Counts, NodeNumbers, CellNumbers
    <3>2. \A n \in FirstNode(p)..LastNode(p) : n \in 1..Len(nodes) /\ n # finish.node + 1
      BY <1>0, <1>1, <2>1, <3>1 DEF Numbers, NodeNumbers
    <3> QED
      BY <1>4, <3>2
  <2> QED
    BY <1>1, <1>4, <1>5, <2>1, <2>2 DEF Ordered, MapInv
<1>9. EndInv(p)' /\ PollInv(p)'
  <2>1. finish.node + 1 <= Len(nodes)
    BY <1>0, <1>1 DEF Numbers, Counts, NodeNumbers, CellNumbers
  <2> QED
    BY <1>1, <1>3, <1>4, <2>1 DEF Ordered, EndInv, Moving, PollInv, Last
<1>10. DequeInv(p)'
  <2>1. ASSUME NEW c \in Cell, c[1] <= Len(blocks)
        PROVE  c[1] <= Len(blocks') /\ blocks'[c[1]][c[2]] = blocks[c[1]][c[2]]
    <3>1. c[1] \in 1..Len(blocks)
      BY <1>0, <2>1, CellNumber DEF Numbers, Counts, NodeNumbers, CellNumbers
    <3> QED
      BY <1>0, <1>1, <1>3, <3>1 DEF Numbers, NodeNumbers
  <2> QED
    BY <1>1, <1>7, <2>1 DEF Ordered, DequeInv, Number
<1> QED
  BY <1>5, <1>6, <1>8, <1>9, <1>10 DEF Ordered

\* What the map holds at the two ends.
LEMMA MapEnds ==
  ASSUME NEW p \in Posters, Ordered(p)
  PROVE  /\ FirstNode(p) \in Nat /\ LastNode(p) \in Nat /\ FirstNode(p) <= LastNode(p)
         /\ NodeAt(FirstNode(p)) = FirstBlock /\ NodeAt(LastNode(p)) = finish.block
         /\ FirstBlock \in Nat
         /\ \A n \in FirstNode(p)..LastNode(p) : n \in 1..Len(nodes) /\ NodeAt(n) = nodes[n]
<1>0. Numbers(p) /\ nodes \in Seq(Nat)
  BY OrderedNumbers DEF Ordered, DequeTypes
<1>1. FirstNode(p) \in Nat /\ LastNode(p) \in Nat /\ FirstBlock \in Nat
  BY <1>0 DEF FirstNode, LastNode, FirstBlock, Numbers, NodeNumbers
<1>2. /\ base < FirstNode(p) /\ LastNode(p) <= Len(nodes) /\ FirstBlock <= finish.block
      /\ LastNode(p) - FirstNode(p) = finish.block - FirstBlock
      /\ \A n \in FirstNode(p)..LastNode(p) : nodes[n] = FirstBlock + (n - FirstNode(p))
  BY DEF Ordered, MapInv
<1>3. finish.block \in Nat /\ base \in Nat /\ Len(nodes) \in Nat
  BY <1>0 DEF Numbers, NodeNumbers
<1>4. FirstNode(p) <= LastNode(p)
  BY <1>1, <1>2, <1>3
<1>5. \A n \in FirstNode(p)..LastNode(p) : n \in 1..Len(nodes) /\ NodeAt(n) = nodes[n]
  <2>1. \A n \in FirstNode(p)..LastNode(p) : n \in 1..Len(nodes)
    BY <1>1, <1>2, <1>3
  <2> QED
    BY <1>0, <2>1 DEF NodeAt
<1>6. FirstNode(p) \in FirstNode(p)..LastNode(p) /\ LastNode(p) \in FirstNode(p)..LastNode(p)
  BY <1>1, <1>4
<1>7. NodeAt(FirstNode(p)) = FirstBlock
  <2>1. NodeAt(FirstNode(p)) = FirstBlock + (FirstNode(p) - FirstNode(p))
    BY <1>2, <1>5, <1>6
  <2> QED
    BY <1>1, <2>1
<1>8. NodeAt(LastNode(p)) = finish.block
  <2>1. NodeAt(LastNode(p)) = FirstBlock + (LastNode(p) - FirstNode(p))
    BY <1>2, <1>5, <1>6
  <2> QED
    BY <1>1, <1>2, <1>3, <2>1
<1> QED
  BY <1>1, <1>4, <1>5, <1>7, <1>8

\* The end is in the next block.
LEMMA NextNodeStep ==
  ASSUME NEW p, Posters = {p}, Ordered(p), NextNode(p)
  PROVE  Ordered(p)'
<1>0. Numbers(p) /\ finish.cur \in Cell /\ finish \in End /\ nodes \in Seq(Nat)
  BY OrderedNumbers DEF Ordered, DequeTypes
<1>1. /\ UNCHANGED <<count, at, moved, blocks, nodes, base, start, bytes, lpc, going, taken, called>>
      /\ ppc[p] = "advancing" /\ ppc'[p] = "entering" /\ at[p] = Last(finish)
      /\ finish' = [finish EXCEPT !.node = finish.node + 1, !.block = NodeAt(finish.node + 1)]
  BY DEF NextNode, threadVars, Ordered, ThreadTypes
<1>2. /\ finish.cur = Last(finish) /\ at[p] = finish.cur
      /\ finish.cur[1] = finish.block /\ finish.cur[2] = NodeSize /\ Len(blocks) = finish.block + 1
      /\ finish.node + 1 <= Len(nodes) /\ nodes[finish.node + 1] = finish.block + 1
  BY <1>1 DEF Ordered, EndInv, Last
<1>3. finish.node + 1 \in 1..Len(nodes) /\ finish.block + 1 \in Nat /\ finish.node + 1 \in Nat
  BY <1>0, <1>2 DEF Numbers, NodeNumbers
<1>4. NodeAt(finish.node + 1) = finish.block + 1
  BY <1>0, <1>2, <1>3 DEF NodeAt
<1>5. /\ finish'.node = finish.node + 1 /\ finish'.block = finish.block + 1
      /\ finish'.cur = finish.cur /\ finish' \in End
  BY <1>0, <1>1, <1>3, <1>4 DEF End
<1>6. DequeTypes' /\ StartInv' /\ CalledInv(p)' /\ FirstBlock' = FirstBlock
  BY <1>1, <1>5 DEF Ordered, DequeTypes, StartInv, CalledInv, FirstBlock
<1>7. ThreadTypes(p)'
  BY <1>1 DEF NextNode, Ordered, ThreadTypes, PosterPCs
<1>8. Returned(p)' = Returned(p)
  BY <1>1 DEF Returned
<1>9. EndInv(p)' /\ PollInv(p)'
  <2>1. finish.block = (finish.block + 1) - 1
    BY <1>0 DEF Numbers, NodeNumbers
  <2> QED
    BY <1>1, <1>2, <1>5, <2>1 DEF Ordered, EndInv, Moving, PollInv
<1>10. DequeInv(p)'
  BY <1>1, <1>5, <1>8 DEF Ordered, DequeInv, Number
<1>11. MapInv(p)'
  <2>1. FirstNode(p)' = FirstNode(p) /\ LastNode(p)' = finish.node + 1 /\ LastNode(p) = finish.node
    BY <1>1, <1>5 DEF FirstNode, LastNode
  <2>2. /\ base < FirstNode(p) /\ FirstBlock <= finish.block
        /\ finish.node - FirstNode(p) = finish.block - FirstBlock
        /\ \A n \in FirstNode(p)..finish.node : nodes[n] = FirstBlock + (n - FirstNode(p))
    BY <2>1 DEF Ordered, MapInv
  <2>3. FirstNode(p) \in Nat /\ FirstBlock \in Nat
    BY <1>0, MapEnds
  <2>4. finish.node \in Nat /\ finish.block \in Nat
    BY <1>0 DEF Numbers, NodeNumbers
  <2>5. /\ (finish.node + 1) - FirstNode(p) = (finish.block + 1) - FirstBlock
        /\ FirstBlock <= finish.block + 1
        /\ finish.block + 1 = FirstBlock + ((finish.node + 1) - FirstNode(p))
    BY <2>2, <2>3, <2>4
  <2>6. \A n \in FirstNode(p)..finish.node + 1 : n \in FirstNode(p)..finish.node \/ n = finish.node + 1
    BY <2>3, <2>4
  <2>7. \A n \in FirstNode(p)..finish.node + 1 : nodes[n] = FirstBlock + (n - FirstNode(p))
    BY <1>2, <2>2, <2>5, <2>6
  <2> QED
    BY <1>1, <1>2, <1>5, <1>6, <2>1, <2>2, <2>5, <2>7 DEF Ordered, MapInv
<1> QED
  BY <1>6, <1>7, <1>9, <1>10, <1>11 DEF Ordered

\* The three writes that follow the copy of the map.
LEMMA MoveSteps ==
  ASSUME NEW p, Posters = {p}, Ordered(p), MoveNode(p) \/ MoveBlock(p) \/ MoveFinish(p)
  PROVE  Ordered(p)'
<1>0. Numbers(p) /\ start \in End /\ finish \in End
  BY OrderedNumbers DEF Ordered, DequeTypes
<1>1. /\ UNCHANGED <<count, at, moved, blocks, nodes, base, bytes, lpc, going, taken, called>>
      /\ ppc[p] \in {"moving", "setting", "finishing"} /\ ppc'[p] \in {"setting", "finishing", "full"}
      /\ ppc' = [ppc EXCEPT ![p] = ppc'[p]]
  BY DEF MoveNode, MoveBlock, MoveFinish, threadVars, Ordered, ThreadTypes
<1>2. /\ FirstNode(p)' = FirstNode(p) /\ LastNode(p)' = LastNode(p) /\ FirstBlock' = FirstBlock
      /\ start' \in End /\ start'.block = start.block /\ start'.cur = start.cur
      /\ finish' \in End /\ finish'.block = finish.block /\ finish'.cur = finish.cur
      /\ ppc'[p] = "setting" => moved[p].start = start'.node /\ lpc \notin AtNode
      /\ lpc \in AtNode => going = start'.node
  <2>1. moved[p].start \in Nat /\ moved[p].finish \in Nat
    BY <1>0 DEF Numbers, NodeNumbers
  <2>2. CASE MoveNode(p)
    <3>1. /\ ppc[p] = "moving" /\ ppc'[p] = "setting" /\ finish' = finish
          /\ start' = [start EXCEPT !.node = moved[p].start]
      BY <2>2 DEF MoveNode, Ordered, ThreadTypes
    <3>2. lpc \notin AtNode
      BY <3>1 DEF Ordered, MapInv
    <3>3. /\ start'.node = moved[p].start /\ start'.block = start.block
          /\ start'.cur = start.cur /\ start' \in End
      BY <1>0, <2>1, <3>1 DEF End
    <3> QED
      BY <1>0, <1>1, <3>1, <3>2, <3>3 DEF FirstNode, LastNode, FirstBlock
  <2>3. CASE MoveBlock(p)
    <3>1. /\ ppc[p] = "setting" /\ ppc'[p] = "finishing" /\ finish' = finish
          /\ start' = [start EXCEPT !.block = NodeAt(moved[p].start)]
      BY <2>3 DEF MoveBlock, Ordered, ThreadTypes
    <3>2. lpc \notin AtNode /\ moved[p].start = start.node
      BY <3>1 DEF Ordered, MapInv
    <3>3. NodeAt(moved[p].start) = start.block
      BY <3>1, <3>2, MapEnds DEF FirstNode, FirstBlock
    <3>4. start' = start
      BY <1>0, <3>1, <3>3 DEF End
    <3> QED
      BY <1>0, <1>1, <3>1, <3>2, <3>4 DEF FirstNode, LastNode, FirstBlock
  <2>4. CASE MoveFinish(p)
    <3>1. /\ ppc[p] = "finishing" /\ ppc'[p] = "full" /\ start' = start
          /\ finish' = [finish EXCEPT !.node = moved[p].finish, !.block = NodeAt(moved[p].finish)]
      BY <2>4 DEF MoveFinish, Ordered, ThreadTypes
    <3>2. NodeAt(moved[p].finish) = finish.block
      BY <3>1, MapEnds DEF LastNode
    <3>3. /\ finish'.node = moved[p].finish /\ finish'.block = finish.block
          /\ finish'.cur = finish.cur /\ finish' \in End
      BY <1>0, <2>1, <3>1, <3>2 DEF End
    <3>4. lpc \in AtNode => going = start.node
      BY DEF Ordered, MapInv
    <3> QED
      BY <1>0, <1>1, <3>1, <3>3, <3>4 DEF FirstNode, LastNode, FirstBlock
  <2> QED
    BY <2>2, <2>3, <2>4
<1>3. DequeTypes' /\ StartInv' /\ CalledInv(p)' /\ PollInv(p)'
  BY <1>1, <1>2 DEF Ordered, DequeTypes, StartInv, CalledInv, PollInv
<1>4. ThreadTypes(p)'
  BY <1>1 DEF Ordered, ThreadTypes, PosterPCs, Moving
<1>5. Returned(p)' = Returned(p)
  BY <1>1 DEF Returned
<1>6. MapInv(p)'
  BY <1>1, <1>2 DEF Ordered, MapInv
<1>7. EndInv(p)'
  BY <1>1, <1>2 DEF Ordered, EndInv, Moving, Last
<1>8. DequeInv(p)'
  BY <1>1, <1>2, <1>5 DEF Ordered, DequeInv, Number
<1> QED
  BY <1>3, <1>4, <1>6, <1>7, <1>8 DEF Ordered

\* The middle of a map of so many places, behind its base, has room for the blocks in use.
LEMMA Middle ==
  ASSUME NEW b \in Nat, NEW all \in Nat, NEW used \in Nat, used > 0, used + 1 <= all,
         NEW to, to = b + (all - (used + 1)) \div 2 + 1
  PROVE  /\ to \in Nat /\ b < to /\ to + used - 1 \in Nat /\ to + used - 1 <= b + all
         /\ \A n \in to..to + used - 1 : n \in 1..b + all /\ n - to \in 0..used - 1
<1> DEFINE half == (all - (used + 1)) \div 2
<1>1. half \in Nat /\ half + used + 1 <= all
  OBVIOUS
<1>2. to = b + half + 1
  OBVIOUS
<1> HIDE DEF half
<1> QED
  BY <1>1, <1>2

\* The copy of the map holds the blocks in use, in their order.
LEMMA CopyStep ==
  ASSUME NEW p, Posters = {p}, Ordered(p), CopyMap(p), ~ raced'
  PROVE  Ordered(p)'
<1>0. Numbers(p) /\ nodes \in Seq(Nat)
  BY OrderedNumbers DEF Ordered, DequeTypes
<1>1. /\ UNCHANGED <<count, at, blocks, start, finish, bytes, lpc, going, taken, called>>
      /\ ppc[p] = "copying" /\ ppc'[p] = "moving" /\ ppc' = [ppc EXCEPT ![p] = "moving"]
      /\ lpc \notin AtNode
  BY DEF CopyMap, threadVars, AtNode, Ordered, ThreadTypes
<1> DEFINE from == moved[p].start
           used == finish.node - from + 1
           size == Len(nodes) - base
           roomy == size > 2 * (used + 1)
           all == IF roomy THEN size ELSE 2 * size + 2
           to == base' + (all - (used + 1)) \div 2 + 1
<1>2. /\ base' = IF roomy THEN base ELSE Len(nodes)
      /\ nodes' = [n \in 1..base' + all |->
                     IF n \in to..to + used - 1 THEN NodeAt(from + (n - to)) ELSE NodeAt(n)]
      /\ moved' = [moved EXCEPT ![p] = [start |-> to, finish |-> to + used - 1]]
  BY DEF CopyMap
<1>3. from = start.node /\ FirstNode(p) = from /\ LastNode(p) = finish.node /\ FirstBlock = start.block
  BY <1>1 DEF Ordered, MapInv, FirstNode, LastNode, FirstBlock
<1>4. from \in Nat /\ finish.node \in Nat /\ base \in Nat /\ Len(nodes) \in Nat /\ start.block \in Nat
      /\ finish.block \in Nat
  BY <1>0 DEF Numbers, NodeNumbers
<1>5. /\ base < from /\ from <= finish.node /\ finish.node <= Len(nodes)
      /\ finish.node - from = finish.block - start.block
  BY <1>3, MapEnds DEF Ordered, MapInv
<1>6. used \in Nat /\ used > 0 /\ size \in Nat /\ used <= size
  BY <1>4, <1>5
<1>7. all \in Nat /\ all >= used + 1 /\ base' \in Nat /\ base' + all \in Nat
  <2>1. base' \in Nat
    BY <1>2, <1>4
  <2>2. all \in Nat /\ all >= used + 1
    <3> HIDE DEF size, used
    <3> QED
      BY <1>6
  <2> QED
    BY <2>1, <2>2
<1>8. to = base' + (all - (used + 1)) \div 2 + 1
  OBVIOUS
<1>9. /\ to \in Nat /\ base' < to /\ to + used - 1 <= base' + all /\ to + used - 1 \in Nat
      /\ \A n \in to..to + used - 1 : n \in 1..base' + all /\ n - to \in 0..used - 1
  <2> HIDE DEF to, all, used, size
  <2>1. base' \in Nat /\ all \in Nat /\ used \in Nat /\ used > 0 /\ used + 1 <= all
    BY <1>6, <1>7
  <2> QED
    BY ONLY <2>1, <1>8, Middle, Zenon
<1>10. \A n \in Nat : NodeAt(n) \in Nat
  BY <1>0 DEF NodeAt
<1>11. nodes' \in Seq(Nat) /\ Len(nodes') = base' + all /\ DOMAIN nodes' = 1..base' + all
  <2>1. \A n \in to..to + used - 1 : from + (n - to) \in Nat
    <3> HIDE DEF to, used, from
    <3> QED
      BY <1>4, <1>6, <1>9
  <2>2. \A n \in 1..base' + all :
          (IF n \in to..to + used - 1 THEN NodeAt(from + (n - to)) ELSE NodeAt(n)) \in Nat
    <3> HIDE DEF to, all, used, from
    <3> QED
      BY <1>7, <1>10, <2>1
  <2> HIDE DEF to, all, used, from
  <2> QED
    BY <1>2, <1>7, <2>2
<1>12. moved' \in [Posters -> [start : Nat, finish : Nat]]
       /\ moved'[p].start = to /\ moved'[p].finish = to + used - 1
  <2> HIDE DEF to, all, used
  <2> QED
    BY <1>2, <1>9 DEF Ordered, ThreadTypes
<1>13. \A n \in to..to + used - 1 : nodes'[n] = start.block + (n - to)
  <2> TAKE n \in to..to + used - 1
  <2> HIDE DEF to, used, all, from
  <2>1. n \in 1..base' + all /\ n - to \in 0..used - 1
    BY <1>9
  <2>2. nodes'[n] = NodeAt(from + (n - to))
    BY <1>2, <2>1
  <2>3. from + (n - to) \in from..finish.node
    <3>1. used - 1 = finish.node - from
      BY <1>4 DEF used
    <3> QED
      BY <1>4, <2>1, <3>1
  <2>4. NodeAt(from + (n - to)) = nodes[from + (n - to)]
    BY <1>3, <2>3, MapEnds
  <2>5. nodes[from + (n - to)] = start.block + ((from + (n - to)) - from)
    BY <1>3, <2>3 DEF Ordered, MapInv
  <2>6. (from + (n - to)) - from = n - to
    BY <1>4, <2>1
  <2> QED
    BY <2>2, <2>4, <2>5, <2>6
<1>14. (to + used - 1) - to = finish.block - start.block
  <2>1. (to + used - 1) - to = used - 1
    <3> HIDE DEF to, used
    <3> QED
      BY <1>6, <1>9
  <2>2. used - 1 = finish.node - from
    BY <1>4
  <2> HIDE DEF to, used, from
  <2> QED
    BY <1>5, <2>1, <2>2
<1> HIDE DEF to, used, all, roomy, size, from
<1>15. FirstNode(p)' = to /\ LastNode(p)' = to + used - 1 /\ FirstBlock' = start.block
  BY <1>1, <1>12 DEF FirstNode, LastNode, FirstBlock, AtNode
<1>16. start.block <= finish.block
  BY <1>3 DEF Ordered, MapInv
<1>17. MapInv(p)'
  BY <1>1, <1>9, <1>11, <1>13, <1>14, <1>15, <1>16 DEF MapInv
<1>18. DequeTypes'
  BY <1>1, <1>7, <1>11 DEF Ordered, DequeTypes
<1>19. ThreadTypes(p)'
  BY <1>1, <1>12 DEF Ordered, ThreadTypes, PosterPCs, Moving
<1>20. Returned(p)' = Returned(p)
  BY <1>1 DEF Returned
<1>21. StartInv' /\ CalledInv(p)' /\ PollInv(p)' /\ EndInv(p)'
  BY <1>1 DEF Ordered, StartInv, CalledInv, PollInv, EndInv, Moving, Last
<1>22. DequeInv(p)'
  BY <1>1, <1>20 DEF Ordered, DequeInv, Number
<1> QED
  BY <1>17, <1>18, <1>19, <1>21, <1>22 DEF Ordered

-----------------------------------------------------------------------------
(* The loop's steps.                                                           *)

\* The front is moved out of its cell.
LEMMA TakeStep ==
  ASSUME NEW p, Posters = {p}, Ordered(p), TakeFront
  PROVE  Ordered(p)'
<1>0. Numbers(p) /\ start.cur \in Cell /\ finish.cur \in Cell
  BY OrderedNumbers
<1>1. /\ UNCHANGED <<ppc, count, at, moved, nodes, base, start, finish, bytes, going, called>>
      /\ lpc \in {"first", "last"} /\ start.cur # finish.cur /\ taken' = Element(start.cur)
  BY DEF TakeFront, posterVars
<1>2. lpc \notin Holding
  BY <1>1 DEF Holding, AtNode, AtBlock
<1>3. Len(called) + 1 <= Returned(p) /\ Number(start.cur) = Len(called) + 1
  <2>1. /\ Number(finish.cur) = Returned(p) + 1 /\ Number(start.cur) = Len(called) + 1
        /\ Len(called) + 0 <= Returned(p)
    BY <1>2 DEF Ordered, DequeInv
  <2>2. Number(start.cur) # Number(finish.cur)
    BY <1>0, <1>1, NumberOrder
  <2> QED
    BY <1>0, <2>1, <2>2 DEF Numbers, Counts
<1>4. start.cur[1] <= Len(blocks) /\ blocks[start.cur[1]][start.cur[2]] = <<p, Len(called) + 1>>
  <2>1. /\ Len(called) + (IF lpc \in Holding THEN 1 ELSE 0) < Number(start.cur)
        /\ Number(start.cur) <= Returned(p) + (IF ppc[p] \in {"advancing", "entering"} THEN 1 ELSE 0)
    BY <1>0, <1>2, <1>3 DEF Numbers, Counts
  <2> QED
    BY <1>0, <1>3, <2>1 DEF Ordered, DequeInv
<1>5. taken' = <<p, Len(called) + 1>>
  <2>1. start.cur[1] \in 1..Len(blocks) /\ start.cur[2] <= NodeSize
    BY <1>0, <1>4 DEF Numbers, NodeNumbers, CellNumbers
  <2>2. DOMAIN blocks = 1..Len(blocks)
    BY DEF Ordered, DequeTypes
  <2> QED
    BY <1>1, <1>4, <2>1, <2>2 DEF Element
<1>6. taken' # NoTask
  BY <1>5 DEF NoTask
<1>7. /\ lpc' \in {"firstpop", "lastpop"}
      /\ blocks' = [blocks EXCEPT ![start.cur[1]][start.cur[2]] = NoTask]
  BY <1>6 DEF TakeFront
<1>8. /\ blocks' \in Seq(Block) /\ Len(blocks') = Len(blocks)
      /\ \A c \in Cell : c # start.cur /\ c[1] <= Len(blocks) => blocks'[c[1]][c[2]] = blocks[c[1]][c[2]]
  BY <1>0, <1>4, <1>7, CellWritten
<1>9. lpc' \in Holding /\ lpc' \notin AtNode /\ lpc' \notin AtBlock /\ lpc \notin AtNode /\ lpc \notin AtBlock
  BY <1>1, <1>7 DEF Holding, AtNode, AtBlock
<1>10. DequeTypes' /\ StartInv' /\ FirstBlock' = FirstBlock
  BY <1>1, <1>8, <1>9 DEF Ordered, DequeTypes, StartInv, FirstBlock
<1>11. ThreadTypes(p)' /\ Returned(p)' = Returned(p)
  BY <1>1, <1>9 DEF Ordered, ThreadTypes, LoopPCs, Returned
<1>12. CalledInv(p)' /\ PollInv(p)' /\ EndInv(p)'
  BY <1>1, <1>5, <1>7, <1>8, <1>9 DEF Ordered, CalledInv, PollInv, EndInv, Last
<1>13. MapInv(p)'
  BY <1>1, <1>9, <1>10 DEF Ordered, MapInv, FirstNode, LastNode
<1>14. DequeInv(p)'
  <2>1. ASSUME NEW c \in Cell, Len(called) + 1 < Number(c),
               Number(c) <= Returned(p) + (IF ppc[p] \in {"advancing", "entering"} THEN 1 ELSE 0)
        PROVE  c[1] <= Len(blocks) /\ blocks'[c[1]][c[2]] = <<p, Number(c)>>
    <3>1. c # start.cur /\ Len(called) + (IF lpc \in Holding THEN 1 ELSE 0) < Number(c)
      <4>1. Number(c) \in Nat /\ Len(called) \in Nat
        BY <1>0, CellNumber DEF Numbers, Counts
      <4>2. Number(start.cur) < Number(c) /\ Len(called) + 0 < Number(c)
        BY <1>3, <2>1, <4>1
      <4> QED
        BY <1>0, <1>2, <4>1, <4>2, CellNumber
    <3>2. c[1] <= Len(blocks) /\ blocks[c[1]][c[2]] = <<p, Number(c)>>
      BY <2>1, <3>1 DEF Ordered, DequeInv
    <3> QED
      BY <1>8, <3>1, <3>2
  <2>2. Number(finish.cur) = Returned(p) + 1
    BY DEF Ordered, DequeInv
  <2> QED
    BY <1>1, <1>3, <1>8, <1>9, <1>11, <2>1, <2>2 DEF DequeInv, Number
<1> QED
  BY <1>10, <1>11, <1>12, <1>13, <1>14 DEF Ordered

\* start moves past the front, and the task is called.
LEMMA CallSteps ==
  ASSUME NEW p, Posters = {p}, Ordered(p), PopAndCall \/ EnterAndCall
  PROVE  Ordered(p)'
<1>0. Numbers(p) /\ start.cur \in Cell /\ start \in End /\ start.cur = <<start.cur[1], start.cur[2]>>
  BY OrderedNumbers DEF Ordered, DequeTypes
<1>1. /\ UNCHANGED <<ppc, count, at, moved, blocks, nodes, base, finish, bytes, going>>
      /\ called' = Append(called, taken) /\ taken' = NoTask /\ lpc' \in {"first", "last"}
      /\ lpc \in Holding /\ lpc \notin AtNode
  BY DEF PopAndCall, EnterAndCall, CallTaken, posterVars, Holding, AtNode, AtBlock
<1>2. lpc' \notin Holding /\ lpc' \notin AtNode /\ lpc' \notin AtBlock /\ lpc' # "poll" /\ lpc' \in LoopPCs
  BY <1>1 DEF Holding, AtNode, AtBlock, LoopPCs
<1>3. /\ start' = [start EXCEPT !.cur = start'.cur] /\ start'.cur \in Cell
      /\ Number(start'.cur) = Number(start.cur) + 1 /\ start'.cur[1] = start.block
  <2>1. CASE PopAndCall
    <3>1. start.cur # Last(start) /\ start' = [start EXCEPT !.cur = After(start.cur)] /\ lpc \notin AtBlock
      BY <2>1 DEF PopAndCall, AtBlock
    <3>2. start.cur[1] = start.block
      BY <3>1 DEF Ordered, StartInv
    <3>3. start.cur[2] < NodeSize
      <4>1. start.cur[2] # NodeSize
        BY <1>0, <3>1, <3>2 DEF Last
      <4> QED
        BY <1>0, <4>1 DEF Numbers, CellNumbers
    <3>4. After(start.cur) \in Cell /\ Number(After(start.cur)) = Number(start.cur) + 1
      BY <1>0, <3>3, NextCell
    <3>5. start'.cur = After(start.cur) /\ After(start.cur)[1] = start.cur[1]
      BY <1>0, <3>1 DEF End, After
    <3> QED
      BY <3>1, <3>2, <3>4, <3>5
  <2>2. CASE EnterAndCall
    <3>1. lpc \in AtBlock /\ start' = [start EXCEPT !.cur = <<start.block, 1>>]
      BY <2>2 DEF EnterAndCall, AtBlock
    <3>2. start.cur[1] = start.block - 1 /\ start.cur[2] = NodeSize
      BY <3>1 DEF Ordered, StartInv
    <3>3. start.block = start.cur[1] + 1
      BY <1>0, <3>2 DEF Numbers, NodeNumbers, CellNumbers
    <3>4. <<start.block, 1>> \in Cell /\ Number(<<start.block, 1>>) = Number(start.cur) + 1
      BY <1>0, <3>2, <3>3, NextCell
    <3>5. start'.cur = <<start.block, 1>>
      BY <1>0, <3>1 DEF End
    <3> QED
      BY <3>1, <3>4, <3>5
  <2> QED
    BY <2>1, <2>2
<1>4. start' \in End /\ start'.node = start.node /\ start'.block = start.block
  BY <1>0, <1>3 DEF End
<1>5. /\ taken = <<p, Len(called) + 1>> /\ Len(called) + 1 <= Returned(p)
      /\ Number(start.cur) = Len(called) + 1 /\ called \in Seq(Task)
  BY <1>1 DEF Ordered, CalledInv, DequeInv, ThreadTypes
<1>6. taken \in Task
  <2>1. Returned(p) <= MaxTasks
    <3>1. Returned(p) \in {count[p], count[p] - 1}
      BY DEF Returned
    <3> QED
      BY <1>0, <3>1 DEF Numbers, Counts
  <2>2. Len(called) + 1 \in 1..MaxTasks
    BY <1>0, <1>5, <2>1 DEF Numbers, Counts
  <2> QED
    BY <1>5, <2>2 DEF Task
<1>7. /\ called' \in Seq(Task) /\ Len(called') = Len(called) + 1 /\ called'[Len(called) + 1] = taken
      /\ \A i \in 1..Len(called) : called'[i] = called[i]
  BY <1>1, <1>5, <1>6
<1>8. CalledInv(p)'
  <2>1. \A i \in 1..Len(called') : i \in 1..Len(called) \/ i = Len(called) + 1
    BY <1>0, <1>7 DEF Numbers, Counts
  <2>2. \A i \in 1..Len(called) : called[i] = <<p, i>>
    BY DEF Ordered, CalledInv
  <2>3. \A i \in 1..Len(called') : called'[i] = <<p, i>>
    BY <1>5, <1>7, <2>1, <2>2
  <2> QED
    BY <1>1, <1>2, <2>3 DEF CalledInv
<1>9. DequeTypes' /\ StartInv' /\ FirstBlock' = FirstBlock
  BY <1>1, <1>2, <1>3, <1>4 DEF Ordered, DequeTypes, StartInv, FirstBlock
<1>10. ThreadTypes(p)' /\ Returned(p)' = Returned(p)
  BY <1>1, <1>2, <1>7 DEF Ordered, ThreadTypes, Returned
<1>11. PollInv(p)' /\ EndInv(p)' /\ MapInv(p)'
  BY <1>1, <1>2, <1>4, <1>9 DEF Ordered, PollInv, EndInv, MapInv, FirstNode, LastNode, Last
<1>12. DequeInv(p)'
  <2>1. Len(called') + 0 = Len(called) + 1 /\ Len(called') + 0 <= Returned(p)
    BY <1>0, <1>5, <1>7 DEF Numbers, Counts
  <2>2. Number(start'.cur) = Len(called') + 1
    BY <1>3, <1>5, <1>7
  <2>3. /\ Number(finish.cur) = Returned(p) + 1
        /\ \A c \in Cell :
             /\ Len(called) + 1 < Number(c)
             /\ Number(c) <= Returned(p) + (IF ppc[p] \in {"advancing", "entering"} THEN 1 ELSE 0)
             => c[1] <= Len(blocks) /\ blocks[c[1]][c[2]] = <<p, Number(c)>>
    BY <1>1 DEF Ordered, DequeInv
  <2> QED
    BY <1>1, <1>2, <1>10, <2>1, <2>2, <2>3 DEF DequeInv, Number
<1> QED
  BY <1>8, <1>9, <1>10, <1>11, <1>12 DEF Ordered

\* start moves to the next place of the map, where the next block is.
LEMMA LeaveStep ==
  ASSUME NEW p, Posters = {p}, Ordered(p), LeaveNode, ~ raced'
  PROVE  Ordered(p)'
<1>0. Numbers(p) /\ start.cur \in Cell /\ finish.cur \in Cell /\ start \in End
  BY OrderedNumbers DEF Ordered, DequeTypes
<1>1. /\ UNCHANGED <<ppc, count, at, moved, blocks, nodes, base, finish, bytes, taken, called>>
      /\ lpc \in {"firstpop", "lastpop"} /\ lpc' \in AtNode /\ going' = start.node + 1
      /\ start' = [start EXCEPT !.node = start.node + 1] /\ start.cur = Last(start)
      /\ ppc[p] \notin {"copying", "moving", "setting"}
  BY DEF LeaveNode, posterVars, AtNode
<1>2. /\ lpc \in Holding /\ lpc' \in Holding /\ lpc' \in LoopPCs /\ lpc \notin AtNode /\ lpc \notin AtBlock
      /\ lpc' \notin AtBlock /\ lpc' # "poll"
  BY <1>1 DEF Holding, AtNode, AtBlock, LoopPCs
<1>3. start.node + 1 \in Nat /\ start.block + 1 \in Nat /\ start.node \in Nat
  BY <1>0 DEF Numbers, NodeNumbers
<1>4. /\ start'.node = start.node + 1 /\ start'.block = start.block
      /\ start'.cur = start.cur /\ start' \in End
  BY <1>0, <1>1, <1>3 DEF End
<1>5. start.cur[1] = start.block /\ start.cur[2] = NodeSize
  BY <1>1, <1>2 DEF Ordered, StartInv, Last
<1>6. start.block + 1 <= finish.block
  <2>1. Number(start.cur) < Number(finish.cur)
    <3>1. /\ Number(start.cur) = Len(called) + 1 /\ Number(finish.cur) = Returned(p) + 1
          /\ Len(called) + 1 <= Returned(p)
      BY <1>2 DEF Ordered, DequeInv
    <3> QED
      BY <1>0, <3>1 DEF Numbers, Counts
  <2>2. Before(start.cur, finish.cur)
    BY <1>0, <2>1, NumberOrder
  <2>3. start.cur[1] < finish.cur[1]
    BY <1>0, <1>5, <2>2 DEF Before, Numbers, CellNumbers
  <2>4. finish.cur[1] \in {finish.block, finish.block - 1}
    BY DEF Ordered, EndInv
  <2> QED
    BY <1>0, <1>5, <2>3, <2>4 DEF Numbers, NodeNumbers, CellNumbers
<1>7. DequeTypes' /\ StartInv'
  BY <1>1, <1>2, <1>3, <1>4, <1>5 DEF Ordered, DequeTypes, StartInv
<1>8. ThreadTypes(p)' /\ Returned(p)' = Returned(p)
  BY <1>1, <1>2 DEF Ordered, ThreadTypes, Returned
<1>9. CalledInv(p)' /\ PollInv(p)' /\ EndInv(p)'
  BY <1>1, <1>2 DEF Ordered, CalledInv, PollInv, EndInv, Last
<1>10. DequeInv(p)'
  BY <1>1, <1>2, <1>4, <1>8 DEF Ordered, DequeInv, Number
<1>11. MapInv(p)'
  <2>1. /\ FirstNode(p) = start.node /\ FirstBlock = start.block
        /\ FirstNode(p)' = start.node + 1 /\ FirstBlock' = start.block + 1 /\ LastNode(p)' = LastNode(p)
    BY <1>1, <1>2, <1>4 DEF FirstNode, FirstBlock, LastNode
  <2>2. /\ base < start.node /\ LastNode(p) <= Len(nodes)
        /\ LastNode(p) - start.node = finish.block - start.block
        /\ \A n \in start.node..LastNode(p) : nodes[n] = start.block + (n - start.node)
    BY <2>1 DEF Ordered, MapInv
  <2>3. LastNode(p) \in Nat /\ base \in Nat /\ finish.block \in Nat /\ start.block \in Nat
    BY <1>0, MapEnds DEF Numbers, NodeNumbers
  <2>4. base < start.node + 1 /\ LastNode(p) - (start.node + 1) = finish.block - (start.block + 1)
    <3>1. base < start.node /\ LastNode(p) - start.node = finish.block - start.block
      BY <2>2
    <3> QED
      BY <1>3, <2>3, <3>1
  <2>5. \A n \in start.node + 1..LastNode(p) :
          n \in start.node..LastNode(p)
            /\ start.block + (n - start.node) = (start.block + 1) + (n - (start.node + 1))
    BY <1>3, <2>3
  <2> QED
    BY <1>1, <1>2, <1>4, <1>6, <2>1, <2>2, <2>4, <2>5 DEF MapInv
<1> QED
  BY <1>7, <1>8, <1>9, <1>10, <1>11 DEF Ordered

\* start learns which block that is.
LEMMA ReadBlockStep ==
  ASSUME NEW p, Posters = {p}, Ordered(p), ReadBlock
  PROVE  Ordered(p)'
<1>0. Numbers(p) /\ start \in End
  BY OrderedNumbers DEF Ordered, DequeTypes
<1>1. /\ UNCHANGED <<ppc, count, at, moved, blocks, nodes, base, finish, bytes, going, taken, called>>
      /\ lpc \in AtNode /\ lpc' \in AtBlock
      /\ start' = [start EXCEPT !.block = NodeAt(going)]
  BY DEF ReadBlock, posterVars, AtNode, AtBlock
<1>2. /\ lpc \in Holding /\ lpc' \in Holding /\ lpc' \in LoopPCs /\ lpc \notin AtBlock
      /\ lpc' \notin AtNode /\ lpc' # "poll"
  BY <1>1 DEF Holding, AtNode, AtBlock, LoopPCs
<1>3. going = start.node /\ ppc[p] \notin {"moving", "setting"}
  BY <1>1 DEF Ordered, MapInv
<1>4. NodeAt(going) = start.block + 1 /\ start.block + 1 \in Nat
  BY <1>0, <1>1, <1>3, MapEnds DEF FirstNode, FirstBlock, Numbers, NodeNumbers
<1>5. /\ start'.node = start.node /\ start'.block = start.block + 1
      /\ start'.cur = start.cur /\ start' \in End
  BY <1>0, <1>1, <1>4 DEF End
<1>6. start.cur[1] = start.block /\ start.cur[2] = NodeSize /\ start.block = (start.block + 1) - 1
  BY <1>0, <1>1, <1>2 DEF Ordered, StartInv, Numbers, NodeNumbers
<1>7. DequeTypes' /\ StartInv'
  BY <1>1, <1>2, <1>5, <1>6 DEF Ordered, DequeTypes, StartInv
<1>8. ThreadTypes(p)' /\ Returned(p)' = Returned(p)
  BY <1>1, <1>2 DEF Ordered, ThreadTypes, Returned
<1>9. CalledInv(p)' /\ PollInv(p)' /\ EndInv(p)'
  BY <1>1, <1>2 DEF Ordered, CalledInv, PollInv, EndInv, Last
<1>10. DequeInv(p)'
  BY <1>1, <1>2, <1>5, <1>8 DEF Ordered, DequeInv, Number
<1>11. FirstNode(p)' = FirstNode(p) /\ LastNode(p)' = LastNode(p) /\ FirstBlock' = FirstBlock
  BY <1>1, <1>2, <1>5 DEF FirstNode, LastNode, FirstBlock
<1>12. MapInv(p)'
  BY <1>1, <1>2, <1>5, <1>11 DEF Ordered, MapInv
<1> QED
  BY <1>7, <1>8, <1>9, <1>10, <1>12 DEF Ordered

\* The steps that leave the deque alone.
LEMMA TurnSteps ==
  ASSUME NEW p, Posters = {p}, Ordered(p), GoToPoll \/ PollPipe \/ DrainPipe \/ EndTurn
  PROVE  Ordered(p)'
<1>1. /\ UNCHANGED <<ppc, count, at, moved, blocks, nodes, base, start, finish, going, taken, called>>
      /\ lpc \in {"first", "poll", "dispatch", "last"} /\ lpc' \in {"first", "poll", "dispatch", "last"}
      /\ bytes' \in {bytes, 0} /\ (lpc' = "poll" => start.cur = finish.cur)
  BY DEF GoToPoll, PollPipe, DrainPipe, EndTurn, posterVars, dequeVars
<1>2. /\ lpc \notin Holding /\ lpc \notin AtNode /\ lpc \notin AtBlock
      /\ lpc' \notin Holding /\ lpc' \notin AtNode /\ lpc' \notin AtBlock /\ lpc' \in LoopPCs
  BY <1>1 DEF Holding, AtNode, AtBlock, LoopPCs
<1>3. DequeTypes' /\ StartInv' /\ FirstBlock' = FirstBlock
  BY <1>1, <1>2 DEF Ordered, DequeTypes, StartInv, FirstBlock
<1>4. ThreadTypes(p)' /\ Returned(p)' = Returned(p)
  BY <1>1, <1>2, PostersAssumption DEF Ordered, ThreadTypes, Returned
<1>5. CalledInv(p)' /\ PollInv(p)' /\ EndInv(p)'
  BY <1>1, <1>2 DEF Ordered, CalledInv, PollInv, EndInv, Last
<1>6. MapInv(p)'
  BY <1>1, <1>2, <1>3 DEF Ordered, MapInv, FirstNode, LastNode
<1>7. DequeInv(p)'
  BY <1>1, <1>2, <1>4 DEF Ordered, DequeInv, Number
<1> QED
  BY <1>3, <1>4, <1>5, <1>6, <1>7 DEF Ordered

LEMMA PosterInit ==
  ASSUME NEW p, Posters = {p}, PostInit
  PROVE  PosterInv(p)
<1> DEFINE middle == (MapSize - 1) \div 2 + 1
<1>1. /\ MapSize \in Nat /\ MapSize > 0 /\ NodeSize \in Nat /\ NodeSize > 0 /\ MaxTasks \in Nat
      /\ PipeLimit \in Nat
  BY PostersAssumption
<1>2. middle \in Nat /\ 1 <= middle /\ middle <= MapSize
  BY <1>1
<1>3. /\ nodes = [n \in 1..MapSize |-> IF n = middle THEN 1 ELSE 0]
      /\ start = [node |-> middle, block |-> 1, cur |-> <<1, 1>>] /\ finish = start
      /\ ppc = [q \in Posters |-> "ready"] /\ count = [q \in Posters |-> 0] /\ at = [q \in Posters |-> <<1, 1>>]
      /\ moved = [q \in Posters |-> [start |-> 0, finish |-> 0]]
      /\ blocks = <<EmptyBlock>> /\ base = 0 /\ bytes = 0 /\ lpc = "first" /\ going = 0
      /\ taken = NoTask /\ called = <<>> /\ raced = FALSE
  BY DEF PostInit
<1> HIDE DEF middle
<1>4. ppc[p] = "ready" /\ count[p] = 0 /\ lpc \notin Holding /\ lpc \notin AtNode /\ lpc \notin AtBlock
  BY <1>3 DEF Holding, AtNode, AtBlock
<1>5. <<1, 1>> \in Cell /\ Number(<<1, 1>>) = 1 /\ EmptyBlock \in Block
  <2>1. 0 * NodeSize = 0
    BY <1>1
  <2> QED
    BY <1>1, <2>1 DEF Cell, Number, EmptyBlock, Block
<1>6. ThreadTypes(p)
  BY <1>1, <1>3, <1>4, <1>5 DEF ThreadTypes, PosterPCs, LoopPCs
<1>7. nodes \in Seq(Nat) /\ Len(nodes) = MapSize /\ nodes[middle] = 1
  BY <1>1, <1>2, <1>3
<1>8. DequeTypes /\ Len(blocks) = 1
  BY <1>2, <1>3, <1>5, <1>7 DEF DequeTypes, End
<1>9. MapInv(p)
  <2>1. FirstNode(p) = middle /\ LastNode(p) = middle /\ FirstBlock = 1 /\ finish.block = 1
    BY <1>3, <1>4 DEF FirstNode, LastNode, FirstBlock
  <2>2. \A n \in middle..middle : nodes[n] = 1 + (n - middle)
    <3>1. \A n \in middle..middle : n = middle
      BY <1>2
    <3>2. 1 + (middle - middle) = 1
      BY <1>2
    <3> QED
      BY <1>7, <3>1, <3>2
  <2>3. middle - middle = 1 - 1 /\ base < middle /\ 1 <= 1
    BY <1>2, <1>3
  <2> QED
    BY <1>2, <1>4, <1>7, <2>1, <2>2, <2>3 DEF MapInv
<1>10. EndInv(p) /\ StartInv /\ CalledInv(p) /\ PollInv(p)
  BY <1>3, <1>4, <1>8 DEF EndInv, Moving, StartInv, CalledInv, PollInv
<1>11. DequeInv(p)
  <2>1. Returned(p) = 0 /\ Len(called) = 0 /\ Number(start.cur) = 1 /\ Number(finish.cur) = 1
    BY <1>3, <1>4, <1>5 DEF Returned
  <2>2. \A c \in Cell : ~ (0 < Number(c) /\ Number(c) <= 0)
    BY CellNumber
  <2> QED
    BY <1>4, <2>1, <2>2 DEF DequeInv
<1> QED
  BY <1>3, <1>6, <1>8, <1>9, <1>10, <1>11 DEF PosterInv, Ordered

LEMMA PosterStep ==
  ASSUME NEW p, Posters = {p}, PosterInv(p), [PostNext]_postVars
  PROVE  PosterInv(p)'
<1>1. raced' \in BOOLEAN /\ (raced => raced')
  BY DEF PosterInv, PostNext, LoopThread, Posting, postVars, Begin, ReadFinish, ReadMap, CopyMap,
         MoveNode, MoveBlock, MoveFinish, AddNode, WriteElement, AdvanceFinish, NextNode, EnterNext,
         WriteWakeup, TakeFront, PopAndCall, EnterAndCall, CallTaken, LeaveNode, ReadBlock,
         GoToPoll, PollPipe, DrainPipe, EndTurn
<1> SUFFICES ASSUME ~ raced' PROVE Ordered(p)'
  BY <1>1 DEF PosterInv
<1>2. Ordered(p)
  BY <1>1 DEF PosterInv
<1>3. CASE UNCHANGED postVars
  BY <1>2, <1>3 DEF postVars, posterVars, dequeVars, threadVars, Ordered, ThreadTypes, DequeTypes, MapInv,
         EndInv, StartInv, DequeInv, CalledInv, PollInv, FirstNode, LastNode, FirstBlock, Returned, Number, Last
<1>4. CASE LoopThread
  BY <1>2, <1>4, TakeStep, CallSteps, LeaveStep, ReadBlockStep, TurnSteps DEF LoopThread
<1>5. CASE Begin(p) \/ Posting(p)
  BY <1>2, <1>5, QuietSteps, WakeupStep, WriteStep, AdvanceStep, AddStep, NextNodeStep, MoveSteps, CopyStep
     DEF Posting
<1> QED
  BY <1>3, <1>4, <1>5 DEF PostNext

LEMMA PosterInvSuffices ==
  ASSUME NEW p, Posters = {p}, PosterInv(p)
  PROVE  PostersServed
<1> SUFFICES ASSUME ~ raced PROVE NoPostLost /\ OnlyTasksCalled /\ AsleepMeansServed /\ PosterOrder
  BY DEF PostersServed
<1>1. Ordered(p)
  BY DEF PosterInv
<1>2. Numbers(p) /\ start.cur \in Cell /\ finish.cur \in Cell
  BY <1>1, OrderedNumbers
<1>3. /\ Number(finish.cur) = Returned(p) + 1 /\ Number(start.cur) = Len(called) + 1
      /\ Len(called) + (IF lpc \in Holding THEN 1 ELSE 0) <= Returned(p)
      /\ \A i \in 1..Len(called) : called[i] = <<p, i>>
      /\ taken = IF lpc \in Holding THEN <<p, Len(called) + 1>> ELSE NoTask
  BY <1>1 DEF Ordered, DequeInv, CalledInv
<1>4. Pushed(p) = {<<p, n>> : n \in 1..Returned(p)}
  BY DEF Pushed, Returned
<1>5. Called = {<<p, n>> : n \in 1..Len(called)}
  <2>1. DOMAIN called = 1..Len(called)
    BY <1>1 DEF Ordered, ThreadTypes
  <2> QED
    BY <1>3, <2>1 DEF Called
<1>6. NoPostLost
  <2>1. ASSUME NEW n \in 1..Returned(p) PROVE <<p, n>> \in Queued \cup Called \cup {taken}
    <3>1. CASE n <= Len(called)
      BY <1>2, <1>5, <3>1 DEF Numbers, Counts
    <3>2. CASE lpc \in Holding /\ n = Len(called) + 1
      BY <1>3, <3>2
    <3>3. CASE Len(called) + (IF lpc \in Holding THEN 1 ELSE 0) < n
      <4>1. PICK c \in Cell : Number(c) = n
        BY CellOf
      <4>2. n <= Returned(p) + (IF ppc[p] \in {"advancing", "entering"} THEN 1 ELSE 0)
        BY <1>2 DEF Numbers, Counts
      <4>3. c[1] <= Len(blocks) /\ blocks[c[1]][c[2]] = <<p, n>>
        BY <1>1, <3>3, <4>1, <4>2 DEF Ordered, DequeInv
      <4>4. c \in (DOMAIN blocks) \X (1..NodeSize)
        <5>1. DOMAIN blocks = 1..Len(blocks) /\ Len(blocks) \in Nat
          BY <1>1 DEF Ordered, DequeTypes
        <5>2. c[1] \in 1..Len(blocks) /\ c[2] \in 1..NodeSize /\ c = <<c[1], c[2]>>
          BY <4>3, <5>1, CellNumber
        <5> QED
          BY <5>1, <5>2
      <4>5. ~ (Number(c) < Number(start.cur)) /\ Number(c) < Number(finish.cur)
        BY <1>2, <1>3, <3>3, <4>1 DEF Numbers, Counts
      <4>6. ~ Before(c, start.cur) /\ Before(c, finish.cur)
        BY <1>2, <4>5, NumberOrder
      <4> QED
        BY <4>3, <4>4, <4>6 DEF Queued
    <3>4. n <= Len(called) \/ n = Len(called) + 1 \/ Len(called) + 1 < n
      BY <1>2 DEF Numbers, Counts
    <3>5. lpc \notin Holding /\ n = Len(called) + 1 =>
            Len(called) + (IF lpc \in Holding THEN 1 ELSE 0) < n
      BY <1>2 DEF Numbers, Counts
    <3>6. Len(called) + 1 < n => Len(called) + (IF lpc \in Holding THEN 1 ELSE 0) < n
      BY <1>2 DEF Numbers, Counts
    <3> QED
      BY <3>1, <3>2, <3>3, <3>4, <3>5, <3>6
  <2> QED
    BY <1>4, <2>1 DEF NoPostLost
<1>7. OnlyTasksCalled
  BY <1>1 DEF OnlyTasksCalled, Ordered, ThreadTypes, LoopPCs, Holding, AtNode, AtBlock
<1>8. AsleepMeansServed
  <2> SUFFICES ASSUME lpc = "poll", bytes = 0, ppc[p] = "ready" PROVE Queued = {}
    BY DEF AsleepMeansServed
  <2>1. start.cur = finish.cur
    BY <1>1 DEF Ordered, PollInv
  <2> QED
    BY <2>1 DEF Queued
<1>9. PosterOrder
  <2>1. DOMAIN called = 1..Len(called)
    BY <1>1 DEF Ordered, ThreadTypes
  <2>2. \A i \in DOMAIN called : called[i][2] = i
    BY <1>3, <2>1
  <2> QED
    BY <2>2 DEF PosterOrder
<1> QED
  BY <1>6, <1>7, <1>8, <1>9

\* One thread posts while the loop runs, over blocks that end, a map that fills and a
\* self-pipe that may fill: at every interleaving of the accesses of push_back() and
\* pop_front() no task is lost, slept on, repeated or reordered and nothing else is called,
\* unless pop_front() changed the block while push_back() moved the map.
THEOREM OnePosterServed ==
  ASSUME NEW p, Posters = {p}
  PROVE  PostSpec => []PostersServed
<1>1. PostInit => PosterInv(p)
  BY PosterInit
<1>2. PosterInv(p) /\ [PostNext]_postVars => PosterInv(p)'
  BY PosterStep
<1>3. PosterInv(p) => PostersServed
  BY PosterInvSuffices
<1> QED
  BY <1>1, <1>2, <1>3, PTL DEF PostSpec

================================================================================
