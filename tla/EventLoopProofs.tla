--------------------------- MODULE EventLoopProofs ---------------------------
(* Theorems about EventLoop, for every value of its constants.               *)
EXTENDS EventLoop, SequenceTheorems, TLAPS

USE FdsAssumption, PipeAssumption, BoundsAssumption

-----------------------------------------------------------------------------
(* What one call from application code does, stated once for the five actions *)
(* that run such code.                                                        *)

LEMMA NewTimerType ==
  ASSUME TypeOK, NEW d \in Delays, NEW r \in {0, d}
  PROVE  NewTimer(d, r) \in Timer
BY DEF TypeOK, NewTimer, Timer

LEMMA CallEffect ==
  ASSUME TypeOK, NEW k \in PCs \ {"stuck"}, NEW q \in Seq(Nat), NEW ts \in Seq(Timer), NEW g,
         Call(k, q, ts, g)
  PROVE  /\ \/ timers' = ts
            \/ \E d \in Delays : \E r \in {0, d} : timers' = Append(ts, NewTimer(d, r))
         /\ timers' \in Seq(Timer)
         /\ \/ pc' = k /\ tasks' = q /\ posted' = posted /\ pipe' = pipe
            \/ /\ tasks' = Append(q, posted + 1) /\ posted' = posted + 1
               /\ \/ pc' = k /\ pipe < PipeCap /\ pipe' = pipe + 1
                  \/ pc' = "stuck" /\ pipe = PipeCap /\ pipe' = pipe
         /\ pc' \in PCs /\ tasks' \in Seq(Nat) /\ posted' \in Nat /\ pipe' \in 0..PipeCap
         /\ idles' \in Nat /\ watched' \subseteq Fds /\ running' \in BOOLEAN
<1>1. pipe \in 0..PipeCap /\ posted \in Nat /\ idles \in Nat /\ watched \subseteq Fds
      /\ running \in BOOLEAN /\ clock \in Nat
  BY DEF TypeOK
<1>2. ASSUME NEW d \in Delays, NEW r \in {0, d}
      PROVE  Append(ts, NewTimer(d, r)) \in Seq(Timer)
  BY <1>2, NewTimerType
<1>3. CASE /\ pc' = k /\ tasks' = q /\ timers' = ts
           /\ UNCHANGED <<posted, pipe, idles, watched, running>>
  BY <1>1, <1>3
<1>4. CASE Enqueue(k, q) /\ timers' = ts /\ UNCHANGED <<idles, watched, running>>
  BY <1>1, <1>4 DEF Enqueue, PCs
<1>5. CASE /\ "timers" \in g /\ Schedule(ts)
           /\ pc' = k /\ tasks' = q
           /\ UNCHANGED <<posted, pipe, idles, watched, running>>
  BY <1>1, <1>2, <1>5 DEF Schedule
<1>6. CASE /\ "idles" \in g /\ Idle
           /\ pc' = k /\ tasks' = q /\ timers' = ts
           /\ UNCHANGED <<posted, pipe, watched, running>>
  BY <1>1, <1>6 DEF Idle
<1>7. CASE /\ Watch
           /\ pc' = k /\ tasks' = q /\ timers' = ts
           /\ UNCHANGED <<posted, pipe, idles, running>>
  BY <1>1, <1>7 DEF Watch
<1>8. CASE /\ Stop
           /\ pc' = k /\ tasks' = q /\ timers' = ts
           /\ UNCHANGED <<posted, pipe, idles, watched>>
  BY <1>1, <1>8 DEF Stop
<1>9. QED
  BY <1>3, <1>4, <1>5, <1>6, <1>7, <1>8 DEF Call

\* The same, as far as the queue and the self-pipe go.
LEMMA QueueEffect ==
  ASSUME TypeOK, NEW k \in PCs \ {"stuck"}, NEW q \in Seq(Nat), NEW ts \in Seq(Timer), NEW g,
         Call(k, q, ts, g)
  PROVE  \/ pc' = k /\ tasks' = q /\ posted' = posted /\ pipe' = pipe
         \/ /\ tasks' = Append(q, posted + 1) /\ tasks' # <<>> /\ posted' = posted + 1
            /\ \/ pc' = k /\ pipe < PipeCap /\ pipe' = pipe + 1
               \/ pc' = "stuck" /\ pipe = PipeCap /\ pipe' = pipe
<1>1. posted + 1 \in Nat
  BY DEF TypeOK
<1>2. Len(Append(q, posted + 1)) = Len(q) + 1 /\ Len(q) \in Nat
  BY <1>1
<1>3. Append(q, posted + 1) # <<>>
  BY <1>2
<1>4. QED
  BY <1>3, CallEffect

-----------------------------------------------------------------------------
(* Type correctness.                                                         *)

LEMMA FiredType ==
  ASSUME NEW t \in Timer, tnow \in Nat
  PROVE  /\ Count(t) \in Timer /\ Fired(t) \in Timer
         /\ Fired(t).repeat = t.repeat /\ Fired(t).fires = Count(t).fires
         /\ t.repeat = 0 => ~ Fired(t).active
         /\ t.repeat # 0 => Fired(t).active = t.active /\ Fired(t).due > tnow
<1>1. Count(t) \in Timer /\ Count(t).repeat = t.repeat /\ Count(t).active = t.active
  BY DEF Count, Timer
<1>2. \A c \in Timer :
        LET d == [c EXCEPT !.active = FALSE]
        IN  d \in Timer /\ d.repeat = c.repeat /\ d.fires = c.fires /\ ~ d.active
  BY DEF Timer
<1>3. \A c \in Timer, n \in Nat :
        LET d == [c EXCEPT !.due = n]
        IN  /\ d \in Timer /\ d.repeat = c.repeat /\ d.fires = c.fires
            /\ d.active = c.active /\ d.due = n
  BY DEF Timer
<1>4. t.repeat \in Nat /\ tnow + t.repeat \in Nat
  BY DEF Timer
<1>5. CASE t.repeat = 0
  BY <1>1, <1>2, <1>5 DEF Fired
<1>6. CASE t.repeat # 0
  BY <1>1, <1>3, <1>4, <1>6 DEF Fired
<1>7. QED
  BY <1>5, <1>6

\* An update of timers_ at any position leaves a sequence of timers.
LEMMA UpdateType ==
  ASSUME TypeOK
  PROVE  /\ [timers EXCEPT ![pos] = Fired(@)] \in Seq(Timer)
         /\ [timers EXCEPT ![pos] = Count(@)] \in Seq(Timer)
<1>1. timers \in Seq(Timer) /\ tnow \in Nat /\ pos \in Nat
  BY DEF TypeOK
<1>2. CASE pos \in 1..Len(timers)
  <2>1. timers[pos] \in Timer
    BY <1>1, <1>2
  <2>2. Fired(timers[pos]) \in Timer /\ Count(timers[pos]) \in Timer
    BY <1>1, <2>1, FiredType
  <2>3. QED
    BY <1>1, <1>2, <2>2
<1>3. CASE pos \notin 1..Len(timers)
  <2>1. \A x : [timers EXCEPT ![pos] = x] = timers
    BY <1>1, <1>3
  <2>2. QED
    BY <1>1, <2>1
<1>4. QED
  BY <1>2, <1>3

\* Every variable of Loop keeps its type through every step.
THEOREM TypeCorrect == Spec => []TypeOK
<1>1. Init => TypeOK
  <2>1. ASSUME Init
        PROVE  timers \in Seq(Timer) /\ tasks \in Seq(Nat) /\ ran \in Seq(Nat)
    BY <2>1 DEF Init
  <2>2. ASSUME Init
        PROVE  /\ posted \in Nat /\ drained \in Nat /\ idles \in Nat /\ pipe \in 0..PipeCap
               /\ pos \in Nat /\ end \in Nat /\ tnow \in Nat /\ clock \in Nat
    BY <2>2 DEF Init
  <2>3. ASSUME Init
        PROVE  watched \subseteq Fds /\ readable \subseteq Fds /\ ready \subseteq Fds \cup {WakeFd}
    BY <2>3 DEF Init
  <2>4. ASSUME Init
        PROVE  pc \in PCs
    BY <2>4 DEF Init, PCs
  <2>5. ASSUME Init
        PROVE  running \in BOOLEAN /\ looping \in BOOLEAN /\ torn \in BOOLEAN
    BY <2>5 DEF Init
  <2>6. QED
    BY <2>1, <2>2, <2>3, <2>4, <2>5 DEF TypeOK
<1>2. TypeOK /\ [Next]_vars => TypeOK'
  <2> SUFFICES ASSUME TypeOK, [Next]_vars
               PROVE  TypeOK'
    OBVIOUS
  <2> USE DEF queueVars, appVars, rangeVars, envVars, histVars
  <2>1. CASE AppCall
    <3>1. tasks \in Seq(Nat) /\ timers \in Seq(Timer) /\ "app" \in PCs \ {"stuck"}
      BY DEF TypeOK, PCs
    <3>2. QED
      BY <2>1, <3>1, CallEffect DEF AppCall, TypeOK
  <2>2. CASE Run
    BY <2>2 DEF Run, TypeOK, PCs
  <2>3. CASE RunOnce
    BY <2>3 DEF RunOnce, TypeOK, PCs
  <2>4. CASE RunTask
    <3>1. /\ Tail(tasks) \in Seq(Nat) /\ Head(tasks) \in Nat /\ timers \in Seq(Timer)
          /\ pc \in PCs \ {"stuck"} /\ Append(ran, Head(tasks)) \in Seq(Nat)
      BY <2>4 DEF RunTask, TypeOK, PCs
    <3>2. QED
      BY <2>4, <3>1, CallEffect DEF RunTask, TypeOK
  <2>5. CASE StartTimers
    BY <2>5 DEF StartTimers, TypeOK, PCs
  <2>6. CASE SkipTimer
    BY <2>6 DEF SkipTimer, TypeOK
  <2>7. CASE FireTimer
    <3>1. /\ tasks \in Seq(Nat) /\ "timers" \in PCs \ {"stuck"} /\ pos + 1 \in Nat
      BY DEF TypeOK, PCs
    <3>2. QED
      BY <2>7, <3>1, UpdateType, CallEffect DEF FireTimer, TypeOK
  <2>8. CASE FireTimerTorn
    <3> DEFINE ts == [timers EXCEPT ![pos] = Count(@)]
    <3>1. ts \in Seq(Timer)
      BY UpdateType
    <3>2. timers' \in Seq(Timer)
      <4>1. PICK d \in Delays : \E r \in {0, d} : timers' = Append(ts, NewTimer(d, r))
        BY <2>8 DEF FireTimerTorn, Schedule
      <4>2. PICK r \in {0, d} : timers' = Append(ts, NewTimer(d, r))
        BY <4>1
      <4> HIDE DEF ts
      <4>3. QED
        BY <3>1, <4>2, NewTimerType
    <3>3. QED
      BY <2>8, <3>2 DEF FireTimerTorn, TypeOK, PCs
  <2>9. CASE TimersDone
    BY <2>9 DEF TimersDone, TypeOK, PCs
  <2>10. CASE Poll
    BY <2>10 DEF Poll, TypeOK, PCs
  <2>11. CASE DrainWakeup
    BY <2>11 DEF DrainWakeup, TypeOK
  <2>12. CASE Dispatch
    <3>1. /\ tasks \in Seq(Nat) /\ timers \in Seq(Timer) /\ "dispatch" \in PCs \ {"stuck"}
          /\ ready' \subseteq Fds \cup {WakeFd} /\ readable' \subseteq Fds
      BY <2>12 DEF Dispatch, TypeOK, PCs
    <3>2. QED
      BY <2>12, <3>1, CallEffect DEF Dispatch, TypeOK
  <2>13. CASE StartIdles
    BY <2>13 DEF StartIdles, TypeOK, PCs
  <2>14. CASE RunIdle
    <3>1. /\ tasks \in Seq(Nat) /\ timers \in Seq(Timer) /\ "idles" \in PCs \ {"stuck"}
          /\ pos + 1 \in Nat
      BY DEF TypeOK, PCs
    <3>2. QED
      BY <2>14, <3>1, CallEffect DEF RunIdle, TypeOK
  <2>15. CASE RunIdleTorn
    BY <2>15 DEF RunIdleTorn, Idle, TypeOK, PCs
  <2>16. CASE IdlesDone
    BY <2>16 DEF IdlesDone, TypeOK, PCs
  <2>17. CASE EndIteration
    BY <2>17 DEF EndIteration, TypeOK, PCs
  <2>18. CASE Tick
    BY <2>18 DEF Tick, TypeOK
  <2>19. CASE BecomeReadable
    BY <2>19 DEF BecomeReadable, TypeOK
  <2>20. CASE UNCHANGED vars
    BY <2>20 DEF vars, TypeOK
  <2>21. QED
    BY <2>1, <2>2, <2>3, <2>4, <2>5, <2>6, <2>7, <2>8, <2>9, <2>10, <2>11, <2>12, <2>13,
       <2>14, <2>15, <2>16, <2>17, <2>18, <2>19, <2>20 DEF Next, LoopStep
<1>3. QED
  BY <1>1, <1>2, PTL DEF Spec

-----------------------------------------------------------------------------
(* The self-pipe.                                                            *)

\* Each byte in the self-pipe stands for one post made since the last drain, and
\* a blocked thread has posted one task whose byte it could not write.
PipeAccount ==
  IF pc = "stuck" THEN pipe = PipeCap /\ posted = drained + pipe + 1
                  ELSE posted = drained + pipe

WakeInv == NoLostWakeup /\ PipeAccount

\* A call keeps WakeInv if the queue its caller leaves is covered by the pipe.
LEMMA CallWake ==
  ASSUME TypeOK, WakeInv, pc # "stuck", drained' = drained,
         NEW k \in PCs \ {"stuck"}, NEW q \in Seq(Nat), NEW ts \in Seq(Timer), NEW g,
         Call(k, q, ts, g),
         k \in {"app", "first", "timers", "poll"} /\ q # <<>> => pipe > 0
  PROVE  WakeInv'
<1>1. posted \in Nat /\ drained \in Nat /\ pipe \in 0..PipeCap /\ posted = drained + pipe
  BY DEF TypeOK, WakeInv, PipeAccount
<1>2. CASE pc' = k /\ tasks' = q /\ posted' = posted /\ pipe' = pipe
  BY <1>1, <1>2 DEF WakeInv, PipeAccount, NoLostWakeup
<1>3. CASE /\ tasks' # <<>> /\ posted' = posted + 1
           /\ pc' = k /\ pipe < PipeCap /\ pipe' = pipe + 1
  BY <1>1, <1>3 DEF WakeInv, PipeAccount, NoLostWakeup
<1>4. CASE /\ tasks' # <<>> /\ posted' = posted + 1
           /\ pc' = "stuck" /\ pipe = PipeCap /\ pipe' = pipe
  BY <1>1, <1>4 DEF WakeInv, PipeAccount, NoLostWakeup
<1>5. QED
  BY <1>2, <1>3, <1>4, QueueEffect

LEMMA WakeStep == TypeOK /\ WakeInv /\ [Next]_vars => WakeInv'
<1> SUFFICES ASSUME TypeOK, WakeInv, [Next]_vars
             PROVE  WakeInv'
  OBVIOUS
<1> USE DEF queueVars, appVars, rangeVars, envVars, histVars
<1>1. /\ tasks \in Seq(Nat) /\ timers \in Seq(Timer) /\ pc \in PCs
      /\ posted \in Nat /\ drained \in Nat /\ pipe \in 0..PipeCap
      /\ {"app", "timers", "dispatch", "idles"} \subseteq PCs \ {"stuck"}
  BY DEF TypeOK, PCs
<1>2. CASE AppCall
  BY <1>1, <1>2, CallWake DEF AppCall, WakeInv, NoLostWakeup
<1>3. CASE RunTask
  <2>1. Tail(tasks) \in Seq(Nat) /\ pc \in PCs \ {"stuck"}
    BY <1>1, <1>3 DEF RunTask
  <2>2. pc \in {"app", "first", "timers", "poll"} => pipe > 0
    BY <1>3 DEF RunTask, WakeInv, NoLostWakeup
  <2>3. QED
    BY <1>1, <1>3, <2>1, <2>2, CallWake DEF RunTask
<1>4. CASE FireTimer
  BY <1>1, <1>4, UpdateType, CallWake DEF FireTimer, WakeInv, NoLostWakeup
<1>5. CASE Dispatch
  BY <1>1, <1>5, CallWake DEF Dispatch
<1>6. CASE RunIdle
  BY <1>1, <1>6, CallWake DEF RunIdle
<1> USE DEF WakeInv, NoLostWakeup, PipeAccount
<1>7. CASE Run \/ RunOnce \/ StartTimers \/ SkipTimer \/ FireTimerTorn \/ TimersDone
  BY <1>7 DEF Run, RunOnce, StartTimers, SkipTimer, FireTimerTorn, TimersDone
<1>8. CASE Poll \/ StartIdles \/ RunIdleTorn \/ IdlesDone \/ EndIteration
  BY <1>8 DEF Poll, StartIdles, RunIdleTorn, IdlesDone, EndIteration
<1>9. CASE DrainWakeup
  BY <1>1, <1>9 DEF DrainWakeup
<1>10. CASE Tick \/ BecomeReadable \/ UNCHANGED vars
  BY <1>10 DEF Tick, BecomeReadable, vars
<1>11. QED
  BY <1>2, <1>3, <1>4, <1>5, <1>6, <1>7, <1>8, <1>9, <1>10 DEF Next, LoopStep

LEMMA WakeAlways == Spec => []WakeInv
<1>1. Init => WakeInv
  BY DEF Init, WakeInv, NoLostWakeup, PipeAccount
<1>2. QED
  BY <1>1, WakeStep, TypeCorrect, PTL DEF Spec

\* The thread never goes to sleep in poll() on a task posted before, however many
\* posts, timers and watches there are: the self-pipe then holds a byte.
THEOREM WakeupNeverLost == Spec => []NoLostWakeup
BY WakeAlways, PTL DEF WakeInv

\* The loop's thread blocks in enqueue() only when more tasks were posted since
\* the last drain_wakeup() than the self-pipe has room for.
THEOREM BlockedOnlyByFlood == Spec => []BlockedOnlyWhenFlooded
<1>1. TypeOK /\ WakeInv => BlockedOnlyWhenFlooded
  BY DEF TypeOK, WakeInv, PipeAccount, BlockedOnlyWhenFlooded
<1>2. QED
  BY <1>1, WakeAlways, TypeCorrect, PTL

-----------------------------------------------------------------------------
(* The order of tasks.                                                       *)

\* r is what ran and q what is queued when n tasks have been posted.
Numbered(r, q, n) ==
  /\ Len(r) + Len(q) = n
  /\ \A i \in 1..Len(r) : r[i] = i
  /\ \A i \in 1..Len(q) : q[i] = Len(r) + i

OrderInv == Numbered(ran, tasks, posted)

LEMMA NumberedPost ==
  ASSUME NEW r \in Seq(Nat), NEW q \in Seq(Nat), NEW n \in Nat, Numbered(r, q, n)
  PROVE  Numbered(r, Append(q, n + 1), n + 1)
<1>1. /\ Len(Append(q, n + 1)) = Len(q) + 1
      /\ \A i \in 1..Len(q) : Append(q, n + 1)[i] = q[i]
      /\ Append(q, n + 1)[Len(q) + 1] = n + 1
  OBVIOUS
<1>2. Len(r) \in Nat /\ Len(q) \in Nat /\ Len(r) + Len(q) = n
  BY DEF Numbered
<1>3. ASSUME NEW i \in 1..Len(q) + 1 PROVE Append(q, n + 1)[i] = Len(r) + i
  <2>1. CASE i \in 1..Len(q)
    BY <1>1, <2>1 DEF Numbered
  <2>2. CASE i = Len(q) + 1
    BY <1>1, <1>2, <2>2
  <2>3. QED
    BY <1>2, <2>1, <2>2
<1>4. QED
  BY <1>1, <1>2, <1>3 DEF Numbered

LEMMA NumberedRun ==
  ASSUME NEW r \in Seq(Nat), NEW q \in Seq(Nat), NEW n \in Nat, Numbered(r, q, n), q # <<>>
  PROVE  Numbered(Append(r, Head(q)), Tail(q), n)
<1>1. /\ Len(q) \in Nat \ {0} /\ Head(q) = q[1] /\ Head(q) \in Nat
      /\ Len(Tail(q)) = Len(q) - 1 /\ \A i \in 1..Len(Tail(q)) : Tail(q)[i] = q[i + 1]
  OBVIOUS
<1>2. /\ Len(Append(r, Head(q))) = Len(r) + 1
      /\ \A i \in 1..Len(r) : Append(r, Head(q))[i] = r[i]
      /\ Append(r, Head(q))[Len(r) + 1] = Head(q)
  BY <1>1
<1>3. Len(r) \in Nat /\ Len(r) + Len(q) = n /\ Head(q) = Len(r) + 1
  BY <1>1 DEF Numbered
<1>4. ASSUME NEW i \in 1..Len(r) + 1 PROVE Append(r, Head(q))[i] = i
  <2>1. CASE i \in 1..Len(r)
    BY <1>2, <2>1 DEF Numbered
  <2>2. CASE i = Len(r) + 1
    BY <1>2, <1>3, <2>2
  <2>3. QED
    BY <1>3, <2>1, <2>2
<1>5. ASSUME NEW i \in 1..Len(q) - 1 PROVE Tail(q)[i] = Len(r) + 1 + i
  <2>1. i + 1 \in 1..Len(q) /\ q[i + 1] = Len(r) + (i + 1)
    BY <1>1 DEF Numbered
  <2>2. QED
    BY <1>1, <1>3, <2>1
<1> DEFINE r1 == Append(r, Head(q))
           q1 == Tail(q)
<1>6. Len(r1) = Len(r) + 1 /\ Len(q1) = Len(q) - 1
  BY <1>1, <1>2
<1>7. \A i \in 1..Len(r1) : r1[i] = i
  BY <1>2, <1>4
<1>8. \A i \in 1..Len(q1) : q1[i] = Len(r1) + i
  BY <1>1, <1>2, <1>5
<1> HIDE DEF r1, q1
<1>9. Numbered(r1, q1, n)
  <2>1. Len(r1) + Len(q1) = n
    BY <1>1, <1>3, <1>6
  <2>2. QED
    BY <1>7, <1>8, <2>1 DEF Numbered
<1>10. QED
  BY <1>9 DEF r1, q1

LEMMA CallOrder ==
  ASSUME TypeOK, ran' \in Seq(Nat),
         NEW k \in PCs \ {"stuck"}, NEW q \in Seq(Nat), NEW ts \in Seq(Timer), NEW g,
         Call(k, q, ts, g), Numbered(ran', q, posted)
  PROVE  OrderInv'
<1>1. posted \in Nat
  BY DEF TypeOK
<1>2. \/ tasks' = q /\ posted' = posted
      \/ tasks' = Append(q, posted + 1) /\ posted' = posted + 1
  BY QueueEffect
<1>3. QED
  BY <1>1, <1>2, NumberedPost DEF OrderInv

LEMMA OrderStep == TypeOK /\ OrderInv /\ [Next]_vars => OrderInv'
<1> SUFFICES ASSUME TypeOK, OrderInv, [Next]_vars
             PROVE  OrderInv'
  OBVIOUS
<1> USE DEF queueVars, appVars, rangeVars, envVars, histVars
<1>1. /\ tasks \in Seq(Nat) /\ ran \in Seq(Nat) /\ timers \in Seq(Timer) /\ pc \in PCs
      /\ posted \in Nat /\ {"app", "timers", "dispatch", "idles"} \subseteq PCs \ {"stuck"}
  BY DEF TypeOK, PCs
<1>2. CASE RunTask
  <2>1. /\ Tail(tasks) \in Seq(Nat) /\ pc \in PCs \ {"stuck"}
        /\ ran' = Append(ran, Head(tasks)) /\ ran' \in Seq(Nat)
    BY <1>1, <1>2 DEF RunTask
  <2>2. Numbered(ran', Tail(tasks), posted)
    BY <1>1, <1>2, <2>1, NumberedRun DEF RunTask, OrderInv
  <2>3. QED
    BY <1>1, <1>2, <2>1, <2>2, CallOrder DEF RunTask
<1>3. CASE AppCall
  BY <1>1, <1>3, CallOrder DEF AppCall, OrderInv
<1>4. CASE FireTimer
  BY <1>1, <1>4, UpdateType, CallOrder DEF FireTimer, OrderInv
<1>5. CASE Dispatch
  BY <1>1, <1>5, CallOrder DEF Dispatch, OrderInv
<1>6. CASE RunIdle
  BY <1>1, <1>6, CallOrder DEF RunIdle, OrderInv
<1> USE DEF OrderInv
<1>7. CASE Run \/ RunOnce \/ StartTimers \/ SkipTimer \/ FireTimerTorn \/ TimersDone
  BY <1>7 DEF Run, RunOnce, StartTimers, SkipTimer, FireTimerTorn, TimersDone
<1>8. CASE Poll \/ DrainWakeup \/ StartIdles \/ RunIdleTorn \/ IdlesDone \/ EndIteration
  BY <1>8 DEF Poll, DrainWakeup, StartIdles, RunIdleTorn, IdlesDone, EndIteration
<1>9. CASE Tick \/ BecomeReadable \/ UNCHANGED vars
  BY <1>9 DEF Tick, BecomeReadable, vars
<1>10. QED
  BY <1>2, <1>3, <1>4, <1>5, <1>6, <1>7, <1>8, <1>9 DEF Next, LoopStep

\* Whatever posts tasks and whenever, each runs once and in posting order.
THEOREM TasksRunInOrder == Spec => []TasksInOrder
<1>1. Init => OrderInv
  BY DEF Init, OrderInv, Numbered
<1>2. TypeOK /\ OrderInv => TasksInOrder
  <2> SUFFICES ASSUME TypeOK, OrderInv
               PROVE  ran \o tasks = [i \in 1..posted |-> i]
    BY DEF TasksInOrder
  <2>1. ran \in Seq(Nat) /\ tasks \in Seq(Nat) /\ posted \in Nat
    BY DEF TypeOK
  <2>2. Len(ran \o tasks) = posted /\ ran \o tasks \in Seq(Nat)
    BY <2>1 DEF OrderInv, Numbered
  <2>3. ASSUME NEW i \in 1..posted PROVE (ran \o tasks)[i] = i
    <3>1. /\ Len(ran) \in Nat /\ Len(tasks) \in Nat /\ Len(ran) + Len(tasks) = posted
          /\ \A j \in 1..Len(ran) : ran[j] = j
          /\ \A j \in 1..Len(tasks) : tasks[j] = Len(ran) + j
      BY <2>1 DEF OrderInv, Numbered
    <3>2. CASE i \in 1..Len(ran)
      BY <2>1, <3>1, <3>2
    <3>3. CASE i \in Len(ran) + 1..posted
      <4>1. i - Len(ran) \in 1..Len(tasks) /\ (ran \o tasks)[i] = tasks[i - Len(ran)]
        BY <2>1, <3>1, <3>3
      <4>2. QED
        BY <3>1, <4>1
    <3>4. QED
      BY <3>1, <3>2, <3>3
  <2>4. ran \o tasks \in [1..posted -> Nat]
    BY <2>2, LenProperties
  <2>5. QED
    BY <2>2, <2>3, <2>4
<1>3. QED
  BY <1>1, <1>2, OrderStep, TypeCorrect, PTL DEF Spec

-----------------------------------------------------------------------------
(* Timers.                                                                   *)

\* A one-shot timer that fired is dead, and a repeating one never dies.
Sound(t) ==
  /\ t.repeat = 0 => t.fires <= IF t.active THEN 0 ELSE 1
  /\ t.repeat # 0 => t.active

\* The first n timers of ts have been dealt with in a pass at time tnow.
Passed(ts, n) == \A i \in 1..n : ts[i].active => ts[i].due > tnow

TimerInv ==
  ~ torn =>
    /\ \A i \in 1..Len(timers) : Sound(timers[i])
    /\ pc = "timers" => pos \in 1..end + 1 /\ end <= Len(timers) /\ Passed(timers, pos - 1)
    /\ pc = "poll" => end <= Len(timers) /\ Passed(timers, end)

\* A call made while ts are the timers leaves the old ones in place and adds at
\* most a sound one at the end.
LEMMA TimerEffect ==
  ASSUME TypeOK, NEW k \in PCs \ {"stuck"}, NEW q \in Seq(Nat), NEW ts \in Seq(Timer), NEW g,
         Call(k, q, ts, g), \A i \in 1..Len(ts) : Sound(ts[i])
  PROVE  /\ pc' \in {k, "stuck"}
         /\ Len(timers') >= Len(ts)
         /\ \A i \in 1..Len(ts) : timers'[i] = ts[i]
         /\ \A i \in 1..Len(timers') : Sound(timers'[i])
<1>1. pc' \in {k, "stuck"}
  BY QueueEffect
<1>2. CASE timers' = ts
  BY <1>1, <1>2
<1>3. CASE \E d \in Delays : \E r \in {0, d} : timers' = Append(ts, NewTimer(d, r))
  <2>1. PICK d \in Delays : \E r \in {0, d} : timers' = Append(ts, NewTimer(d, r))
    BY <1>3
  <2>2. PICK r \in {0, d} : timers' = Append(ts, NewTimer(d, r))
    BY <2>1
  <2>3. NewTimer(d, r) \in Timer
    BY NewTimerType
  <2>4. Sound(NewTimer(d, r))
    BY DEF Sound, NewTimer
  <2>5. /\ Len(timers') = Len(ts) + 1 /\ timers'[Len(ts) + 1] = NewTimer(d, r)
        /\ \A i \in 1..Len(ts) : timers'[i] = ts[i]
    BY <2>2, <2>3
  <2>6. ASSUME NEW i \in 1..Len(timers') PROVE Sound(timers'[i])
    BY <2>4, <2>5
  <2>7. QED
    BY <1>1, <2>5, <2>6
<1>4. QED
  BY <1>2, <1>3, CallEffect

\* A call made outside the pass over the timers.
LEMMA CallTimers ==
  ASSUME TypeOK, TimerInv, torn' = torn,
         NEW k \in {"app", "first", "dispatch", "idles", "last"}, NEW q \in Seq(Nat), NEW g,
         Call(k, q, timers, g)
  PROVE  TimerInv'
<1>1. k \in PCs \ {"stuck"} /\ timers \in Seq(Timer)
  BY DEF TypeOK, PCs
<1>2. QED
  BY <1>1, TimerEffect DEF TimerInv

\* The timer at pos fires and its callback returns.
LEMMA FireTimers ==
  ASSUME TypeOK, TimerInv, FireTimer
  PROVE  TimerInv'
<1> SUFFICES ASSUME ~ torn
             PROVE  TimerInv'
  BY DEF TimerInv, FireTimer, histVars
<1> DEFINE ts == [timers EXCEPT ![pos] = Fired(@)]
<1>1. /\ timers \in Seq(Timer) /\ end \in Nat /\ tnow \in Nat /\ tasks \in Seq(Nat)
      /\ "timers" \in PCs \ {"stuck"} /\ ts \in Seq(Timer)
  BY UpdateType DEF TypeOK, PCs
<1>2. /\ pos \in 1..end /\ end <= Len(timers) /\ Due(timers[pos])
      /\ Passed(timers, pos - 1) /\ \A i \in 1..Len(timers) : Sound(timers[i])
  BY <1>1 DEF TimerInv, FireTimer
<1>3. pos \in 1..Len(timers) /\ timers[pos] \in Timer
  BY <1>1, <1>2
<1>4. /\ Len(ts) = Len(timers) /\ ts[pos] = Fired(timers[pos])
      /\ \A i \in 1..Len(timers) : i # pos => ts[i] = timers[i]
  BY <1>1, <1>3
<1>5. Sound(ts[pos]) /\ (ts[pos].active => ts[pos].due > tnow)
  <2>1. /\ timers[pos].repeat = 0 => timers[pos].fires = 0
        /\ timers[pos].fires \in Nat /\ timers[pos].active
    BY <1>2, <1>3 DEF Sound, Due, Timer
  <2>2. timers[pos].fires = 0 => Count(timers[pos]).fires = 1
    BY <1>3 DEF Count, Timer
  <2>3. QED
    BY <1>1, <1>2, <1>3, <1>4, <2>1, <2>2, FiredType DEF Sound
<1>6. \A i \in 1..Len(ts) : Sound(ts[i])
  BY <1>2, <1>4, <1>5
<1>7. Passed(ts, pos)
  BY <1>2, <1>3, <1>4, <1>5 DEF Passed
<1>8. Call("timers", tasks, ts, IF Full(Len(timers)) THEN {"idles"} ELSE AnyVector)
  BY DEF FireTimer
<1> HIDE DEF ts
<1>9. /\ pc' \in {"timers", "stuck"} /\ Len(timers') >= Len(ts)
      /\ \A i \in 1..Len(ts) : timers'[i] = ts[i]
      /\ \A i \in 1..Len(timers') : Sound(timers'[i])
  BY <1>1, <1>6, <1>8, TimerEffect
<1>10. pos' = pos + 1 /\ end' = end /\ tnow' = tnow
  BY DEF FireTimer
<1>11. Len(timers') \in Nat /\ Len(ts) \in Nat /\ pos \in Nat
  <2>1. timers' \in Seq(Timer)
    BY <1>1, <1>8, CallEffect
  <2>2. QED
    BY <1>1, <1>2, <2>1
<1>12. pos' \in 1..end' + 1 /\ end' <= Len(timers') /\ Passed(timers, pos - 1)'
  BY <1>1, <1>2, <1>3, <1>4, <1>7, <1>9, <1>10, <1>11 DEF Passed
<1>13. QED
  BY <1>9, <1>12 DEF TimerInv

LEMMA TimerStep == TypeOK /\ TimerInv /\ [Next]_vars => TimerInv'
<1> SUFFICES ASSUME TypeOK, TimerInv, [Next]_vars
             PROVE  TimerInv'
  OBVIOUS
<1> USE DEF queueVars, appVars, rangeVars, envVars, histVars
<1>1. /\ tasks \in Seq(Nat) /\ timers \in Seq(Timer)
      /\ pos \in Nat /\ end \in Nat /\ tnow \in Nat /\ Len(timers) \in Nat
  BY DEF TypeOK
<1>2. CASE AppCall
  BY <1>1, <1>2, CallTimers DEF AppCall
<1>3. CASE RunTask
  <2>1. Tail(tasks) \in Seq(Nat)
    BY <1>1, <1>3 DEF RunTask
  <2>2. QED
    BY <1>3, <2>1, CallTimers DEF RunTask
<1>4. CASE FireTimer
  BY <1>4, FireTimers
<1>5. CASE Dispatch
  BY <1>1, <1>5, CallTimers DEF Dispatch
<1>6. CASE RunIdle
  BY <1>1, <1>6, CallTimers DEF RunIdle
<1>7. CASE FireTimerTorn \/ RunIdleTorn
  BY <1>7 DEF FireTimerTorn, RunIdleTorn, TimerInv
<1>8. CASE StartTimers
  BY <1>1, <1>8 DEF StartTimers, TimerInv, Passed
<1>9. CASE SkipTimer
  <2> SUFFICES ASSUME ~ torn
               PROVE  TimerInv'
    BY <1>9 DEF SkipTimer, TimerInv
  <2>1. /\ pos \in 1..end /\ end <= Len(timers) /\ Passed(timers, pos - 1)
        /\ ~ Due(timers[pos]) /\ \A i \in 1..Len(timers) : Sound(timers[i])
    BY <1>1, <1>9 DEF SkipTimer, TimerInv
  <2>2. timers[pos].due \in Nat
    <3>1. timers[pos] \in Timer
      BY <1>1, <2>1
    <3>2. QED
      BY <3>1 DEF Timer
  <2>3. timers[pos].active => timers[pos].due > tnow
    BY <1>1, <2>1, <2>2 DEF Due
  <2>4. Passed(timers, pos)
    BY <1>1, <2>1, <2>3 DEF Passed
  <2>5. QED
    BY <1>1, <1>9, <2>1, <2>4 DEF SkipTimer, TimerInv, Passed
<1>10. CASE TimersDone
  BY <1>1, <1>10 DEF TimersDone, TimerInv, Passed
<1>11. CASE Run \/ RunOnce \/ EndIteration
  BY <1>11 DEF Run, RunOnce, EndIteration, TimerInv
<1>12. CASE Poll \/ DrainWakeup \/ StartIdles \/ IdlesDone
  BY <1>12 DEF Poll, DrainWakeup, StartIdles, IdlesDone, TimerInv
<1>13. CASE Tick \/ BecomeReadable \/ UNCHANGED vars
  BY <1>13 DEF Tick, BecomeReadable, vars, TimerInv, Passed
<1>14. QED
  BY <1>2, <1>3, <1>4, <1>5, <1>6, <1>7, <1>8, <1>9, <1>10, <1>11, <1>12, <1>13
     DEF Next, LoopStep

LEMMA TimerAlways == Spec => []TimerInv
<1>1. Init => TimerInv
  BY DEF Init, TimerInv
<1>2. QED
  BY <1>1, TimerStep, TypeCorrect, PTL DEF Spec

\* A one-shot timer fires at most once as long as no callback makes timers_ move
\* under fire_timers().
THEOREM OneShotFiresOnce == Spec => []OneShotOnce
<1>1. TypeOK /\ TimerInv => OneShotOnce
  <2> SUFFICES ASSUME TypeOK, TimerInv, ~ torn, NEW i \in 1..Len(timers), timers[i].repeat = 0
               PROVE  timers[i].fires <= 1
    BY DEF OneShotOnce
  <2>1. timers[i].fires \in Nat
    <3>1. timers[i] \in Timer
      BY DEF TypeOK
    <3>2. QED
      BY <3>1 DEF Timer
  <2>2. Sound(timers[i])
    BY DEF TimerInv
  <2>3. QED
    BY <2>1, <2>2 DEF Sound
<1>2. QED
  BY <1>1, TimerAlways, TypeCorrect, PTL

\* As long as no callback makes timers_ move under fire_timers(), a pass leaves no
\* due timer behind and re-arms every repeating one.
THEOREM TimerPassComplete == Spec => []PassComplete
<1>1. TypeOK /\ TimerInv => PassComplete
  <2> SUFFICES ASSUME TypeOK, TimerInv, pc = "poll", ~ torn, NEW i \in 1..end
               PROVE  /\ timers[i].active => timers[i].due > tnow
                      /\ timers[i].repeat # 0 => timers[i].active
    BY DEF PassComplete
  <2>1. i \in 1..Len(timers)
    BY DEF TypeOK, TimerInv
  <2>2. QED
    BY <2>1 DEF TimerInv, Passed, Sound
<1>2. QED
  BY <1>1, TimerAlways, TypeCorrect, PTL
=============================================================================
