------------------------------ MODULE EventLoop ------------------------------
(***************************************************************************)
(* ttyutils::loop::Loop: one thread that runs posted tasks, due timers,    *)
(* ready file descriptors and idle callbacks, in that order, and that can  *)
(* be woken from poll() through a self-pipe.                               *)
(*                                                                         *)
(* Application code runs in two places: between two calls of run() or      *)
(* run_once(), and inside a callback.  Each time it makes at most one call *)
(* of the loop's interface (operator Call).                                *)
(***************************************************************************)
EXTENDS Naturals, Sequences, FiniteSets

CONSTANTS
  Fds,         \* descriptors the application may watch
  WakeFd,      \* the read end of the self-pipe, watch id 0
  PipeCap,     \* bytes the self-pipe holds before write() blocks
  MaxPosts,    \* bound: tasks posted in a behaviour
  MaxTimers,   \* bound: timers ever scheduled
  MaxIdles,    \* bound: idle callbacks ever registered
  MaxTime,     \* bound: ticks of steady_clock
  Delays       \* the durations given to after() and every()

ASSUME FdsAssumption == WakeFd \notin Fds
ASSUME PipeAssumption == PipeCap \in Nat \ {0}
ASSUME BoundsAssumption ==
  /\ MaxPosts \in Nat /\ MaxTimers \in Nat /\ MaxIdles \in Nat /\ MaxTime \in Nat
  /\ Delays \subseteq Nat

VARIABLES
  pc,        \* where the loop's thread is
  running,   \* running_
  looping,   \* inside run(), as opposed to a single run_once()
  tasks,     \* tasks_, each task named by its number in posting order
  posted,    \* number of tasks ever posted
  ran,       \* history: tasks in the order they were called
  pipe,      \* bytes in the self-pipe
  drained,   \* history: value of posted when the self-pipe was last drained
  timers,    \* timers_
  idles,     \* idles_.size(); an entry is never removed or deactivated
  watched,   \* descriptors in watches_ other than the self-pipe
  readable,  \* descriptors that poll() would report
  ready,     \* descriptors this iteration's poll() reported, not yet dispatched
  pos, end,  \* position and end of the range-for over timers_ or idles_
  tnow,      \* the time fire_timers() read
  clock,     \* steady_clock
  torn       \* history: a vector was reallocated under the range-for over it

vars == <<pc, running, looping, tasks, posted, ran, pipe, drained, timers, idles,
          watched, readable, ready, pos, end, tnow, clock, torn>>

queueVars == <<tasks, posted, pipe>>
appVars == <<running, timers, idles, watched>>
rangeVars == <<pos, end, tnow>>
envVars == <<readable, clock>>
histVars == <<ran, drained, torn>>

PCs == {"app", "first", "timers", "poll", "dispatch", "idles", "last",
        "stuck", "crashed"}

Timer == [due : Nat, repeat : Nat, active : BOOLEAN, fires : Nat]

TypeOK ==
  /\ pc \in PCs
  /\ running \in BOOLEAN /\ looping \in BOOLEAN /\ torn \in BOOLEAN
  /\ tasks \in Seq(Nat) /\ ran \in Seq(Nat)
  /\ posted \in Nat /\ drained \in Nat
  /\ pipe \in 0..PipeCap
  /\ timers \in Seq(Timer)
  /\ idles \in Nat
  /\ watched \subseteq Fds /\ readable \subseteq Fds
  /\ ready \subseteq Fds \cup {WakeFd}
  /\ pos \in Nat /\ end \in Nat /\ tnow \in Nat /\ clock \in Nat

Init ==
  /\ pc = "app" /\ running = FALSE /\ looping = FALSE
  /\ tasks = <<>> /\ posted = 0 /\ ran = <<>>
  /\ pipe = 0 /\ drained = 0
  /\ timers = <<>> /\ idles = 0
  /\ watched = {} /\ readable = {} /\ ready = {}
  /\ pos = 0 /\ end = 0 /\ tnow = 0 /\ clock = 0
  /\ torn = FALSE

-----------------------------------------------------------------------------
(* Calls of the loop's interface.  q and ts are the queue and the timers as  *)
(* the caller leaves them, k is where the thread resumes.                    *)

\* std::vector doubles its capacity: a push_back moves the elements when the
\* size is a power of two (or zero).
Full(n) == n = 0 \/ \E k \in 0..n : n = 2^k

\* Mutant of Enqueue: push_front.
EnqueueAtFront(k, q) ==
  /\ posted < MaxPosts
  /\ posted' = posted + 1
  /\ tasks' = <<posted + 1>> \o q
  /\ IF pipe < PipeCap THEN pipe' = pipe + 1 /\ pc' = k
                       ELSE pipe' = pipe /\ pc' = "stuck"

\* enqueue(): push_back, then one byte into the self-pipe; the write end blocks
\* when the pipe is full, and only this thread ever reads the other end.
Enqueue(k, q) ==
  /\ posted < MaxPosts
  /\ posted' = posted + 1
  /\ tasks' = Append(q, posted + 1)
  /\ IF pipe < PipeCap THEN pipe' = pipe + 1 /\ pc' = k
                       ELSE pipe' = pipe /\ pc' = "stuck"

\* What after(d), with r = 0, and every(d), with r = d, append to timers_.
NewTimer(d, r) == [due |-> clock + d, repeat |-> r, active |-> TRUE, fires |-> 0]

Schedule(ts) ==
  /\ Len(ts) < MaxTimers
  /\ \E d \in Delays : \E r \in {0, d} : timers' = Append(ts, NewTimer(d, r))

Watch == \E f \in Fds \ watched : watched' = watched \cup {f}

Idle == idles < MaxIdles /\ idles' = idles + 1

Stop == running' = FALSE

\* Application code runs once, with at most one call, then control goes to k.
\* grow says which vectors may be appended to without moving their elements
\* under a range-for.
Call(k, q, ts, grow) ==
  \/ /\ pc' = k /\ tasks' = q /\ timers' = ts
     /\ UNCHANGED <<posted, pipe, idles, watched, running>>
  \/ /\ Enqueue(k, q) /\ timers' = ts
     /\ UNCHANGED <<idles, watched, running>>
  \/ /\ "timers" \in grow /\ Schedule(ts)
     /\ pc' = k /\ tasks' = q
     /\ UNCHANGED <<posted, pipe, idles, watched, running>>
  \/ /\ "idles" \in grow /\ Idle
     /\ pc' = k /\ tasks' = q /\ timers' = ts
     /\ UNCHANGED <<posted, pipe, watched, running>>
  \/ /\ Watch
     /\ pc' = k /\ tasks' = q /\ timers' = ts
     /\ UNCHANGED <<posted, pipe, idles, running>>
  \/ /\ Stop
     /\ pc' = k /\ tasks' = q /\ timers' = ts
     /\ UNCHANGED <<posted, pipe, idles, watched>>

AnyVector == {"timers", "idles"}

AppCall ==
  /\ pc = "app"
  /\ Call("app", tasks, timers, AnyVector)
  /\ UNCHANGED <<looping, ready, rangeVars, envVars, histVars>>

\* run() sets running_ before it looks at it, so a stop() made earlier is lost.
Run ==
  /\ pc = "app"
  /\ running' = TRUE /\ looping' = TRUE /\ pc' = "first"
  /\ UNCHANGED <<timers, idles, watched, ready, queueVars, rangeVars, envVars, histVars>>

RunOnce ==
  /\ pc = "app"
  /\ looping' = FALSE /\ pc' = "first"
  /\ UNCHANGED <<ready, queueVars, appVars, rangeVars, envVars, histVars>>

-----------------------------------------------------------------------------
(* One iteration, run_once().                                                *)

\* run_tasks(): a task is taken off the queue before it is called.
RunTask ==
  /\ pc \in {"first", "last"} /\ tasks # <<>>
  /\ ran' = Append(ran, Head(tasks))
  /\ Call(pc, Tail(tasks), timers, AnyVector)
  /\ UNCHANGED <<looping, drained, ready, torn, rangeVars, envVars>>

StartTimers ==
  /\ pc = "first" /\ tasks = <<>>
  /\ pc' = "timers" /\ tnow' = clock /\ pos' = 1 /\ end' = Len(timers)
  /\ UNCHANGED <<looping, ready, queueVars, appVars, envVars, histVars>>

Due(t) == t.active /\ t.due <= tnow

SkipTimer ==
  /\ pc = "timers" /\ pos <= end
  /\ ~ Due(timers[pos])
  /\ pos' = pos + 1
  /\ UNCHANGED <<pc, looping, ready, end, tnow, queueVars, appVars, envVars, histVars>>

\* The history of a timer's callbacks; the count stops at 2.
Count(t) == [t EXCEPT !.fires = IF @ < 2 THEN @ + 1 ELSE @]

\* Mutant of Fired: a one-shot timer is re-armed like the others.
FiredAgain(t) == [Count(t) EXCEPT !.due = tnow + t.repeat]

\* Mutant of Fired: re-armed from the time it was due, not from the time it fired.
FiredLate(t) ==
  IF t.repeat = 0 THEN [Count(t) EXCEPT !.active = FALSE]
                  ELSE [Count(t) EXCEPT !.due = @ + t.repeat]

\* How fire_timers() leaves a timer whose callback has returned.
Fired(t) ==
  IF t.repeat = 0 THEN [Count(t) EXCEPT !.active = FALSE]
                  ELSE [Count(t) EXCEPT !.due = tnow + t.repeat]

FireTimer ==
  /\ pc = "timers" /\ pos <= end
  /\ Due(timers[pos])
  /\ Call("timers", tasks, [timers EXCEPT ![pos] = Fired(@)],
          IF Full(Len(timers)) THEN {"idles"} ELSE AnyVector)
  /\ pos' = pos + 1
  /\ UNCHANGED <<looping, ready, end, tnow, envVars, histVars>>

\* The callback schedules a timer and timers_ moves to a larger buffer: what
\* fire_timers() then writes goes to freed memory, so the timer that fired stays
\* as it was; the rest of the pass reads freed elements and either finds nothing
\* to call or calls a moved-from function and does not return.
FireTimerTorn ==
  /\ pc = "timers" /\ pos <= end
  /\ Due(timers[pos]) /\ Full(Len(timers))
  /\ Schedule([timers EXCEPT ![pos] = Count(@)])
  /\ pc' \in {"poll", "crashed"}
  /\ torn' = TRUE
  /\ UNCHANGED <<running, looping, ran, drained, idles, watched, ready, queueVars, rangeVars, envVars>>

TimersDone ==
  /\ pc = "timers" /\ pos > end
  /\ pc' = "poll"
  /\ UNCHANGED <<looping, ready, queueVars, appVars, rangeVars, envVars, histVars>>

\* poll() reports every watched descriptor that is ready, and times out or is
\* interrupted when there is none.
Poll ==
  /\ pc = "poll"
  /\ ready' = (watched \cap readable) \cup (IF pipe > 0 THEN {WakeFd} ELSE {})
  /\ pc' = "dispatch"
  /\ UNCHANGED <<looping, queueVars, appVars, rangeVars, envVars, histVars>>

\* Mutant of DrainWakeup: a single read() of one byte.
DrainOneByte ==
  /\ pc = "dispatch" /\ WakeFd \in ready
  /\ pipe' = pipe - 1 /\ drained' = posted
  /\ ready' = ready \ {WakeFd}
  /\ UNCHANGED <<pc, looping, tasks, posted, ran, torn, appVars, rangeVars, envVars>>

\* drain_wakeup(): read() until the pipe is empty.
DrainWakeup ==
  /\ pc = "dispatch" /\ WakeFd \in ready
  /\ pipe' = 0 /\ drained' = posted
  /\ ready' = ready \ {WakeFd}
  /\ UNCHANGED <<pc, looping, tasks, posted, ran, torn, appVars, rangeVars, envVars>>

\* Watches are visited in the arbitrary order of unordered_map; the callback
\* reads what made the descriptor ready, or leaves it.
Dispatch ==
  /\ pc = "dispatch"
  /\ \E f \in ready \ {WakeFd} :
       /\ ready' = ready \ {f}
       /\ readable' \in {readable, readable \ {f}}
  /\ Call("dispatch", tasks, timers, AnyVector)
  /\ UNCHANGED <<looping, clock, rangeVars, histVars>>

StartIdles ==
  /\ pc = "dispatch" /\ ready = {}
  /\ pc' = "idles" /\ pos' = 1 /\ end' = idles
  /\ UNCHANGED <<looping, ready, tnow, queueVars, appVars, envVars, histVars>>

RunIdle ==
  /\ pc = "idles" /\ pos <= end
  /\ Call("idles", tasks, timers, IF Full(idles) THEN {"timers"} ELSE AnyVector)
  /\ pos' = pos + 1
  /\ UNCHANGED <<looping, ready, end, tnow, envVars, histVars>>

\* As FireTimerTorn, for idles_.
RunIdleTorn ==
  /\ pc = "idles" /\ pos <= end /\ Full(idles)
  /\ Idle
  /\ pc' \in {"last", "crashed"}
  /\ torn' = TRUE
  /\ UNCHANGED <<running, looping, ran, drained, timers, watched, ready, queueVars, rangeVars, envVars>>

IdlesDone ==
  /\ pc = "idles" /\ pos > end
  /\ pc' = "last"
  /\ UNCHANGED <<looping, ready, queueVars, appVars, rangeVars, envVars, histVars>>

\* Mutant of EndIteration: no run_tasks() after the dispatch.
EndWithoutTasks ==
  /\ pc = "last"
  /\ pc' = IF looping /\ running THEN "first" ELSE "app"
  /\ UNCHANGED <<looping, ready, queueVars, appVars, rangeVars, envVars, histVars>>

\* Mutant of EndIteration: run() does not look at running_ again.
EndNever ==
  /\ pc = "last" /\ tasks = <<>>
  /\ pc' = IF looping THEN "first" ELSE "app"
  /\ UNCHANGED <<looping, ready, queueVars, appVars, rangeVars, envVars, histVars>>

\* The last run_tasks() found the queue empty: run_once() returns, and run()
\* goes round again unless stop() was called.
EndIteration ==
  /\ pc = "last" /\ tasks = <<>>
  /\ pc' = IF looping /\ running THEN "first" ELSE "app"
  /\ UNCHANGED <<looping, ready, queueVars, appVars, rangeVars, envVars, histVars>>

-----------------------------------------------------------------------------
(* The environment.                                                          *)

Tick ==
  /\ clock < MaxTime
  /\ clock' = clock + 1
  /\ UNCHANGED <<pc, looping, readable, ready, queueVars, appVars, rangeVars, histVars>>

BecomeReadable ==
  /\ \E f \in Fds \ readable : readable' = readable \cup {f}
  /\ UNCHANGED <<pc, looping, ready, clock, queueVars, appVars, rangeVars, histVars>>

LoopStep ==
  \/ RunTask \/ StartTimers
  \/ SkipTimer \/ FireTimer \/ FireTimerTorn \/ TimersDone
  \/ Poll \/ DrainWakeup \/ Dispatch
  \/ StartIdles \/ RunIdle \/ RunIdleTorn \/ IdlesDone
  \/ EndIteration

Next == AppCall \/ Run \/ RunOnce \/ LoopStep \/ Tick \/ BecomeReadable

Spec == Init /\ [][Next]_vars

\* The thread that is inside run_once() keeps executing.
FairSpec == Spec /\ WF_vars(LoopStep)

-----------------------------------------------------------------------------
(* Safety.                                                                   *)

\* The loop never goes to sleep on a posted task: whenever a task is queued and
\* the thread is on its way to poll(), the self-pipe holds a byte that makes
\* poll() return at once.  drain_wakeup() may empty the pipe in the middle of a
\* dispatch, after which only the run_tasks() at the end of run_once() takes the
\* tasks that remain.
NoLostWakeup ==
  pc \in {"app", "first", "timers", "poll"} /\ tasks # <<>> => pipe > 0

\* Every task runs once and in posting order, whoever posts it and from
\* wherever: what ran followed by what is queued is exactly what was posted.
TasksInOrder == ran \o tasks = [i \in 1..posted |-> i]

\* enqueue() writes to a pipe only its own thread reads.  The thread blocks
\* forever only if more than PipeCap tasks were posted since the last drain.
BlockedOnlyWhenFlooded == pc = "stuck" => posted > drained + PipeCap

\* A timer made by after(), or by every() with a zero interval, fires at most
\* once, unless a callback made timers_ move under fire_timers().
OneShotOnce ==
  ~ torn => \A i \in 1..Len(timers) : timers[i].repeat = 0 => timers[i].fires <= 1

\* When the thread goes to poll(), every timer that was there when the pass
\* began is dead or due later than the time the pass read: no due timer is
\* skipped, none fires twice in a pass, and a repeating one is always re-armed.
PassComplete ==
  pc = "poll" /\ ~ torn =>
    \A i \in 1..end :
      /\ timers[i].active => timers[i].due > tnow
      /\ timers[i].repeat # 0 => timers[i].active

-----------------------------------------------------------------------------
(* Liveness.                                                                 *)

Dead == pc \in {"crashed", "stuck"}

\* A task that is queued while the thread is in the loop is called.
PostedRuns ==
  \A n \in 1..MaxPosts :
    (pc # "app" /\ n <= posted) ~> (n <= Len(ran) \/ Dead)

\* stop() from any callback ends run().
StopReturns == (looping /\ ~ running) ~> (pc = "app" \/ Dead)

=============================================================================
