-------------------------------- MODULE Signals --------------------------------
(***************************************************************************)
(* ttytk::winsize with its self-pipe, and ttytk::signals: the handlers run    *)
(* between any two steps of the program that dispatches what they left.       *)
(***************************************************************************)
EXTENDS Naturals, FiniteSetsExt

CONSTANTS
  PipeLimit,   \* bytes the pipe holds
  Chunk,       \* bytes one read takes
  MaxChanges,  \* bound: changes of the window's size
  Sizes        \* the sizes set() is called with

ASSUME PipeAssumption == PipeLimit \in Nat \ {0} /\ Chunk \in Nat \ {0}

VARIABLES
  size,      \* the window's size, as the kernel keeps it
  changes,   \* changes so far
  pending,   \* SIGWINCH waits to be delivered; more of them become one
  blocked,   \* block_all() was called
  handler,   \* what SIGWINCH runs: nothing, signal_winch or handle_winch
  piped,     \* bytes in the self-pipe, or 0 before it is made
  made,      \* ... whether it was made
  callback,  \* whether ChangeState::callback is set
  phase,     \* of dispatch_pending(): "idle", "draining", "calling"
  changed,   \* its local variable
  owed       \* history: a change came for which on_change()'s callback has not begun

signalVars == <<size, changes, pending, blocked, handler, piped, made, callback, phase, changed, owed>>

SignalInit ==
  /\ size = 0 /\ changes = 0 /\ pending = FALSE /\ blocked = FALSE /\ handler = "none"
  /\ piped = 0 /\ made = FALSE /\ callback = FALSE
  /\ phase = "idle" /\ changed = FALSE /\ owed = FALSE

-----------------------------------------------------------------------------
\* External: the kernel.  A signal nobody handles is ignored.

Resized(to) ==
  /\ changes < MaxChanges /\ to # size
  /\ size' = to /\ changes' = changes + 1
  /\ pending' = (pending \/ handler # "none")
  /\ owed' = (owed \/ handler = "signal_winch")

UserResizes ==
  /\ \E to \in Sizes : Resized(to % 4)
  /\ UNCHANGED <<blocked, handler, piped, made, callback, phase, changed>>

-----------------------------------------------------------------------------

\* The handler: signal_winch() writes a byte, which a full pipe refuses; handle_winch()
\* calls its own callback.
SignalWinch ==
  /\ pending /\ ~ blocked
  /\ pending' = FALSE
  /\ piped' = IF handler = "signal_winch" THEN Min({piped + 1, PipeLimit}) ELSE piped
  /\ UNCHANGED <<size, changes, blocked, handler, made, callback, phase, changed, owed>>

\* initialize_signal_pipe(): the pipe is made once, neither end of it blocking; if the
\* kernel has none left, on_change() returns before it changes anything.
InitializePipe == made' = TRUE

\* on_change(): the pipe if there is none, the callback, the handler.
OnChange ==
  /\ phase = "idle"
  /\ InitializePipe /\ callback' = TRUE /\ handler' = "signal_winch"
  /\ UNCHANGED <<size, changes, pending, blocked, piped, phase, changed, owed>>

\* signals::on_sigwinch() takes the signal over: the changes to come are not owed to
\* on_change() any more, and one that is waiting is lost to it.
OnSigwinch ==
  /\ phase = "idle"
  /\ handler' = "handle_winch" /\ owed' = FALSE
  /\ UNCHANGED <<size, changes, pending, blocked, piped, made, callback, phase, changed>>

BlockAll ==
  /\ phase = "idle" /\ blocked' = TRUE
  /\ UNCHANGED <<size, changes, pending, handler, piped, made, callback, phase, changed, owed>>

\* dispatch_pending(), which get() and set() begin with.
Dispatch ==
  /\ phase = "idle" /\ made
  /\ phase' = "draining" /\ changed' = FALSE
  /\ UNCHANGED <<size, changes, pending, blocked, handler, piped, made, callback, owed>>

\* The loop ends when a read finds the pipe empty.
Drained == IF piped = 0 THEN "calling" ELSE "draining"

Drain ==
  /\ phase = "draining"
  /\ phase' = Drained
  /\ IF Drained = "calling" THEN UNCHANGED <<piped, changed>>
     ELSE piped' = (IF piped > Chunk THEN piped - Chunk ELSE 0) /\ changed' = TRUE
  /\ UNCHANGED <<size, changes, pending, blocked, handler, made, callback, owed>>

\* Mutant of Answers: the callback is not called for what was read.
AnswersNever == FALSE

Answers == changed /\ callback

\* The callback, and the rest of the caller: get() reads the size, set() stores one with
\* 16 bits of each number (2 here).  A callback that asks get() finds the pipe empty.
Call ==
  /\ phase = "calling"
  /\ phase' = "idle" /\ changed' = FALSE
  /\ \/ owed' = (owed /\ ~ Answers) /\ UNCHANGED <<size, changes, pending>>
     \/ \E to \in Sizes :
          /\ changes < MaxChanges /\ to % 4 # size
          /\ size' = to % 4 /\ changes' = changes + 1
          /\ pending' = (pending \/ handler # "none")
          /\ owed' = ((owed /\ ~ Answers) \/ handler = "signal_winch")
  /\ UNCHANGED <<blocked, handler, piped, made, callback>>

SignalNext ==
  UserResizes \/ SignalWinch \/ OnChange \/ OnSigwinch \/ BlockAll \/ Dispatch \/ Drain \/ Call

SignalSpec == SignalInit /\ [][SignalNext]_signalVars

-----------------------------------------------------------------------------

\* A change of the size is never forgotten while on_change()'s handler is the one
\* installed: until the callback has begun after it, the signal waits, or a byte is in
\* the pipe, or the call that read the byte is about to make the callback.  However many
\* changes come, in however small a pipe.  (The callback is made only when somebody calls
\* get() or set(): no wakeup goes with it.)
SizeChangeKept ==
  owed => pending \/ piped > 0 \/ (phase \in {"draining", "calling"} /\ changed /\ callback)

================================================================================
