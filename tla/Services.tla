-------------------------------- MODULE Services --------------------------------
(***************************************************************************)
(* Small objects an application runs on, each with a state of its own: flow   *)
(* control, the App and its loop, the sessions of a multiplexer, and the       *)
(* settings of a serial line by ttytk::Serial and by ttyutils::serial::Port.  *)
(***************************************************************************)
EXTENDS Naturals, SequencesExt

CONSTANTS
  Capacity,     \* of the throttle, and the high watermark
  Largest,      \* std::numeric_limits<std::size_t>::max()
  Names,        \* session names
  MaxSessions,  \* bound: sessions, and windows
  Codes,        \* exit codes
  DataBits, Parities, StopBits  \* settings of a serial line that are asked for

ASSUME WidthAssumption ==
  Capacity \in Nat /\ Largest \in Nat /\ Capacity <= Largest /\ MaxSessions \in Nat

VARIABLES
  used, granted,                       \* Throttle, and what it granted less what came back
  unsent, paused,                      \* Backpressure, XonXoff
  running, suspended, quitRequested,   \* App
  exitCode, turn,                      \* ... and where run() is: "out", "draw", "test" or "body"
  quitCode, late, returned,                \* history: the code of the last quit(); a turn began
                                       \* after a quit(); what run() returned, and quitCode then
  sessions, attached,                  \* Server; history: which session clients were given
  windows, active,                     \* Mux
  line, due                            \* a tty's flags; history: what they have to be

flowVars == <<used, granted, unsent, paused>>
appVars == <<running, suspended, quitRequested, exitCode, turn, quitCode, late, returned>>
muxVars == <<sessions, attached, windows, active>>
lineVars == <<line, due>>
serviceVars == <<flowVars, appVars, muxVars, lineVars>>

NewLine == [bits |-> 8, parenb |-> FALSE, parodd |-> FALSE, cstopb |-> FALSE, crtscts |-> FALSE]

ServiceInit ==
  /\ used = 0 /\ granted = 0 /\ unsent = 0 /\ paused = FALSE
  /\ running = FALSE /\ suspended = FALSE /\ quitRequested = FALSE /\ exitCode = 0 /\ turn = "out"
  /\ quitCode = 0 /\ late = FALSE /\ returned = <<0, 0>>
  /\ sessions = <<>> /\ attached = {} /\ windows = 0 /\ active = 0
  /\ line = NewLine /\ due = NewLine

-----------------------------------------------------------------------------
\* Flow control.

\* Mutant of Fits: the sum is compared, at the width of std::size_t.
FitsWrapped(bytes) == (used + bytes) % (Largest + 1) <= Capacity

Fits(bytes) == bytes <= Capacity - used

WaitForCapacity ==
  /\ \E bytes \in 0..Largest :
       Fits(bytes) /\ used' = (used + bytes) % (Largest + 1) /\ granted' = granted + bytes
  /\ UNCHANGED <<unsent, paused, appVars, muxVars, lineVars>>

Less(n, bytes) == IF bytes >= n THEN 0 ELSE n - bytes

Acknowledge ==
  /\ \E bytes \in 0..Largest : used' = Less(used, bytes) /\ granted' = Less(granted, bytes)
  /\ UNCHANGED <<unsent, paused, appVars, muxVars, lineVars>>

AddPending ==
  /\ \E bytes \in 0..Largest : unsent' = IF bytes > Largest - unsent THEN Largest ELSE unsent + bytes
  /\ UNCHANGED <<used, granted, paused, appVars, muxVars, lineVars>>

ConsumePending ==
  /\ \E bytes \in 0..Largest : unsent' = Less(unsent, bytes)
  /\ UNCHANGED <<used, granted, paused, appVars, muxVars, lineVars>>

FeedXonXoff ==
  /\ paused' \in BOOLEAN
  /\ UNCHANGED <<used, granted, unsent, appVars, muxVars, lineVars>>

FlowNext == WaitForCapacity \/ Acknowledge \/ AddPending \/ ConsumePending \/ FeedXonXoff

-----------------------------------------------------------------------------
\* The application.

Returns == returned' = <<exitCode, quitCode>> /\ turn' = "out"

\* run(): nothing after a quit(); otherwise the root widget is drawn before the loop begins.
AppRun ==
  /\ turn = "out"
  /\ IF quitRequested THEN Returns /\ UNCHANGED running
     ELSE running' = TRUE /\ turn' = "draw" /\ UNCHANGED returned
  /\ UNCHANGED <<suspended, quitRequested, exitCode, quitCode, late, flowVars, muxVars, lineVars>>

\* The test of the loop; run() returns the exit code when it fails.
Test ==
  /\ turn = "test"
  /\ IF running /\ ~ suspended
     THEN turn' = "body" /\ late' = (late \/ quitRequested) /\ UNCHANGED returned
     ELSE Returns /\ UNCHANGED late
  /\ UNCHANGED <<running, suspended, quitRequested, exitCode, quitCode, flowVars, muxVars, lineVars>>

\* The widget is drawn, or loop_.run_once() returns.
EndCalls ==
  /\ turn \in {"draw", "body"} /\ turn' = "test"
  /\ UNCHANGED <<running, suspended, quitRequested, exitCode, quitCode, late, returned,
                 flowVars, muxVars, lineVars>>

\* Mutant of Quits: quit() does not stop the loop that runs.
QuitsLater == running

Quits == FALSE

\* quit(), suspend() and resume(): outside run(), from the widget that is drawn, or from
\* a callback of the loop.
Quit ==
  /\ turn # "test"
  /\ \E code \in Codes : exitCode' = code /\ quitCode' = code
  /\ quitRequested' = TRUE /\ running' = Quits
  /\ UNCHANGED <<suspended, turn, late, returned, flowVars, muxVars, lineVars>>

SuspendResume ==
  /\ turn # "test" /\ suspended' \in BOOLEAN
  /\ UNCHANGED <<running, quitRequested, exitCode, turn, quitCode, late, returned,
                 flowVars, muxVars, lineVars>>

AppNext == AppRun \/ Test \/ EndCalls \/ Quit \/ SuspendResume

-----------------------------------------------------------------------------
\* Multiplexers.

\* Server::create() asks for no other name than the sessions have.
Create ==
  /\ Len(sessions) < MaxSessions
  /\ \E name \in Names : sessions' = Append(sessions, name)
  /\ UNCHANGED <<attached, windows, active, flowVars, appVars, lineVars>>

\* Mutant of Chosen: the search goes through all sessions.
ChosenLast(name) == SelectLastInSeq(sessions, LAMBDA s : s = name)

\* The session the search ends at, or 0.
Chosen(name) == SelectInSeq(sessions, LAMBDA s : s = name)

\* Client::attach_or_create()
AttachOrCreate ==
  /\ \E name \in Names :
       \/ /\ Chosen(name) # 0
          /\ attached' = attached \cup {[name |-> name, session |-> Chosen(name)]}
          /\ UNCHANGED sessions
       \/ /\ Chosen(name) = 0 /\ Len(sessions) < MaxSessions
          /\ sessions' = Append(sessions, name)
          /\ attached' = attached \cup {[name |-> name, session |-> Len(sessions')]}
  /\ UNCHANGED <<windows, active, flowVars, appVars, lineVars>>

\* Mux: add_window() and split() make the new window the active one, next_window() goes
\* round.
AddWindow ==
  /\ windows < MaxSessions /\ windows' = windows + 1 /\ active' = windows
  /\ UNCHANGED <<sessions, attached, flowVars, appVars, lineVars>>

NextWindow ==
  /\ windows > 0 /\ active' = (active + 1) % windows
  /\ UNCHANGED <<sessions, attached, windows, flowVars, appVars, lineVars>>

MuxNext == Create \/ AttachOrCreate \/ AddWindow \/ NextWindow

-----------------------------------------------------------------------------
\* Serial lines: the flags tcsetattr() leaves.

Settings ==
  [bits : DataBits, parity : Parities, stops : StopBits, flow : {"None", "Hardware", "Software"}]

Supported(s) == s.bits \in 5..8 /\ s.parity \in {"N", "E", "O"} /\ s.stops \in {1, 2}

\* The flags of a line that is set as s says.
AsAsked(s) ==
  [bits |-> s.bits, parenb |-> s.parity \in {"E", "O"}, parodd |-> s.parity = "O",
   cstopb |-> s.stops = 2, crtscts |-> s.flow = "Hardware"]

\* A call that fails leaves the line alone: tcgetattr() or tcsetattr() fails, or the
\* settings are refused.
LineKept == UNCHANGED line /\ due' = line

\* Serial::set_params(), which returns an error for what a line cannot be; every flag of its
\* own is set or cleared, and flow control is not its.
SetParams ==
  /\ \E s \in Settings :
       \/ LineKept
       \/ /\ s.bits \in {5, 6, 7, 8} /\ s.parity \in {"N", "E", "O"} /\ s.stops \in {1, 2}
          /\ line' = [bits |-> s.bits, parenb |-> s.parity # "N", parodd |-> s.parity = "O",
                      cstopb |-> s.stops # 1, crtscts |-> line.crtscts]
          /\ due' = IF Supported(s) THEN [AsAsked(s) EXCEPT !.crtscts = line.crtscts] ELSE {}
  /\ UNCHANGED <<flowVars, appVars, muxVars>>

\* What configure() can do on a line: seven or eight bits, the flags that are on among
\* those asked for, and no software flow control.
Configurable(s) ==
  /\ Supported(s) /\ s.bits >= 7 /\ s.flow # "Software"
  /\ line.parodd => s.parity = "O"
  /\ line.cstopb => s.stops = 2
  /\ line.crtscts => s.flow = "Hardware"

\* Port::configure(): whatever is not seven bits becomes eight, a parity or a number of stop
\* bits it does not know is none and one, and it returns true.  cfmakeraw() clears the
\* size and the parity bit; odd parity, two stop bits and hardware flow control are set
\* when asked and never cleared.  The rate and software flow control are not applied.
Configure ==
  /\ \E s \in Settings :
       \/ LineKept
       \/ /\ line' = [bits |-> IF s.bits = 7 THEN 7 ELSE 8, parenb |-> s.parity \in {"E", "O"},
                      parodd |-> s.parity = "O" \/ line.parodd,
                      cstopb |-> s.stops = 2 \/ line.cstopb,
                      crtscts |-> s.flow = "Hardware" \/ line.crtscts]
          /\ due' = IF Configurable(s) THEN AsAsked(s) ELSE line'
  /\ UNCHANGED <<flowVars, appVars, muxVars>>

LineNext == SetParams \/ Configure

ServiceNext == FlowNext \/ AppNext \/ MuxNext \/ LineNext

ServiceSpec == ServiceInit /\ [][ServiceNext]_serviceVars

-----------------------------------------------------------------------------

\* The throttle never grants more than comes back and its capacity, whatever the width of
\* the count.  No turn of the loop begins after quit(), whether it was called before run(),
\* while the widget was drawn, from a callback or while suspended, and run() returns the
\* code of the last quit().  Clients that attach to one name are given one session, the
\* first of that name, although create() takes a name again; the active window exists.  A
\* serial line is set as was asked when the call says so, and is left alone when it says
\* not; of configure() this is claimed where it is Configurable.
ServicesKept ==
  /\ used = granted /\ used <= Capacity
  /\ ~ late /\ returned[1] = returned[2]
  /\ \A a \in attached :
       /\ sessions[a.session] = a.name
       /\ \A i \in 1..a.session - 1 : sessions[i] # a.name
  /\ windows > 0 => active < windows
  /\ line = due

=================================================================================
