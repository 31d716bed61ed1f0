------------------------------ MODULE MCProcesses ------------------------------
(* Instances of Processes for TLC: in each behaviour one part moves and the     *)
(* others stay as they began.                                                   *)
EXTENDS Processes

\* An empty message, one of a byte and one whose bytes could be taken for a header.
SomePayloads == {<<>>, <<7>>, <<0, 0>>}

VARIABLE moves  \* the one that moves

MCInit ==
  /\ moves \in {"channel", "files", "jobs", "signals", "bus", "flow", "app", "mux", "line", "screen"}
  /\ Init
  /\ moves = "files" \/ kind = [o \in Objects |-> "pty"]
  /\ moves = "screen" \/ (rows = 0 /\ columns = 0)

MCNext ==
  /\ UNCHANGED moves
  /\ \/ moves = "channel" /\ ChannelStep
     \/ moves = "files" /\ DescriptorStep
     \/ moves = "jobs" /\ JobStep
     \/ moves = "signals" /\ SignalStep
     \/ moves = "bus" /\ BusStep
     \/ moves = "flow" /\ ServiceStep /\ UNCHANGED <<appVars, muxVars, lineVars>>
     \/ moves = "app" /\ ServiceStep /\ UNCHANGED <<flowVars, muxVars, lineVars>>
     \/ moves = "mux" /\ ServiceStep /\ UNCHANGED <<flowVars, appVars, lineVars>>
     \/ moves = "line" /\ ServiceStep /\ UNCHANGED <<flowVars, appVars, muxVars>>
     \/ moves = "screen" /\ EmulatorStep

MCSpec == MCInit /\ [][MCNext]_<<moves, vars>>
================================================================================
