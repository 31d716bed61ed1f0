----------------------------- MODULE MCEventLoop -----------------------------
(* Instances of EventLoop and EventLoopPosters for TLC: a behaviour is of one of     *)
(* the two.                                                                          *)
EXTENDS EventLoop, EventLoopPosters

VARIABLE part

mcVars == <<part, vars, postVars>>

\* Durations in clock ticks: due at once, and due one tick later.
MCDelays == {0, 1}

\* A behaviour has many tasks and few timers, or no task and many timers: the two do
\* not multiply.
Small ==
  \/ Len(timers) <= 1 /\ idles <= 1 /\ clock <= 1
  \/ posted = 0 /\ watched = {} /\ readable = {} /\ (Len(timers) <= 1 \/ idles = 0)

InLoop == part = "loop" /\ UNCHANGED <<part, postVars>>
InPosters == part = "posters" /\ UNCHANGED <<part, vars>>

MCInit == part \in {"loop", "posters"} /\ Init /\ PostInit

\* What only a call made by the application can do is left out when it is not Small; a
\* step without that call remains, so the loop is never kept from moving on.
MCNext ==
  \/ Next /\ Small' /\ InLoop
  \/ PostNext /\ InPosters

\* The fairness of FairSpec and of PostFairness, each in its own behaviours.
MCSpec ==
  /\ MCInit /\ [][MCNext]_mcVars
  /\ WF_mcVars(LoopStep /\ Small' /\ InLoop)
  /\ WF_mcVars(LoopThread /\ InPosters)
  /\ \A p \in Posters : WF_mcVars(lpc # "dead" /\ Posting(p) /\ InPosters)
=============================================================================
