-------------------------------- MODULE EventBus --------------------------------
(***************************************************************************)
(* ttytk::EventBus: post() calls the subscribers and then queues the event;   *)
(* a subscriber may post itself, and poll, before post() has returned.        *)
(***************************************************************************)
EXTENDS Naturals, SequencesExt

CONSTANTS
  MaxEvents,       \* bound: events posted
  MaxSubscribers   \* bound: subscribers

ASSUME SubscribersAssumption == MaxSubscribers \in Nat \ {0}

VARIABLES
  subscribers,   \* how many there are; they are numbered in order
  stack,         \* the calls of post() under way, the innermost last
  events,        \* the queue
  heard,         \* history: per subscriber, the events in the order it heard them
  polled,        \* history: the events poll() gave
  posts          \* events posted so far

busVars == <<subscribers, stack, events, heard, polled, posts>>

BusInit ==
  /\ subscribers = 0 /\ stack = <<>> /\ events = <<>>
  /\ heard = [s \in 1..MaxSubscribers |-> <<>>] /\ polled = <<>> /\ posts = 0

-----------------------------------------------------------------------------

\* subscribe(), between two posts: within one it would move the vector that is being run
\* over.
Subscribe ==
  /\ stack = <<>> /\ subscribers < MaxSubscribers
  /\ subscribers' = subscribers + 1
  /\ UNCHANGED <<stack, events, heard, polled, posts>>

\* post() begins, from outside or from the subscriber that is being called.
Post ==
  /\ stack # <<>> => Last(stack).next > 1
  /\ posts < MaxEvents /\ posts' = posts + 1
  /\ stack' = Append(stack, [event |-> posts + 1, next |-> 1])
  /\ UNCHANGED <<subscribers, events, heard, polled>>

\* ... calls the next subscriber ...
Notify ==
  /\ stack # <<>>
  /\ LET post == Last(stack)
     IN  /\ post.next <= subscribers
         /\ heard' = [heard EXCEPT ![post.next] = Append(@, post.event)]
         /\ stack' = [stack EXCEPT ![Len(stack)].next = @ + 1]
  /\ UNCHANGED <<subscribers, events, polled, posts>>

\* Mutant of Queued: the event is queued only if nobody heard it.
QueuedUnheard(event) == IF subscribers = 0 THEN Append(events, event) ELSE events

Queued(event) == Append(events, event)

\* ... and queues the event when all were called.
Enqueue ==
  /\ stack # <<>> /\ Last(stack).next > subscribers
  /\ events' = Queued(Last(stack).event)
  /\ stack' = Front(stack)
  /\ UNCHANGED <<subscribers, heard, polled, posts>>

Poll ==
  /\ events # <<>>
  /\ polled' = Append(polled, Head(events)) /\ events' = Tail(events)
  /\ UNCHANGED <<subscribers, stack, heard, posts>>

BusNext == Subscribe \/ Post \/ Notify \/ Enqueue \/ Poll

BusSpec == BusInit /\ [][BusNext]_busVars

-----------------------------------------------------------------------------

\* Every event whose post() has returned is in the queue or was polled, once; a subscriber
\* hears an event at most once, the ones before it have heard it by then, and the first one
\* hears all of them in the order of the calls.  (The others, and poll(), get an event that
\* was posted by a subscriber before the one it was posted for.)
EventsDelivered ==
  LET queued == polled \o events
      under == {stack[i].event : i \in DOMAIN stack}
  IN  /\ ToSet(queued) = 1..posts \ under
      /\ IsInjective(queued)
      /\ \A s \in 1..MaxSubscribers : IsInjective(heard[s])
      /\ \A i \in DOMAIN stack, s \in 1..MaxSubscribers :
           stack[i].event \in ToSet(heard[s]) <=> s < stack[i].next
      /\ \A i, j \in DOMAIN heard[1] : i < j => heard[1][i] < heard[1][j]

================================================================================
