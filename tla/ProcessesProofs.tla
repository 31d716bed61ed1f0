---------------------------- MODULE ProcessesProofs ----------------------------
(***************************************************************************)
(* Proofs about the parts of Processes, each for every value of its            *)
(* constants: the signals, the jobs, the descriptors, the channel.             *)
(***************************************************************************)
EXTENDS Processes, TLAPS, WellFoundedInduction, SequenceTheorems

-----------------------------------------------------------------------------
(* The signals.                                                              *)

LEMMA SmallerOfTwo ==
  ASSUME NEW m \in Nat, NEW n \in Nat
  PROVE  Min({m, n}) = IF m <= n THEN m ELSE n
BY DEF Min

\* What keeps a change from being forgotten: it is owed only to the handler that
\* on_change() installed, with a callback; and between two calls nothing is remembered
\* of the pipe.
OwedInv ==
  /\ piped \in Nat
  /\ owed => handler = "signal_winch"
  /\ handler = "signal_winch" => callback
  /\ phase \in {"idle", "draining", "calling"}
  /\ phase = "idle" => ~ changed

SignalInv == OwedInv /\ SizeChangeKept

LEMMA SignalInit0 == SignalInit => SignalInv
BY DEF SignalInit, SignalInv, OwedInv, SizeChangeKept

LEMMA SignalStepKeeps ==
  ASSUME SignalInv, [SignalNext]_signalVars
  PROVE  SignalInv'
<1> USE DEF SignalInv, OwedInv, SizeChangeKept
<1>1. CASE UserResizes
  BY <1>1 DEF UserResizes, Resized
<1>2. CASE SignalWinch
  <2>1. PipeLimit \in Nat /\ PipeLimit > 0
    BY PipeAssumption
  <2>2. Min({piped + 1, PipeLimit}) \in Nat /\ Min({piped + 1, PipeLimit}) > 0
    BY <2>1, SmallerOfTwo
  <2> QED
    BY <1>2, <2>2 DEF SignalWinch
<1>3. CASE OnChange
  BY <1>3 DEF OnChange, InitializePipe
<1>4. CASE OnSigwinch
  BY <1>4 DEF OnSigwinch
<1>5. CASE BlockAll
  BY <1>5 DEF BlockAll
<1>6. CASE Dispatch
  BY <1>6 DEF Dispatch
<1>7. CASE Drain
  BY <1>7, PipeAssumption DEF Drain, Drained
<1>8. CASE Call
  BY <1>8 DEF Call, Answers
<1>9. CASE UNCHANGED signalVars
  BY <1>9 DEF signalVars
<1> QED
  BY <1>1, <1>2, <1>3, <1>4, <1>5, <1>6, <1>7, <1>8, <1>9 DEF SignalNext

\* No change of the window's size is forgotten, however small the pipe and however the
\* handler comes between the steps of dispatch_pending().
THEOREM SizeChangesAreKept == SignalSpec => []SizeChangeKept
<1>1. SignalInv => SizeChangeKept
  BY DEF SignalInv
<1> QED
  BY <1>1, SignalInit0, SignalStepKeeps, PTL DEF SignalSpec

-----------------------------------------------------------------------------
(* The jobs.                                                                 *)

Process ==
  [state : {"free", "running", "stopped", "doomed", "zombie"},
   child : Nat, status : Int, leads : BOOLEAN]

JobTypes ==
  /\ process \in [Pids -> Process]
  /\ pid \in [Handles -> Pids \cup {-1}]
  /\ child \in [Handles -> Nat]
  /\ told \in [Handles -> Int]
  /\ loose \subseteq Handles
  /\ forked \in Nat

\* A child that has ended keeps its code, or that of the signal that ended it, and a
\* handle that was neither copied nor asked running() shares its id with no other.
JobFacts ==
  /\ \A p \in Pids : process[p].state = "zombie" => process[p].status \in {CodeOf(process[p].child), 128 + 15}
  /\ \A j \in Handles \ loose, k \in Handles : j # k /\ pid[j] # -1 => pid[j] # pid[k]

JobInv == JobTypes /\ JobFacts /\ JobsNameTheirChild

LEMMA JobInit0 == JobInit => JobInv
BY PidsAssumption
   DEF JobInit, JobInv, JobTypes, JobFacts, JobsNameTheirChild, Process, Free, NotAsked

\* What Ended() makes of the processes.
LEMMA EndedIs ==
  ASSUME process \in [Pids -> Process], NEW p \in Pids, NEW status \in Int
  PROVE  /\ Ended(p, status) \in [Pids -> Process]
         /\ Ended(p, status)[p].state = "zombie"
         /\ Ended(p, status)[p].status = status
         /\ Ended(p, status)[p].child = process[p].child
         /\ \A q \in Pids \ {p} : Ended(p, status)[q] = process[q]
<1> DEFINE new == [[process[p] EXCEPT !.state = "zombie"] EXCEPT !.status = status]
<1>1. Ended(p, status) = [process EXCEPT ![p] = new]
  BY DEF Ended
<1>2. new \in Process /\ new.state = "zombie" /\ new.status = status /\ new.child = process[p].child
  BY DEF Process
<1> HIDE DEF new
<1> QED
  BY <1>1, <1>2

\* A step that only changes the state of processes that stay somebody's, and gives those
\* that end their code, keeps what the handles know.
LEMMA JobStateOnly ==
  ASSUME JobInv, UNCHANGED <<pid, child, told, loose, forked>>,
         process' \in [Pids -> Process],
         \A p \in Pids :
           /\ process'[p].child = process[p].child
           /\ (process'[p].state = "free") <=> (process[p].state = "free")
           /\ process'[p].state = "zombie" =>
                process'[p].status \in {CodeOf(process[p].child), 128 + 15}
  PROVE  JobInv'
<1>1. JobTypes'
  BY DEF JobInv, JobTypes
<1>2. JobFacts'
  BY DEF JobInv, JobFacts
<1>3. JobsNameTheirChild'
  <2>1. \A j \in Handles : pid[j] # -1 => pid[j] \in Pids
    BY DEF JobInv, JobTypes
  <2> QED
    BY <2>1 DEF JobInv, JobsNameTheirChild
<1> QED
  BY <1>1, <1>2, <1>3 DEF JobInv

LEMMA ExitStep == JobInv /\ Exit => JobInv'
<1> SUFFICES ASSUME JobInv, NEW p \in Pids, process[p].state = "running",
                    process' = Ended(p, CodeOf(process[p].child)),
                    UNCHANGED <<pid, child, told, loose, forked>>
             PROVE  JobInv'
  BY DEF Exit
<1>1. process \in [Pids -> Process] /\ CodeOf(process[p].child) \in Int
  BY DEF JobInv, JobTypes, Process, CodeOf
<1>2. \A q \in Pids : process[q].state = "zombie" =>
        process[q].status \in {CodeOf(process[q].child), 128 + 15}
  BY DEF JobInv, JobFacts
<1> QED
  BY <1>1, <1>2, EndedIs, JobStateOnly

LEMMA TerminateStep == JobInv /\ Terminate => JobInv'
<1> SUFFICES ASSUME JobInv, NEW j \in Handles, pid[j] # -1, Alive(pid[j]),
                    process' = IF process[pid[j]].state = "running" THEN Ended(pid[j], 128 + 15)
                               ELSE [process EXCEPT ![pid[j]].state = "doomed"],
                    UNCHANGED <<pid, child, told, loose, forked>>
             PROVE  JobInv'
  BY DEF Terminate
<1>1. process \in [Pids -> Process] /\ pid[j] \in Pids /\ 128 + 15 \in Int
  BY DEF JobInv, JobTypes
<1>2. \A q \in Pids : process[q].state = "zombie" =>
        process[q].status \in {CodeOf(process[q].child), 128 + 15}
  BY DEF JobInv, JobFacts
<1>3. CASE process[pid[j]].state = "running"
  BY <1>1, <1>2, <1>3, EndedIs, JobStateOnly
<1>4. CASE process[pid[j]].state # "running"
  <2>1. process' \in [Pids -> Process]
    BY <1>1, <1>4 DEF Process
  <2>2. process[pid[j]].state # "free"
    BY DEF Alive
  <2> QED
    BY <1>1, <1>2, <1>4, <2>1, <2>2, JobStateOnly DEF Process
<1> QED
  BY <1>3, <1>4

\* What suspend(), resume(), background() and foreground() leave of one process.
LEMMA ControlStep ==
  ASSUME JobInv, NEW p \in Pids, Alive(p), NEW ok \in BOOLEAN,
         UNCHANGED <<pid, child, told, loose, forked>>,
         \/ process[p].state = "running" /\ process' = [process EXCEPT ![p].state = "stopped"]
         \/ process' = Continued(p)
         \/ process' = [process EXCEPT ![p].leads = @ \/ ok]
         \/ process' = [Continued(p) EXCEPT ![p].leads = @ \/ ok]
  PROVE  JobInv'
<1>1. Continued(p) \in [Pids -> Process]
  BY DEF JobInv, JobTypes, Process, Ended, Continued
<1>2. \A q \in Pids :
        /\ Continued(p)[q].child = process[q].child
        /\ (Continued(p)[q].state = "free") <=> (process[q].state = "free")
        /\ Continued(p)[q].state = "zombie" =>
             Continued(p)[q].status \in {CodeOf(process[q].child), 128 + 15}
  BY DEF JobInv, JobTypes, JobFacts, Process, Ended, CodeOf, Alive, Continued
<1>3. process' \in [Pids -> Process]
  <2>0. process \in [Pids -> Process] /\ p \in Pids
    BY DEF JobInv, JobTypes
  <2>1. [process EXCEPT ![p].state = "stopped"] \in [Pids -> Process]
    BY <2>0 DEF Process
  <2>2. [process EXCEPT ![p].leads = @ \/ ok] \in [Pids -> Process]
    BY <2>0 DEF Process
  <2>3. [Continued(p) EXCEPT ![p].leads = @ \/ ok] \in [Pids -> Process]
    BY <1>1, <2>0 DEF Process
  <2> QED
    BY <1>1, <2>1, <2>2, <2>3
<1>4. \A q \in Pids :
        /\ process'[q].child = process[q].child
        /\ (process'[q].state = "free") <=> (process[q].state = "free")
        /\ process'[q].state = "zombie" =>
             process'[q].status \in {CodeOf(process[q].child), 128 + 15}
  BY <1>1, <1>2 DEF JobInv, JobTypes, JobFacts, Process, Alive
<1> QED
  BY <1>3, <1>4, JobStateOnly

LEMMA RunStep == JobInv /\ Run => JobInv'
<1> SUFFICES ASSUME JobInv, NEW j \in Handles, pid[j] = -1, j \notin loose,
                    told' = [told EXCEPT ![j] = NotAsked],
                    NEW p \in Pids, process[p] = Free,
                    process' = [process EXCEPT ![p] =
                      [state |-> "running", child |-> forked + 1, status |-> 0, leads |-> FALSE]],
                    pid' = [pid EXCEPT ![j] = p],
                    child' = [child EXCEPT ![j] = forked + 1],
                    loose' = loose \cup {i \in {j} : \E k \in loose : pid[k] = p},
                    forked' = forked + 1
             PROVE  JobInv'
  BY DEF Run
<1>1. JobTypes'
  <2>1. [state |-> "running", child |-> forked + 1, status |-> 0, leads |-> FALSE] \in Process
    BY DEF JobInv, JobTypes, Process
  <2> QED
    BY <2>1 DEF JobInv, JobTypes, NotAsked
<1>2. process'[p].state = "running" /\ process'[p].child = forked + 1
  BY DEF JobInv, JobTypes, Free
<1>3. \A q \in Pids \ {p} : process'[q] = process[q]
  BY DEF JobInv, JobTypes
<1>0. p # -1
  BY PidsAssumption
<1>4. \A k \in Handles \ loose : pid[k] # p
  BY <1>0 DEF JobInv, JobsNameTheirChild, Free
<1>5. JobFacts'
  <2>1. \A q \in Pids :
          process'[q].state = "zombie" => process'[q].status \in {CodeOf(process'[q].child), 128 + 15}
    BY <1>2, <1>3 DEF JobInv, JobFacts
  <2>2. ASSUME NEW i \in Handles \ loose', NEW k \in Handles, i # k, pid'[i] # -1
        PROVE  pid'[i] # pid'[k]
    <3>1. CASE i = j
      BY <2>2, <3>1, <1>4 DEF JobInv, JobTypes
    <3>2. CASE k = j
      BY <2>2, <3>2, <1>4 DEF JobInv, JobTypes
    <3>3. CASE i # j /\ k # j
      BY <2>2, <3>3 DEF JobInv, JobTypes, JobFacts
    <3> QED
      BY <3>1, <3>2, <3>3
  <2> QED
    BY <2>1, <2>2 DEF JobFacts
<1>6. JobsNameTheirChild'
  <2> SUFFICES ASSUME NEW i \in Handles \ loose'
               PROVE  /\ pid'[i] # -1 =>
                           process'[pid'[i]].state # "free" /\ process'[pid'[i]].child = child'[i]
                      /\ told'[i] >= 0 => told'[i] \in {CodeOf(child'[i]), 128 + 15}
    BY DEF JobsNameTheirChild
  <2>1. CASE i = j
    BY <2>1, <1>2 DEF JobInv, JobTypes, NotAsked
  <2>2. CASE i # j
    <3>1. i \in Handles \ loose /\ pid'[i] = pid[i] /\ child'[i] = child[i] /\ told'[i] = told[i]
      BY <2>2 DEF JobInv, JobTypes
    <3>2. pid[i] # -1 => pid[i] \in Pids \ {p}
      BY <3>1, <1>4 DEF JobInv, JobTypes
    <3> QED
      BY <3>1, <3>2, <1>3 DEF JobInv, JobsNameTheirChild
  <2> QED
    BY <2>1, <2>2
<1> QED
  BY <1>1, <1>5, <1>6 DEF JobInv

\* A process that goes back to the kernel is nobody's any longer: of the handles that a
\* step leaves tight, none still has its id.
LEMMA ReapedStep ==
  ASSUME JobInv, NEW p \in Pids, process' = Reaped(p),
         pid' \in [Handles -> Pids \cup {-1}], told' \in [Handles -> Int],
         loose' \subseteq Handles, loose \subseteq loose', UNCHANGED <<child, forked>>,
         \A i \in Handles : pid'[i] # -1 => pid'[i] = pid[i],
         \A i \in Handles \ loose' : pid'[i] # p,
         \A i \in Handles \ loose' : told'[i] # told[i] => told'[i] \in {-1, CodeOf(child[i]), 128 + 15}
  PROVE  JobInv'
<1>1. process' \in [Pids -> Process] /\ \A q \in Pids \ {p} : process'[q] = process[q]
  BY DEF JobInv, JobTypes, Reaped, Process, Free
<1>2. process'[p] = Free
  BY DEF JobInv, JobTypes, Reaped
<1>3. JobTypes'
  BY <1>1 DEF JobInv, JobTypes
<1>4. JobFacts'
  BY <1>1, <1>2 DEF JobInv, JobFacts, Free
<1>5. JobsNameTheirChild'
  <2> SUFFICES ASSUME NEW i \in Handles \ loose'
               PROVE  /\ pid'[i] # -1 =>
                           process'[pid'[i]].state # "free" /\ process'[pid'[i]].child = child[i]
                      /\ told'[i] >= 0 => told'[i] \in {CodeOf(child[i]), 128 + 15}
    BY DEF JobsNameTheirChild
  <2>1. i \in Handles \ loose
    OBVIOUS
  <2>2. pid'[i] # -1 => pid'[i] = pid[i] /\ pid'[i] \in Pids \ {p}
    OBVIOUS
  <2>3. told'[i] >= 0 => told'[i] \in {CodeOf(child[i]), 128 + 15}
    BY <2>1 DEF JobInv, JobsNameTheirChild
  <2> QED
    BY <1>1, <2>1, <2>2, <2>3 DEF JobInv, JobsNameTheirChild
<1> QED
  BY <1>3, <1>4, <1>5 DEF JobInv

LEMMA WaitStep == JobInv /\ Wait => JobInv'
<1> SUFFICES ASSUME JobInv, NEW j \in Handles, UNCHANGED <<child, loose, forked>>,
                    \/ /\ told' = [told EXCEPT ![j] = -1]
                       /\ UNCHANGED <<process, pid>>
                    \/ /\ pid[j] # -1 /\ process[pid[j]].state = "zombie"
                       /\ told' = [told EXCEPT ![j] = process[pid[j]].status]
                       /\ process' = Reaped(pid[j]) /\ pid' = PidAfter(j)
             PROVE  JobInv'
  BY DEF Wait
<1>1. CASE told' = [told EXCEPT ![j] = -1] /\ UNCHANGED <<process, pid>>
  <2>1. JobTypes' /\ JobFacts'
    BY <1>1 DEF JobInv, JobTypes, JobFacts
  <2>2. \A i \in Handles : told'[i] >= 0 => told'[i] = told[i]
    BY <1>1 DEF JobInv, JobTypes
  <2>3. JobsNameTheirChild'
    BY <1>1, <2>2 DEF JobInv, JobsNameTheirChild
  <2> QED
    BY <2>1, <2>3 DEF JobInv
<1>2. CASE /\ pid[j] # -1 /\ process[pid[j]].state = "zombie"
           /\ told' = [told EXCEPT ![j] = process[pid[j]].status]
           /\ process' = Reaped(pid[j]) /\ pid' = PidAfter(j)
  <2>1. pid[j] \in Pids /\ process[pid[j]].status \in Int
    BY <1>2 DEF JobInv, JobTypes, Process
  <2>2. process[pid[j]].status \in {CodeOf(process[pid[j]].child), 128 + 15}
    BY <1>2, <2>1 DEF JobInv, JobFacts
  <2>3. pid' \in [Handles -> Pids \cup {-1}] /\ told' \in [Handles -> Int]
    BY <1>2, <2>1 DEF JobInv, JobTypes, PidAfter
  <2>4. /\ \A i \in Handles : pid'[i] # -1 => pid'[i] = pid[i]
        /\ \A i \in Handles : told'[i] # told[i] => i = j /\ told'[i] = process[pid[j]].status
        /\ \A i \in Handles : pid'[i] = IF i = j THEN -1 ELSE pid[i]
    BY <1>2 DEF JobInv, JobTypes, PidAfter
  <2>5. \A i \in Handles \ loose : pid'[i] # pid[j]
    <3> TAKE i \in Handles \ loose
    <3>1. CASE i = j
      BY <1>2, <2>4, <3>1
    <3>2. CASE i # j
      <4>1. CASE pid[i] = -1
        BY <1>2, <2>4, <3>2, <4>1
      <4>2. CASE pid[i] # -1
        BY <2>4, <3>2, <4>2 DEF JobInv, JobFacts
      <4> QED
        BY <4>1, <4>2
    <3> QED
      BY <3>1, <3>2
  <2>6. \A i \in Handles \ loose : told'[i] # told[i] => told'[i] \in {-1, CodeOf(child[i]), 128 + 15}
    BY <1>2, <2>2, <2>4 DEF JobInv, JobsNameTheirChild
  <2> QED
    BY <1>2, <2>1, <2>3, <2>4, <2>5, <2>6, ReapedStep DEF JobInv, JobTypes
<1> QED
  BY <1>1, <1>2

LEMMA RunningStep == JobInv /\ Running => JobInv'
<1> SUFFICES ASSUME JobInv, NEW j \in Handles, pid[j] # -1, loose' = loose \cup {j},
                    process' = IF process[pid[j]].state = "zombie" THEN Reaped(pid[j]) ELSE process,
                    UNCHANGED <<pid, child, told, forked>>
             PROVE  JobInv'
  BY DEF Running
<1>1. pid[j] \in Pids /\ loose \subseteq loose' /\ loose' \subseteq Handles
  BY DEF JobInv, JobTypes
<1>2. CASE process' = process
  BY <1>2, <1>1 DEF JobInv, JobTypes, JobFacts, JobsNameTheirChild
<1>3. CASE process' = Reaped(pid[j])
  <2>1. \A i \in Handles \ loose' : pid'[i] # pid[j]
    BY DEF JobInv, JobFacts
  <2> QED
    BY <1>1, <1>3, <2>1, ReapedStep DEF JobInv, JobTypes
<1> QED
  BY <1>2, <1>3

LEMMA AddStep == JobInv /\ Add => JobInv'
<1> SUFFICES ASSUME JobInv, NEW j \in Handles, NEW k \in Handles, j # k, pid[j] # -1, pid[k] = -1,
                    pid' = [pid EXCEPT ![k] = pid[j]],
                    child' = [child EXCEPT ![k] = child[j]],
                    loose' = loose \cup {j, k},
                    UNCHANGED <<process, told, forked>>
             PROVE  JobInv'
  BY DEF Add
<1>1. JobTypes'
  BY DEF JobInv, JobTypes
<1>2. \A i \in Handles \ loose' : i \in Handles \ loose /\ i # j /\ pid'[i] = pid[i] /\ child'[i] = child[i]
  BY DEF JobInv, JobTypes
<1>3. JobFacts'
  BY <1>2 DEF JobInv, JobTypes, JobFacts
<1>4. JobsNameTheirChild'
  BY <1>2 DEF JobInv, JobsNameTheirChild
<1> QED
  BY <1>1, <1>3, <1>4 DEF JobInv

LEMMA JobStepKeeps ==
  ASSUME JobInv, [JobNext]_jobVars
  PROVE  JobInv'
<1>1. \A p \in Pids : process[p].state = "running" => Alive(p)
  BY DEF Alive
<1>2. CASE Suspend
  BY <1>1, <1>2, ControlStep DEF Suspend
<1>3. CASE Resume
  BY <1>3, ControlStep DEF Resume
<1>4. CASE Background
  BY <1>4, ControlStep DEF Background
<1>5. CASE Foreground
  BY <1>5, ControlStep DEF Foreground
<1>6. CASE UNCHANGED jobVars
  BY <1>6 DEF jobVars, JobInv, JobTypes, JobFacts, JobsNameTheirChild
<1> QED
  BY <1>2, <1>3, <1>4, <1>5, <1>6, ExitStep, RunStep, WaitStep, RunningStep, TerminateStep, AddStep
     DEF JobNext

\* For any number of jobs, children and ids that the kernel gives again: a handle that
\* was neither copied nor asked running() names its own child until the wait() that takes
\* its status, and that wait() answers what this child ended with.
THEOREM JobsKeepTheirChild == JobSpec => []JobsNameTheirChild
<1>1. JobInv => JobsNameTheirChild
  BY DEF JobInv
<1> QED
  BY <1>1, JobInit0, JobStepKeeps, PTL DEF JobSpec

-----------------------------------------------------------------------------
(* The descriptors.                                                          *)

IsOpening(x) ==
  x = [kind |-> x.kind, file |-> x.file, calls |-> x.calls, addresses |-> x.addresses]

DescriptorTypes ==
  /\ holds \in [Objects -> Files \cup {0}]
  /\ IsOpening(opening) /\ opening.file \in Files \cup {0}
  /\ opening # NoOpening => opening.file \in Files

DescriptorInv == DescriptorTypes /\ DescriptorsOwned

LEMMA NoOpeningIs == IsOpening(NoOpening) /\ NoOpening.file = 0
BY DEF NoOpening, IsOpening

\* Who owns a descriptor that is open, one descriptor at a time.
LEMMA Ownership ==
  DescriptorsOwned <=>
    /\ ~ misclosed
    /\ \A f : f \in open <=> f # 0 /\ (f = opening.file \/ \E o \in Objects : holds[o] = f)
    /\ \A o \in Objects : holds[o] # 0 =>
         holds[o] # opening.file /\ \A p \in Objects \ {o} : holds[p] # holds[o]
BY DEF DescriptorsOwned

LEMMA DescriptorInit0 == DescriptorInit => DescriptorInv
BY NoOpeningIs DEF DescriptorInit, DescriptorInv, DescriptorTypes, DescriptorsOwned

LEMMA DescriptorStepKeeps ==
  ASSUME DescriptorInv, [DescriptorNext]_descriptorVars
  PROVE  DescriptorInv'
<1> USE DEF DescriptorInv
<1>0. /\ holds \in [Objects -> Files \cup {0}] /\ IsOpening(opening)
      /\ opening # NoOpening => opening.file \in Files
      /\ opening.file # 0 => opening # NoOpening
      /\ 0 \notin Files
      /\ \A o \in Objects : holds[o] \in Files \cup {0}
      /\ \A f : f \in open => f # 0
  BY NoOpeningIs, FilesAssumption, Ownership DEF DescriptorTypes
<1>1. CASE Open
  <2>1. PICK k \in Kinds, n \in 1..Addresses : Begin(k, n)
    BY <1>1 DEF Open
  <2>2. PICK f \in Files \ open :
          /\ open' = open \cup {f}
          /\ opening' = [kind |-> k, file |-> f, calls |-> Calls(k), addresses |-> n]
    BY <2>1 DEF Begin
  <2>3. opening = NoOpening /\ UNCHANGED <<kind, holds, misclosed>>
    BY <1>1 DEF Open
  <2>4. IsOpening(opening') /\ opening'.file = f
    BY <2>2 DEF IsOpening
  <2>5. DescriptorTypes'
    BY <1>0, <2>3, <2>4 DEF DescriptorTypes
  <2>6. DescriptorsOwned'
    BY <1>0, <2>2, <2>3, <2>4, NoOpeningIs, Ownership DEF DescriptorsOwned
  <2> QED
    BY <2>5, <2>6
<1>2. CASE CallSucceeds
  <2>0. opening # NoOpening /\ opening.file \in Files /\ UNCHANGED <<kind, open, misclosed>>
    BY <1>0, <1>2 DEF CallSucceeds
  <2>1. CASE Len(opening.calls) > 1
    <3>1. opening' = [opening EXCEPT !.calls = Tail(@)] /\ UNCHANGED holds
      BY <1>2, <2>1 DEF CallSucceeds
    <3>2. IsOpening(opening') /\ opening'.file = opening.file
      BY <1>0, <3>1 DEF IsOpening
    <3> QED
      BY <1>0, <2>0, <3>1, <3>2 DEF DescriptorTypes, DescriptorsOwned
  <2>2. CASE ~ (Len(opening.calls) > 1)
    <3>1. PICK o \in Objects : holds[o] = 0 /\ holds' = [holds EXCEPT ![o] = opening.file]
      BY <1>2, <2>2 DEF CallSucceeds
    <3>2. opening' = NoOpening /\ opening'.file = 0
      BY <1>2, <2>2, NoOpeningIs DEF CallSucceeds
    <3>3. DescriptorTypes'
      BY <1>0, <2>0, <3>1, <3>2, NoOpeningIs DEF DescriptorTypes
    <3>4. \A p \in Objects : holds'[p] = IF p = o THEN opening.file ELSE holds[p]
      BY <1>0, <3>1
    <3>5. \A f : f \in open <=> f # 0 /\ (f = opening.file \/ \E p \in Objects : holds[p] = f)
      BY Ownership
    <3>6. {holds'[p] : p \in {q \in Objects : holds'[q] # 0}} = open
      BY <1>0, <2>0, <3>1, <3>4, <3>5
    <3>7. \A p \in Objects : holds'[p] # 0 => \A q \in Objects \ {p} : holds'[q] # holds'[p]
      BY <1>0, <2>0, <3>4 DEF DescriptorsOwned
    <3>8. ~ misclosed'
      BY <2>0 DEF DescriptorsOwned
    <3> QED
      BY <2>0, <3>2, <3>3, <3>6, <3>7, <3>8 DEF DescriptorsOwned
  <2> QED
    BY <2>1, <2>2
<1>3. CASE CallFails
  <2>1. opening.file \in Files /\ open' = open \ {opening.file} /\ opening' = NoOpening /\ UNCHANGED <<kind, holds, misclosed>>
    BY <1>0, <1>3 DEF CallFails, Abandoned
  <2>2. DescriptorTypes'
    BY <1>0, <2>1, NoOpeningIs DEF DescriptorTypes
  <2>3. \A f : f \in open' <=> f # 0 /\ (f = opening'.file \/ \E q \in Objects : holds'[q] = f)
    BY <1>0, <2>1, NoOpeningIs, Ownership
  <2>4. \A o \in Objects : holds'[o] # 0 =>
        holds'[o] # opening'.file /\ \A p \in Objects \ {o} : holds'[p] # holds'[o]
    BY <1>0, <2>1, NoOpeningIs, Ownership
  <2> QED
    BY <2>1, <2>2, <2>3, <2>4, Ownership DEF DescriptorsOwned
<1>4. CASE NextAddress
  <2>1. PICK f \in Files \ Abandoned :
          /\ open' = Abandoned \cup {f}
          /\ opening' = [opening EXCEPT !.file = f, !.addresses = @ - 1]
    BY <1>4 DEF NextAddress
  <2>2. opening.file \in Files /\ opening.addresses > 1 /\ UNCHANGED <<kind, holds, misclosed>>
    BY <1>0, <1>4 DEF NextAddress
  <2>3. IsOpening(opening') /\ opening'.file = f
    BY <1>0, <2>1 DEF IsOpening
  <2>4. DescriptorTypes'
    BY <1>0, <2>1, <2>2, <2>3 DEF DescriptorTypes
  <2>5. \A g : g \in open' <=> g # 0 /\ (g = opening'.file \/ \E q \in Objects : holds'[q] = g)
    BY <1>0, <2>1, <2>2, <2>3, Ownership DEF Abandoned
  <2>6. \A o \in Objects : holds'[o] # 0 =>
        holds'[o] # opening'.file /\ \A p \in Objects \ {o} : holds'[p] # holds'[o]
    BY <1>0, <2>1, <2>2, <2>3, Ownership DEF Abandoned
  <2> QED
    BY <2>2, <2>4, <2>5, <2>6, Ownership DEF DescriptorsOwned
<1>5. CASE Move
  <2>1. PICK o, p \in Objects : o # p /\ Closes(p) /\ holds' = Moved(o, p) /\ UNCHANGED opening
    BY <1>5 DEF Move
  <2>2. \A q \in Objects : holds'[q] = IF q = o THEN 0 ELSE IF q = p THEN holds[o] ELSE holds[q]
    BY <1>0, <2>1 DEF Moved
  <2>3. DescriptorTypes'
    BY <1>0, <2>1 DEF DescriptorTypes, Moved
  <2>4. open' = open \ {holds[p]} /\ misclosed' = FALSE
    BY <1>0, <2>1, Ownership DEF Closes, DescriptorsOwned
  <2>5. \A f : f \in open <=> f # 0 /\ (f = opening.file \/ \E q \in Objects : holds[q] = f)
    BY Ownership
  <2>6. \A f : f \in open' <=> f # 0 /\ (f = opening'.file \/ \E q \in Objects : holds'[q] = f)
    BY <1>0, <2>1, <2>2, <2>4, <2>5 DEF DescriptorsOwned
  <2>7. \A q \in Objects : holds'[q] # 0 =>
        holds'[q] # opening'.file /\ \A r \in Objects \ {q} : holds'[r] # holds'[q]
    BY <1>0, <2>1, <2>2 DEF DescriptorsOwned
  <2>8. open' = {holds'[q] : q \in {r \in Objects : holds'[r] # 0}} \cup ({opening'.file} \ {0})
    BY <2>6
  <2> QED
    BY <2>3, <2>4, <2>6, <2>7, <2>8 DEF DescriptorsOwned
<1>6. CASE Destroy
  <2>1. PICK o \in Objects : holds[o] # 0 /\ Closes(o) /\ holds' = [holds EXCEPT ![o] = 0] /\ UNCHANGED opening
    BY <1>6 DEF Destroy
  <2>2. open' = open \ {holds[o]} /\ misclosed' = FALSE
    BY <1>0, <2>1, Ownership DEF Closes, DescriptorsOwned
  <2>3. DescriptorTypes'
    BY <1>0, <2>1 DEF DescriptorTypes
  <2>4. \A q \in Objects : holds'[q] = IF q = o THEN 0 ELSE holds[q]
    BY <1>0, <2>1
  <2>5. \A f : f \in open' <=> f # 0 /\ (f = opening'.file \/ \E q \in Objects : holds'[q] = f)
    BY <1>0, <2>1, <2>2, <2>4, Ownership
  <2>6. \A q \in Objects : holds'[q] # 0 =>
        holds'[q] # opening'.file /\ \A r \in Objects \ {q} : holds'[r] # holds'[q]
    BY <1>0, <2>1, <2>4, Ownership
  <2>7. open' = {holds'[q] : q \in {r \in Objects : holds'[r] # 0}} \cup ({opening'.file} \ {0})
    BY <2>5
  <2> QED
    BY <2>2, <2>3, <2>5, <2>6, <2>7 DEF DescriptorsOwned
<1>7. CASE UNCHANGED descriptorVars
  BY <1>7 DEF descriptorVars, DescriptorInv, DescriptorTypes, DescriptorsOwned
<1> QED
  BY <1>1, <1>2, <1>3, <1>4, <1>5, <1>6, <1>7 DEF DescriptorNext

\* However the calls that open a descriptor fail and whatever objects are moved where:
\* every descriptor that is open has one owner, and none is closed twice.
THEOREM DescriptorsHaveOneOwner == DescriptorSpec => []DescriptorsOwned
<1>1. DescriptorInv => DescriptorsOwned
  BY DEF DescriptorInv
<1> QED
  BY <1>1, DescriptorInit0, DescriptorStepKeeps, PTL DEF DescriptorSpec

-----------------------------------------------------------------------------
(* The channel.                                                              *)

\* A set of numbers has a least one: what holds of no least counterexample holds of all.
LEMMA LeastNat ==
  ASSUME NEW T, T \subseteq Nat, T # {}
  PROVE  \E m \in T : \A n \in T : m <= n
<1> DEFINE R == OpToRel(<, Nat)
<1>1. IsWellFoundedOn(R, Nat)
  BY NatLessThanWellFounded
<1>2. \A m, n \in Nat : m < n => <<m, n>> \in R
  BY DEF OpToRel
<1> HIDE DEF R
<1>3. PICK m \in T : \A n \in T : ~ (<<n, m>> \in R)
  BY <1>1, WFMin
<1>4. \A n \in T : ~ (n < m)
  BY <1>2, <1>3
<1> QED
  BY <1>4

\* f[i] is the first i sequences put together.
Joins(f, seqs) ==
  \A i \in DOMAIN f : f[i] = IF i = 1 THEN seqs[i] ELSE f[i - 1] \o seqs[i]

LEMMA JoinsExist ==
  ASSUME NEW S, NEW seqs \in Seq(Seq(S))
  PROVE  \E f \in [1..Len(seqs) -> Seq(S)] : Joins(f, seqs)
<1> DEFINE Joined(n) == \E f \in [1..n -> Seq(S)] : Joins(f, seqs)
           T == {n \in 0..Len(seqs) : ~ Joined(n)}
<1> SUFFICES ASSUME T # {} PROVE FALSE
  BY DEF Joined
<1>0. T \subseteq Nat
  OBVIOUS
<1>1. PICK m \in T : \A n \in T : m <= n
  BY <1>0, LeastNat
<1>2. m # 0
  <2>1. [i \in 1..0 |-> <<>>] \in [1..0 -> Seq(S)] /\ Joins([i \in 1..0 |-> <<>>], seqs)
    BY DEF Joins
  <2>2. Joined(0)
    BY <2>1
  <2> QED
    BY <2>2
<1>3. m - 1 \in 0..Len(seqs) /\ m \in 1..Len(seqs) /\ Len(seqs) \in Nat
  BY <1>1, <1>2
<1>4. PICK f \in [1..(m - 1) -> Seq(S)] : Joins(f, seqs)
  <2>1. m - 1 \notin T
    <3> HIDE DEF T
    <3> QED
      BY <1>1, <1>3
  <2>2. Joined(m - 1)
    BY <1>3, <2>1
  <2> QED
    BY <2>2
<1> DEFINE g == [i \in 1..m |-> IF i # m THEN f[i] ELSE IF m = 1 THEN seqs[m] ELSE f[m - 1] \o seqs[m]]
<1>5. seqs[m] \in Seq(S) /\ (m # 1 => f[m - 1] \in Seq(S))
  BY <1>3, <1>4
<1>6. m # 1 => f[m - 1] \o seqs[m] \in Seq(S)
  BY <1>5, ConcatProperties
<1>7. g \in [1..m -> Seq(S)]
  BY <1>3, <1>5, <1>6
<1>8. Joins(g, seqs)
  <2>0. \A i \in 1..m : g[i] = IF i # m THEN f[i] ELSE IF m = 1 THEN seqs[m] ELSE f[m - 1] \o seqs[m]
    OBVIOUS
  <2> HIDE DEF g
  <2>1. \A i \in 1..(m - 1) : i \in 1..m /\ i # m /\ g[i] = f[i]
    BY <1>3, <2>0
  <2>2. \A i \in 1..(m - 1) : f[i] = IF i = 1 THEN seqs[i] ELSE f[i - 1] \o seqs[i]
    BY <1>4 DEF Joins
  <2>3. \A i \in 1..(m - 1) : g[i] = IF i = 1 THEN seqs[i] ELSE g[i - 1] \o seqs[i]
    <3> TAKE i \in 1..(m - 1)
    <3>1. i # 1 => i - 1 \in 1..(m - 1)
      BY <1>3
    <3> QED
      BY <2>1, <2>2, <3>1
  <2>4. g[m] = IF m = 1 THEN seqs[m] ELSE g[m - 1] \o seqs[m]
    BY <1>3, <2>0, <2>1
  <2>5. \A i \in 1..m : i \in 1..(m - 1) \/ i = m
    BY <1>3
  <2> QED
    BY <1>7, <2>3, <2>4, <2>5 DEF Joins
<1> QED
  BY <1>1, <1>7, <1>8

LEMMA JoinsAgree ==
  ASSUME NEW k \in Nat, NEW f, NEW g, NEW seqs, NEW more,
         DOMAIN f = 1..k, 1..k \subseteq DOMAIN g, Joins(f, seqs), Joins(g, more),
         \A i \in 1..k : seqs[i] = more[i]
  PROVE  \A i \in 1..k : f[i] = g[i]
<1> DEFINE T == {i \in 1..k : f[i] # g[i]}
<1> SUFFICES ASSUME T # {} PROVE FALSE
  OBVIOUS
<1>0. T \subseteq Nat
  OBVIOUS
<1>1. PICK m \in T : \A i \in T : m <= i
  BY <1>0, LeastNat
<1>2. m = 1 \/ (m - 1 \in 1..k /\ f[m - 1] = g[m - 1])
  <2>1. m - 1 \notin T
    BY <1>1
  <2> QED
    BY <1>1, <2>1
<1>3. f[m] = IF m = 1 THEN seqs[m] ELSE f[m - 1] \o seqs[m]
  BY <1>1 DEF Joins
<1>4. g[m] = IF m = 1 THEN more[m] ELSE g[m - 1] \o more[m]
  <2>1. m \in DOMAIN g
    BY <1>1
  <2> QED
    BY <2>1 DEF Joins
<1> QED
  BY <1>1, <1>2, <1>3, <1>4

LEMMA FlattenJoins ==
  ASSUME NEW S, NEW seqs \in Seq(Seq(S)), seqs # <<>>
  PROVE  \E f \in [1..Len(seqs) -> Seq(S)] : Joins(f, seqs) /\ FlattenSeq(seqs) = f[Len(seqs)]
<1> DEFINE Is(f) == f = [i \in 1..Len(seqs) |-> IF i = 1 THEN seqs[i] ELSE f[i - 1] \o seqs[i]]
           flatten == CHOOSE f : Is(f)
<1>1. PICK f \in [1..Len(seqs) -> Seq(S)] : Joins(f, seqs)
  BY JoinsExist
<1>2. f = [i \in 1..Len(seqs) |-> IF i = 1 THEN seqs[i] ELSE f[i - 1] \o seqs[i]]
  BY <1>1, ZenonT(40) DEF Joins
<1>3. Is(flatten)
  BY <1>2, Zenon
<1>4. DOMAIN flatten = 1..Len(seqs) /\ Joins(flatten, seqs)
  BY <1>3, Zenon DEF Joins
<1>5. FlattenSeq(seqs) = flatten[Len(seqs)]
  <2>1. Len(seqs) # 0
    OBVIOUS
  <2> QED
    BY <2>1 DEF FlattenSeq
<1>6. Len(seqs) \in Nat /\ Len(seqs) \in 1..Len(seqs)
  OBVIOUS
<1> HIDE DEF flatten
<1>7. \A i \in 1..Len(seqs) : f[i] = flatten[i]
  BY <1>1, <1>4, <1>6, JoinsAgree, ZenonT(90)
<1> QED
  BY <1>1, <1>5, <1>6, <1>7

LEMMA FlattenEmpty == FlattenSeq(<<>>) = <<>>
BY DEF FlattenSeq

LEMMA FlattenAppend ==
  ASSUME NEW S, NEW seqs \in Seq(Seq(S)), NEW s \in Seq(S)
  PROVE  FlattenSeq(seqs) \in Seq(S) /\ FlattenSeq(Append(seqs, s)) = FlattenSeq(seqs) \o s
<1> DEFINE more == Append(seqs, s)
<1>1. /\ more \in Seq(Seq(S)) /\ more # <<>> /\ Len(more) = Len(seqs) + 1
      /\ \A i \in 1..Len(seqs) : more[i] = seqs[i]
      /\ more[Len(more)] = s
  BY AppendProperties
<1> HIDE DEF more
<1>2. PICK g \in [1..Len(more) -> Seq(S)] : Joins(g, more) /\ FlattenSeq(more) = g[Len(more)]
  BY <1>1, FlattenJoins
<1>3. Len(seqs) \in Nat
  OBVIOUS
<1>4. CASE seqs = <<>>
  <2>1. Len(more) = 1
    BY <1>1, <1>4
  <2>2. g[1] = s
    BY <1>1, <1>2, <2>1 DEF Joins
  <2> QED
    BY <1>2, <1>4, <2>1, <2>2, FlattenEmpty, ConcatEmptySeq, EmptySeq DEF more
<1>5. CASE seqs # <<>>
  <2>1. PICK f \in [1..Len(seqs) -> Seq(S)] : Joins(f, seqs) /\ FlattenSeq(seqs) = f[Len(seqs)]
    BY <1>5, FlattenJoins
  <2>2. Len(seqs) \in 1..Len(seqs) /\ Len(more) # 1 /\ Len(more) - 1 = Len(seqs)
    BY <1>1, <1>3, <1>5
  <2>3. Len(seqs) \in 0..Len(more) /\ Len(more) \in Nat /\ Len(more) \in 1..Len(more)
    BY <1>1, <1>3
  <2>4. f[Len(seqs)] = g[Len(seqs)]
    <3>1. DOMAIN f = 1..Len(seqs) /\ 1..Len(seqs) \subseteq DOMAIN g
      BY <1>2, <2>1, <2>3
    <3>2. \A i \in 1..Len(seqs) : seqs[i] = more[i]
      BY <1>1
    <3>3. \A i \in 1..Len(seqs) : f[i] = g[i]
      BY <1>2, <1>3, <2>1, <3>1, <3>2, JoinsAgree, ZenonT(90)
    <3> QED
      BY <2>2, <3>3
  <2>5. g[Len(more)] = g[Len(seqs)] \o s
    BY <1>1, <1>2, <2>2, <2>3 DEF Joins
  <2> QED
    BY <1>2, <2>1, <2>2, <2>4, <2>5 DEF more
<1> QED
  BY <1>4, <1>5

LEMMA FlattenCons ==
  ASSUME NEW S, NEW seqs \in Seq(Seq(S)), NEW s \in Seq(S)
  PROVE  FlattenSeq(<<s>> \o seqs) = s \o FlattenSeq(seqs)
<1> DEFINE Wrong(t) == FlattenSeq(<<s>> \o t) # s \o FlattenSeq(t)
           T == {Len(t) : t \in {u \in Seq(Seq(S)) : Wrong(u)}}
<1> SUFFICES ASSUME T # {} PROVE FALSE
  OBVIOUS
<1>0. T \subseteq Nat
  OBVIOUS
<1>1. PICK m \in T : \A n \in T : m <= n
  BY <1>0, LeastNat
<1>2. PICK t \in Seq(Seq(S)) : Wrong(t) /\ Len(t) = m
  BY <1>1
<1>3. \A u \in Seq(Seq(S)) : Len(u) < Len(t) => ~ Wrong(u)
  <2>1. \A u \in Seq(Seq(S)) : Wrong(u) => Len(u) \in T
    OBVIOUS
  <2>2. \A u \in Seq(Seq(S)) : Len(u) \in Int
    OBVIOUS
  <2> HIDE DEF T, Wrong
  <2> QED
    BY <1>0, <1>1, <1>2, <2>1, <2>2
<1> HIDE DEF T
<1>4. <<s>> \in Seq(Seq(S))
  OBVIOUS
<1>5. CASE t = <<>>
  <2>1. <<s>> \o t = Append(<<>>, s)
    BY <1>5
  <2>0. <<>> \in Seq(Seq(S))
    OBVIOUS
  <2>2. FlattenSeq(<<s>> \o t) = <<>> \o s
    BY <2>0, <2>1, FlattenAppend, FlattenEmpty
  <2>3. s \o FlattenSeq(t) = s \o <<>>
    BY <1>5, FlattenEmpty
  <2> QED
    BY <1>2, <2>2, <2>3, ConcatEmptySeq
<1>6. CASE t # <<>>
  <2>1. PICK u \in Seq(Seq(S)), v \in Seq(S) : t = Append(u, v)
    BY <1>6, SequenceEmptyOrAppend
  <2>2. Len(u) < Len(t)
    BY <2>1
  <2>3. FlattenSeq(<<s>> \o u) = s \o FlattenSeq(u)
    BY <1>3, <2>2
  <2>4. <<s>> \o t = Append(<<s>> \o u, v) /\ <<s>> \o u \in Seq(Seq(S))
    BY <1>4, <2>1
  <2>5. FlattenSeq(<<s>> \o t) = (s \o FlattenSeq(u)) \o v
    BY <2>3, <2>4, FlattenAppend
  <2>6. FlattenSeq(t) = FlattenSeq(u) \o v /\ FlattenSeq(u) \in Seq(S)
    BY <2>1, FlattenAppend
  <2>7. (s \o FlattenSeq(u)) \o v = s \o (FlattenSeq(u) \o v)
    BY <2>6, ConcatAssociative, SMTT(30)
  <2> QED
    BY <1>2, <2>5, <2>6, <2>7
<1> QED
  BY <1>5, <1>6

LEMMA SamePrefix ==
  ASSUME NEW S, NEW a \in Seq(S), NEW b \in Seq(S), NEW c \in Seq(S), NEW d \in Seq(S),
         a \o b = c \o d, Len(a) = Len(c)
  PROVE  a = c /\ b = d
<1>1. \A i \in 1..Len(a) : (a \o b)[i] = a[i] /\ (c \o d)[i] = c[i]
  BY ConcatProperties
<1>2. a = c
  BY <1>1, SeqEqual
<1> QED
  BY <1>2, ConcatSimplifications

LEMMA HeaderIs ==
  ASSUME NEW n \in Nat
  PROVE  Header(n) \in Seq(Bytes) /\ Len(Header(n)) = 4
BY DEF Header, Bytes

\* Four bytes hold the size of any message that send() takes.
LEMMA SizeOfHeader ==
  ASSUME NEW n \in Nat, n \div 16777216 \in Bytes
  PROVE  SizeIn(Header(n)) = n
BY DEF SizeIn, Header, Bytes

LEMMA FramedIs ==
  ASSUME NEW p \in Seq(Bytes)
  PROVE  /\ Framed(p) \in Seq(Bytes) /\ Len(Framed(p)) = 4 + Len(p)
         /\ \A i \in 1..4 : Framed(p)[i] = Header(Len(p))[i]
         /\ SubSeq(Framed(p), 5, Len(Framed(p))) = p
<1>1. Len(p) \in Nat
  OBVIOUS
<1> DEFINE h == Header(Len(p))
<1>2. h \in Seq(Bytes) /\ Len(h) = 4 /\ Framed(p) = h \o p
  BY <1>1, HeaderIs DEF Framed
<1> HIDE DEF h
<1>a. /\ h \o p \in Seq(Bytes) /\ Len(h \o p) = Len(h) + Len(p)
      /\ \A i \in 1..(Len(h) + Len(p)) : (h \o p)[i] = IF i <= Len(h) THEN h[i] ELSE p[i - Len(h)]
  BY <1>2, ConcatProperties
<1>3. Framed(p) \in Seq(Bytes) /\ Len(Framed(p)) = 4 + Len(p)
  BY <1>2, <1>a
<1>4. \A i \in 1..(4 + Len(p)) : Framed(p)[i] = IF i <= 4 THEN h[i] ELSE p[i - 4]
  BY <1>2, <1>a
<1>5. /\ SubSeq(Framed(p), 5, 4 + Len(p)) \in Seq(Bytes) /\ Len(SubSeq(Framed(p), 5, 4 + Len(p))) = Len(p)
      /\ \A i \in 1..Len(p) : SubSeq(Framed(p), 5, 4 + Len(p))[i] = Framed(p)[5 + i - 1]
  BY <1>1, <1>3, SubSeqProperties
<1>6. \A i \in 1..Len(p) : SubSeq(Framed(p), 5, 4 + Len(p))[i] = p[i]
  BY <1>1, <1>4, <1>5
<1>7. SubSeq(Framed(p), 5, 4 + Len(p)) = p
  BY <1>5, <1>6, SeqEqual
<1> QED
  BY <1>1, <1>3, <1>4, <1>7 DEF h

LEMMA FramesAre ==
  ASSUME NEW messages \in Seq(Seq(Bytes))
  PROVE  /\ [i \in 1..Len(messages) |-> Framed(messages[i])] \in Seq(Seq(Bytes))
         /\ Len([i \in 1..Len(messages) |-> Framed(messages[i])]) = Len(messages)
         /\ \A i \in 1..Len(messages) : [j \in 1..Len(messages) |-> Framed(messages[j])][i] = Framed(messages[i])
<1>1. \A i \in 1..Len(messages) : messages[i] \in Seq(Bytes)
  BY ElementOfSeq
<1>2. \A i \in 1..Len(messages) : Framed(messages[i]) \in Seq(Bytes)
  BY <1>1, FramedIs
<1> QED
  BY <1>2

LEMMA Associate ==
  \A a, b, c \in Seq(Bytes) : (a \o b) \o c = a \o (b \o c)
BY ConcatAssociative

LEMMA FramesEmpty == Frames(<<>>) = <<>>
<1>1. [i \in 1..Len(<<>>) |-> Framed(<<>>[i])] = <<>>
  OBVIOUS
<1> QED
  BY <1>1, FlattenEmpty DEF Frames

LEMMA FramesAppend ==
  ASSUME NEW messages \in Seq(Seq(Bytes)), NEW p \in Seq(Bytes)
  PROVE  /\ Frames(messages) \in Seq(Bytes)
         /\ Frames(Append(messages, p)) = Frames(messages) \o Framed(p)
<1> DEFINE seqs == [i \in 1..Len(messages) |-> Framed(messages[i])]
           more == Append(messages, p)
           after == [i \in 1..Len(more) |-> Framed(more[i])]
<1>1. seqs \in Seq(Seq(Bytes)) /\ Len(seqs) = Len(messages) /\ Framed(p) \in Seq(Bytes)
      /\ \A i \in 1..Len(messages) : seqs[i] = Framed(messages[i])
  BY FramesAre, FramedIs
<1>2. more \in Seq(Seq(Bytes)) /\ Len(more) = Len(messages) + 1 /\ more[Len(more)] = p
      /\ \A i \in 1..Len(messages) : more[i] = messages[i]
  OBVIOUS
<1> HIDE DEF more
<1>3. after \in Seq(Seq(Bytes)) /\ Len(after) = Len(more)
      /\ \A i \in 1..Len(more) : after[i] = Framed(more[i])
  BY <1>2, FramesAre
<1> HIDE DEF seqs, after
<1>4. /\ Append(seqs, Framed(p)) \in Seq(Seq(Bytes)) /\ Len(Append(seqs, Framed(p))) = Len(seqs) + 1
      /\ \A i \in 1..Len(seqs) : Append(seqs, Framed(p))[i] = seqs[i]
      /\ Append(seqs, Framed(p))[Len(seqs) + 1] = Framed(p)
  BY <1>1
<1>5. Len(messages) \in Nat
  OBVIOUS
<1>6. \A i \in 1..Len(after) : after[i] = Append(seqs, Framed(p))[i]
  <2> TAKE i \in 1..Len(after)
  <2>1. i \in 1..Len(messages) \/ i = Len(messages) + 1
    BY <1>2, <1>3, <1>5
  <2> QED
    BY <1>1, <1>2, <1>3, <1>4, <2>1, SMTT(30)
<1>7. after = Append(seqs, Framed(p))
  BY <1>1, <1>2, <1>3, <1>4, <1>6, SeqEqual, SMTT(30)
<1> QED
  BY <1>1, <1>7, FlattenAppend DEF Frames, more, seqs, after

LEMMA FramesCons ==
  ASSUME NEW messages \in Seq(Seq(Bytes)), messages # <<>>
  PROVE  Frames(messages) = Framed(Head(messages)) \o Frames(Tail(messages))
<1>7. Len(messages) \in Nat /\ Len(messages) > 0
  OBVIOUS
<1> DEFINE seqs == [i \in 1..Len(messages) |-> Framed(messages[i])]
           rest == Tail(messages)
           after == [i \in 1..Len(rest) |-> Framed(rest[i])]
           first == Framed(Head(messages))
<1>1. seqs \in Seq(Seq(Bytes)) /\ Len(seqs) = Len(messages)
      /\ \A i \in 1..Len(messages) : seqs[i] = Framed(messages[i])
  BY FramesAre
<1>2. rest \in Seq(Seq(Bytes)) /\ Len(rest) = Len(messages) - 1
      /\ \A i \in 1..Len(rest) : rest[i] = messages[i + 1]
  BY HeadTailProperties
<1>a. Head(messages) = messages[1] /\ Head(messages) \in Seq(Bytes)
  OBVIOUS
<1>3. Head(messages) = messages[1] /\ Head(messages) \in Seq(Bytes) /\ first \in Seq(Bytes)
  BY <1>a, FramedIs
<1> HIDE DEF rest
<1>4. after \in Seq(Seq(Bytes)) /\ Len(after) = Len(rest)
      /\ \A i \in 1..Len(rest) : after[i] = Framed(rest[i])
  BY <1>2, FramesAre
<1> HIDE DEF seqs, after, first
<1>5. /\ <<first>> \in Seq(Seq(Bytes)) /\ Len(<<first>>) = 1 /\ <<first>>[1] = first
  BY <1>3
<1>6. /\ <<first>> \o after \in Seq(Seq(Bytes)) /\ Len(<<first>> \o after) = 1 + Len(after)
      /\ \A i \in 1..(1 + Len(after)) :
           (<<first>> \o after)[i] = IF i <= 1 THEN <<first>>[i] ELSE after[i - 1]
  BY <1>4, <1>5, ConcatProperties
<1>8. \A i \in 1..Len(seqs) : seqs[i] = (<<first>> \o after)[i]
  <2> TAKE i \in 1..Len(seqs)
  <2>1. CASE i = 1
    BY <1>1, <1>3, <1>5, <1>6, <1>7, <2>1 DEF first
  <2>2. CASE i # 1
    <3>0. i \in 1..Len(messages) /\ Len(rest) = Len(messages) - 1 /\ Len(after) = Len(rest)
      BY <1>1, <1>2, <1>4
    <3>1. i - 1 \in 1..Len(rest) /\ i \in 1..(1 + Len(after)) /\ ~ (i <= 1) /\ i \in 1..Len(messages)
      BY <1>7, <2>2, <3>0
    <3>2. after[i - 1] = Framed(rest[i - 1]) /\ rest[i - 1] = messages[(i - 1) + 1] /\ (i - 1) + 1 = i
      BY <1>2, <1>4, <3>1, SMTT(30)
    <3> QED
      BY <1>1, <1>6, <3>1, <3>2
  <2> QED
    BY <2>1, <2>2
<1>9. Len(seqs) = Len(<<first>> \o after)
  BY <1>1, <1>2, <1>4, <1>6, <1>7
<1>10. seqs = <<first>> \o after
  BY <1>1, <1>6, <1>8, <1>9, SeqEqual
<1> QED
  BY <1>3, <1>4, <1>10, FlattenCons DEF Frames, seqs, after, first, rest

ChannelTypes ==
  /\ sent \in Seq(Payloads) /\ got \in Seq(Seq(Bytes))
  /\ out \in Seq(Bytes) /\ wire \in Seq(Bytes) /\ in \in Seq(Bytes)

ChannelInv == ChannelTypes /\ FramesKept

\* What is still to be received.
Rest == SubSeq(sent, Len(got) + 1, Len(sent))

LEMMA RestIs ==
  ASSUME ChannelTypes
  PROVE  /\ sent \in Seq(Seq(Bytes)) /\ Rest \in Seq(Seq(Bytes))
         /\ Len(sent) \in Nat /\ Len(got) \in Nat
         /\ Len(Rest) = IF Len(got) < Len(sent) THEN Len(sent) - Len(got) ELSE 0
         /\ \A i \in 1..Len(Rest) : Rest[i] = sent[Len(got) + i]
<1>1. Payloads \subseteq Seq(Bytes)
  BY PayloadsAssumption
<1>2. sent \in Seq(Seq(Bytes)) /\ Len(sent) \in Nat /\ Len(got) \in Nat
  BY <1>1 DEF ChannelTypes
<1>3. \A i \in (Len(got) + 1)..Len(sent) : sent[i] \in Seq(Bytes)
  BY <1>2
<1>4. /\ Rest \in Seq(Seq(Bytes))
      /\ Len(Rest) = IF Len(got) + 1 <= Len(sent) THEN Len(sent) - (Len(got) + 1) + 1 ELSE 0
      /\ \A i \in 1..(Len(sent) - (Len(got) + 1) + 1) : Rest[i] = sent[Len(got) + 1 + i - 1]
  BY <1>2, <1>3, SubSeqProperties DEF Rest
<1> QED
  BY <1>2, <1>4

LEMMA ChannelInit0 == ChannelInit => ChannelInv
<1> SUFFICES ASSUME ChannelInit PROVE ChannelInv
  OBVIOUS
<1>1. ChannelTypes
  BY EmptySeq DEF ChannelInit, ChannelTypes
<1>2. SubSeq(sent, Len(got) + 1, Len(sent)) = <<>> /\ IsPrefix(got, sent)
  BY DEF ChannelInit, IsPrefix
<1>3. in \o wire \o out = <<>>
  BY DEF ChannelInit
<1> QED
  BY <1>1, <1>2, <1>3, FramesEmpty DEF ChannelInv, FramesKept

\* The n-th byte of the rest is on its way, wherever the parts are cut.
LEMMA CutElsewhere ==
  ASSUME NEW a \in Seq(Bytes), NEW b \in Seq(Bytes), NEW n \in 1..Len(b)
  PROVE  /\ SubSeq(b, 1, n) \in Seq(Bytes) /\ SubSeq(b, n + 1, Len(b)) \in Seq(Bytes)
         /\ a \o SubSeq(b, 1, n) \in Seq(Bytes)
         /\ SubSeq(b, 1, n) \o SubSeq(b, n + 1, Len(b)) = b
         /\ (a \o SubSeq(b, 1, n)) \o SubSeq(b, n + 1, Len(b)) = a \o b
<1> DEFINE x == SubSeq(b, 1, n)
           y == SubSeq(b, n + 1, Len(b))
<1>1. Len(b) \in Nat /\ n \in Int /\ 1 \in 1..(Len(b) + 1) /\ n \in 0..Len(b) /\ Len(b) \in n..Len(b)
  OBVIOUS
<1>2. \A i \in 1..Len(b) : b[i] \in Bytes
  OBVIOUS
<1>3. x \in Seq(Bytes)
  BY <1>1, <1>2
<1>4. y \in Seq(Bytes)
  BY <1>1, <1>2
<1>5. x \o y = SubSeq(b, 1, Len(b))
  BY <1>1, ConcatAdjacentSubSeq
<1>6. x \o y = b
  BY <1>5, SubSeqFull
<1> HIDE DEF x, y
<1>7. (a \o x) \o y = a \o (x \o y)
  BY <1>3, <1>4, Associate, ZenonT(40)
<1>8. a \o x \in Seq(Bytes)
  BY <1>3, Associate
<1> QED
  BY <1>3, <1>4, <1>6, <1>7, <1>8 DEF x, y

LEMMA FirstBytes ==
  \A a, b \in Seq(Bytes) : \A i \in 1..Len(a) : (a \o b)[i] = a[i]
BY ConcatProperties

LEMMA SendStep == ChannelInv /\ Send => ChannelInv'
<1> SUFFICES ASSUME ChannelInv, Send PROVE ChannelInv'
  OBVIOUS
<1>1. PICK p \in Payloads : sent' = Append(sent, p) /\ out' = Framed(p)
  BY DEF Send
<1>2. out = <<>> /\ UNCHANGED <<wire, in, got, failed>>
  BY DEF Send
<1>3. ChannelTypes /\ p \in Seq(Bytes)
  BY PayloadsAssumption DEF ChannelInv
<1>4. ChannelTypes'
  BY <1>1, <1>2, <1>3, FramedIs DEF ChannelTypes
<1>5. ASSUME failed = {} PROVE FramesKept'
  <2>1. IsPrefix(got, sent) /\ in \o wire \o out = Frames(Rest)
    BY <1>5 DEF ChannelInv, FramesKept, Rest
  <2>2. Len(got) <= Len(sent) /\ SubSeq(got, 1, Len(got)) = SubSeq(sent, 1, Len(got))
    BY <2>1 DEF IsPrefix
  <2>3. sent \in Seq(Seq(Bytes)) /\ Rest \in Seq(Seq(Bytes)) /\ Len(sent) \in Nat /\ Len(got) \in Nat
    BY <1>3, RestIs
  <2>4. SubSeq(sent', Len(got) + 1, Len(sent')) = Append(Rest, p)
    <3> DEFINE more == Append(sent, p)
               later == SubSeq(more, Len(got) + 1, Len(more))
    <3>1. /\ more \in Seq(Seq(Bytes)) /\ Len(more) = Len(sent) + 1 /\ more[Len(more)] = p
          /\ \A i \in 1..Len(sent) : more[i] = sent[i]
      BY <1>3, <2>3
    <3> HIDE DEF more
    <3>2. \A i \in (Len(got) + 1)..Len(more) : more[i] \in Seq(Bytes)
      BY <2>3, <3>1
    <3>3. /\ later \in Seq(Seq(Bytes)) /\ Len(later) = Len(sent) + 1 - Len(got)
          /\ \A i \in 1..(Len(sent) + 1 - Len(got)) : later[i] = more[Len(got) + i]
      BY <2>2, <2>3, <3>1, <3>2
    <3> HIDE DEF later
    <3>4. /\ Append(Rest, p) \in Seq(Seq(Bytes)) /\ Len(Append(Rest, p)) = Len(sent) + 1 - Len(got)
          /\ \A i \in 1..(Len(sent) - Len(got)) : Append(Rest, p)[i] = sent[Len(got) + i]
          /\ Append(Rest, p)[Len(sent) + 1 - Len(got)] = p
      <4>1. Len(Rest) = Len(sent) - Len(got) /\ \A i \in 1..Len(Rest) : Rest[i] = sent[Len(got) + i]
        BY <1>3, <2>2, <2>3, RestIs
      <4>2. /\ Append(Rest, p) \in Seq(Seq(Bytes)) /\ Len(Append(Rest, p)) = Len(Rest) + 1
            /\ \A i \in 1..Len(Rest) : Append(Rest, p)[i] = Rest[i]
            /\ Append(Rest, p)[Len(Rest) + 1] = p
        BY <1>3, <2>3
      <4> QED
        BY <2>3, <4>1, <4>2
    <3>5. \A i \in 1..Len(later) : later[i] = Append(Rest, p)[i]
      <4> TAKE i \in 1..Len(later)
      <4>1. CASE i <= Len(sent) - Len(got)
        <5>1. i \in 1..(Len(sent) - Len(got)) /\ Len(got) + i \in 1..Len(sent)
          BY <2>2, <2>3, <3>3, <4>1
        <5> QED
          BY <3>1, <3>3, <3>4, <5>1
      <4>2. CASE ~ (i <= Len(sent) - Len(got))
        <5>1. i = Len(sent) + 1 - Len(got) /\ Len(got) + i = Len(more)
          <6>1. Len(later) = Len(sent) + 1 - Len(got) /\ Len(more) = Len(sent) + 1
            BY <3>1, <3>3
          <6> QED
            <7>1. i \in 1..(Len(sent) + 1 - Len(got))
              BY <6>1
            <7>2. Len(got) \in Int /\ Len(sent) \in Int
              BY <2>3
            <7> QED
              BY <4>2, <6>1, <7>1, <7>2
        <5> QED
          BY <3>1, <3>3, <3>4, <5>1
      <4> QED
        BY <4>1, <4>2
    <3>6. later = Append(Rest, p)
      BY <3>3, <3>4, <3>5, SeqEqual
    <3> QED
      BY <1>1, <3>6 DEF later, more
  <2>5. IsPrefix(got', sent')
    BY <1>1, <1>2, <1>3, <2>2, <2>3 DEF IsPrefix
  <2>6. Frames(Append(Rest, p)) = Frames(Rest) \o Framed(p)
    BY <1>3, <2>3, FramesAppend
  <2>7. in' \o wire' \o out' = (in \o wire) \o Framed(p)
    BY <1>1, <1>2
  <2>8. in \o wire \o out = in \o wire
    BY <1>2, <1>3, ConcatEmptySeq DEF ChannelTypes
  <2> QED
    BY <1>2, <2>1, <2>4, <2>5, <2>6, <2>7, <2>8 DEF FramesKept
<1> QED
  BY <1>2, <1>4, <1>5 DEF ChannelInv, FramesKept

LEMMA WriteStep == ChannelInv /\ Write => ChannelInv'
<1> SUFFICES ASSUME ChannelInv, Write PROVE ChannelInv'
  OBVIOUS
<1>1. PICK n \in 1..Len(out) :
        wire' = wire \o SubSeq(out, 1, n) /\ out' = SubSeq(out, n + 1, Len(out))
  BY DEF Write
<1>2. UNCHANGED <<sent, in, got, failed>>
  BY DEF Write
<1>3. wire \in Seq(Bytes) /\ out \in Seq(Bytes) /\ in \in Seq(Bytes)
  BY DEF ChannelInv, ChannelTypes
<1> DEFINE first == SubSeq(out, 1, n)
           second == SubSeq(out, n + 1, Len(out))
<1>d. first \in Seq(Bytes) /\ second \in Seq(Bytes) /\ wire \o first \in Seq(Bytes)
  BY <1>1, <1>3, CutElsewhere
<1>4. (wire \o first) \o second = wire \o out
  BY <1>1, <1>3, CutElsewhere
<1> HIDE DEF first, second
<1>a. wire' = wire \o first /\ out' = second
  BY <1>1 DEF first, second
<1>b. in \o (wire \o first) \o second = in \o ((wire \o first) \o second)
  BY <1>3, <1>d, Associate, ZenonT(40)
<1>c. in \o wire \o out = in \o (wire \o out)
  BY <1>3, Associate
<1>5. in \o wire' \o out' = in \o wire \o out /\ wire' \in Seq(Bytes) /\ out' \in Seq(Bytes)
  BY <1>4, <1>a, <1>b, <1>c, <1>d
<1> QED
  BY <1>2, <1>5 DEF ChannelInv, ChannelTypes, FramesKept

LEMMA ReadStep == ChannelInv /\ Read => ChannelInv'
<1> SUFFICES ASSUME ChannelInv, Read PROVE ChannelInv'
  OBVIOUS
<1>1. PICK n \in 1..Len(wire) :
        LET bytes == in \o SubSeq(wire, 1, n)
        IN  /\ wire' = SubSeq(wire, n + 1, Len(wire))
            /\ IF Len(bytes) >= 4 /\ Missing(bytes) = 0
               THEN in' = <<>> /\ got' = Append(got, SubSeq(bytes, 5, Len(bytes)))
               ELSE in' = bytes /\ got' = got
  BY DEF Read
<1> DEFINE bytes == in \o SubSeq(wire, 1, n)
<1>2. UNCHANGED <<sent, out, failed>>
  BY DEF Read
<1>3. ChannelTypes /\ wire \in Seq(Bytes) /\ out \in Seq(Bytes) /\ in \in Seq(Bytes)
  BY DEF ChannelInv, ChannelTypes
<1>b. wire \in Seq(Bytes) /\ out \in Seq(Bytes) /\ in \in Seq(Bytes)
  BY <1>3
<1>a. bytes \in Seq(Bytes) /\ wire' \in Seq(Bytes)
  BY <1>1, <1>3, CutElsewhere
<1>4. bytes \in Seq(Bytes) /\ wire' \in Seq(Bytes) /\ bytes \o wire' = in \o wire
  <2>1. (in \o SubSeq(wire, 1, n)) \o SubSeq(wire, n + 1, Len(wire)) = in \o wire
    BY <1>1, <1>3, CutElsewhere
  <2> QED
    BY <1>1, <1>a, <2>1
<1>5. CASE in' = bytes /\ got' = got
  <2>1. in' \o wire' \o out' = in \o wire \o out
    BY <1>2, <1>4, <1>5
  <2> QED
    BY <1>2, <1>3, <1>4, <1>5, <2>1 DEF ChannelInv, ChannelTypes, FramesKept
<1> HIDE DEF bytes
<1>6. ASSUME Len(bytes) >= 4, Missing(bytes) = 0, in' = <<>>,
             got' = Append(got, SubSeq(bytes, 5, Len(bytes)))
      PROVE  ChannelInv'
  <2>1. ChannelTypes'
    <3>1. Len(bytes) \in Int /\ \A i \in 5..Len(bytes) : bytes[i] \in Bytes
      BY <1>4
    <3>2. SubSeq(bytes, 5, Len(bytes)) \in Seq(Bytes)
      BY <3>1, SubSeqProperties
    <3> QED
      BY <1>2, <1>3, <1>4, <1>6, <3>2 DEF ChannelTypes
  <2>2. ASSUME failed = {} PROVE FramesKept'
    <3>0. wire' \o out \in Seq(Bytes) /\ bytes \o (wire' \o out) = (bytes \o wire') \o out
      <4>1. wire' \o out \in Seq(Bytes)
        BY <1>b, <1>a
      <4>2. (bytes \o wire') \o out = bytes \o (wire' \o out)
        <5>1. bytes \in Seq(Bytes) /\ wire' \in Seq(Bytes) /\ out \in Seq(Bytes)
          BY <1>b, <1>a
        <5> QED
          BY <5>1, Associate, ZenonT(40)
      <4> QED
        BY <4>1, <4>2
    <3> DEFINE left == wire' \o out
    <3>1. IsPrefix(got, sent) /\ in \o wire \o out = Frames(Rest)
      BY <2>2 DEF ChannelInv, FramesKept, Rest
    <3>2. left \in Seq(Bytes) /\ bytes \o left = Frames(Rest)
      BY <1>4, <3>0, <3>1
    <3> HIDE DEF left
    <3>3. Rest # <<>>
      <4>1. Len(bytes \o left) >= 4
        BY <1>4, <1>6, <3>2
      <4> QED
        BY <3>2, <4>1, FramesEmpty
    <3> DEFINE p == Head(Rest)
    <3>4. Rest \in Seq(Seq(Bytes)) /\ p \in Seq(Bytes) /\ Tail(Rest) \in Seq(Seq(Bytes))
      BY <1>3, <3>3, RestIs
    <3>5. Len(got) < Len(sent) /\ p = sent[Len(got) + 1] /\ p \in Payloads
          /\ Tail(Rest) = SubSeq(sent, Len(got) + 1 + 1, Len(sent))
      <4>1. Len(sent) \in Nat /\ Len(got) \in Nat /\ Len(got) < Len(sent)
        BY <1>3, <3>3, RestIs
      <4>2. Len(got) + 1 \in 1..Len(sent) /\ Len(sent) \in (Len(got) + 1)..Len(sent)
        BY <4>1
      <4>3. Head(Rest) = sent[Len(got) + 1] /\ Tail(Rest) = SubSeq(sent, Len(got) + 1 + 1, Len(sent))
        BY <1>3, <4>2, HeadTailOfSubSeq DEF ChannelTypes, Rest
      <4>4. sent[Len(got) + 1] \in Payloads
        BY <1>3, <4>2 DEF ChannelTypes
      <4> QED
        BY <4>1, <4>3, <4>4
    <3> HIDE DEF p
    <3>a. p \in Payloads
      BY <3>5
    <3>b. Len(Framed(p)) = 4 + Len(p) /\ Len(p) \in Nat
      BY <3>4, FramedIs
    <3>6. Len(p) \in Nat /\ Len(p) \div 16777216 \in Bytes
      <4>1. Len(p) \in Nat
        BY <3>4
      <4>2. Len(p) \div 16777216 \in Bytes
        BY <3>a, PayloadsAssumption, SMT
      <4> QED
        BY <4>1, <4>2, SMT
    <3>7. bytes \o left = Framed(p) \o Frames(Tail(Rest)) /\ Framed(p) \in Seq(Bytes)
          /\ Frames(Tail(Rest)) \in Seq(Bytes)
      BY <3>2, <3>3, <3>4, FramesCons, FramesAppend, FramedIs DEF p
    <3>8. \A i \in 1..4 : bytes[i] = Header(Len(p))[i]
      <4> TAKE i \in 1..4
      <4>a. i \in 1..Len(bytes) /\ i \in 1..Len(Framed(p))
        BY <1>a, <1>6, <3>b
      <4>1. (bytes \o left)[i] = bytes[i]
        BY <1>4, <3>2, <4>a, FirstBytes
      <4>2. (Framed(p) \o Frames(Tail(Rest)))[i] = Framed(p)[i]
        BY <3>7, <4>a, FirstBytes
      <4> QED
        BY <3>4, <3>7, <4>1, <4>2, FramedIs
    <3>9. SizeIn(bytes) = Len(p)
      <4>1. SizeIn(bytes) = SizeIn(Header(Len(p)))
        BY <3>8 DEF SizeIn
      <4> QED
        BY <3>6, <4>1, SizeOfHeader
    <3>10. Len(bytes) = Len(Framed(p))
      <4>1. Len(bytes) \in Nat /\ Missing(bytes) = 4 + SizeIn(bytes) - Len(bytes)
        BY <1>4, <1>6 DEF Missing
      <4>2. Len(Framed(p)) = 4 + Len(p) /\ Len(p) \in Nat
        BY <3>4, <3>6, FramedIs
      <4> QED
        BY <1>6, <3>9, <4>1, <4>2, SMTT(30)
    <3>11. bytes = Framed(p) /\ left = Frames(Tail(Rest))
      BY <1>4, <3>2, <3>7, <3>10, SamePrefix
    <3>12. got' = Append(got, p)
      BY <1>6, <3>4, <3>11, FramedIs
    <3>13. IsPrefix(got', sent')
      <4>1. got \in Seq(Seq(Bytes)) /\ sent \in Seq(Seq(Bytes)) /\ Len(got) \in Nat /\ Len(sent) \in Nat
        BY <1>3, RestIs DEF ChannelTypes
      <4>2. \A i \in 1..Len(got) : got[i] = sent[i]
        BY <3>1, <4>1 DEF IsPrefix
      <4>3. \A i \in 1..(Len(got) + 1) : Append(got, p)[i] = sent[i]
        BY <3>4, <3>5, <4>1, <4>2, SMTT(30)
      <4> QED
        <5> DEFINE more == Append(got, p)
        <5>1. more \in Seq(Seq(Bytes)) /\ Len(more) = Len(got) + 1
          BY <3>4, <4>1
        <5>2. Len(more) <= Len(sent) /\ \A i \in 1..Len(more) : more[i] = sent[i]
          BY <3>5, <4>1, <4>3, <5>1, SMTT(30)
        <5> HIDE DEF more
        <5>3. SubSeq(more, 1, Len(more)) = SubSeq(sent, 1, Len(more))
          BY <4>1, <5>1, <5>2
        <5> QED
          BY <1>2, <3>12, <5>2, <5>3 DEF IsPrefix, more
    <3>14. in' \o wire' \o out' = left
      BY <1>2, <1>4, <1>6, ConcatEmptySeq DEF left
    <3>15. SubSeq(sent', Len(got') + 1, Len(sent')) = Tail(Rest)
      <4>1. Len(got') = Len(got) + 1
        BY <1>3, <3>4, <3>12 DEF ChannelTypes
      <4>2. Len(got) \in Nat
        BY <1>3, RestIs
      <4> QED
        BY <1>2, <3>5, <4>1
    <3> QED
      BY <3>11, <3>13, <3>14, <3>15 DEF FramesKept
  <2> QED
    BY <1>2, <2>1, <2>2 DEF ChannelInv, FramesKept
<1> QED
  BY <1>1, <1>5, <1>6 DEF bytes

LEMMA ChannelStepKeeps ==
  ASSUME ChannelInv, [ChannelNext]_channelVars
  PROVE  ChannelInv'
<1>1. CASE WriteFails
  BY <1>1, EmptySeq DEF WriteFails, ChannelInv, ChannelTypes, FramesKept
<1>2. CASE ReadFails
  BY <1>2, EmptySeq DEF ReadFails, ChannelInv, ChannelTypes, FramesKept
<1>3. CASE Close
  BY <1>3 DEF Close, ChannelInv, ChannelTypes, FramesKept
<1>4. CASE UNCHANGED channelVars
  BY <1>4 DEF channelVars, ChannelInv, ChannelTypes, FramesKept
<1> QED
  BY <1>1, <1>2, <1>3, <1>4, SendStep, WriteStep, ReadStep DEF ChannelNext

\* Messages of any bytes, up to the size that the header's four bytes hold, through a
\* socket of any size, cut by the kernel anywhere: until a call fails, what receive()
\* returns are the messages sent, in their order, and the bytes on their way are the
\* frames of the others.
THEOREM MessagesArriveWhole == ChannelSpec => []FramesKept
<1>1. ChannelInv => FramesKept
  BY DEF ChannelInv
<1> QED
  BY <1>1, ChannelInit0, ChannelStepKeeps, PTL DEF ChannelSpec

-----------------------------------------------------------------------------
(* The emulator.                                                             *)

Line == [1..columns -> Letters \cup {Blank}]

EmulatorTypes ==
  /\ rows \in Nat /\ columns \in Nat /\ row \in Nat /\ column \in Nat
  /\ screen \in Seq(Line) /\ Len(screen) = rows
  /\ crashed \in BOOLEAN /\ torn \in BOOLEAN
  /\ CursorInside

\* SheetKept line by line: the screen is the foot of the sheet, and the scrollback as
\* many lines above it as there are or as its limit allows.
SheetLines ==
  ~ torn =>
    /\ sheet \in Seq(Line) /\ Len(sheet) >= rows
    /\ \A r \in 1..rows : screen[r] = sheet[Len(sheet) - rows + r]
    /\ lines \in Seq(Line)
    /\ Len(lines) = IF Len(sheet) - rows <= Limit THEN Len(sheet) - rows ELSE Limit
    /\ \A k \in 1..Len(lines) : lines[k] = sheet[Len(sheet) - rows - Len(lines) + k]

EmulatorInv == EmulatorTypes /\ SheetLines

LEMMA BlankLineIs == columns \in Nat => BlankLine(columns) \in Line
BY DEF BlankLine, Line

LEMMA ClampInside ==
  ASSUME NEW n \in Nat, NEW extent \in Nat
  PROVE  Clamp(n, extent) \in Nat /\ (extent > 0 => Clamp(n, extent) < extent)
<1>1. CASE extent = 0
  BY <1>1 DEF Clamp
<1>2. CASE extent # 0
  <2>1. extent - 1 \in Nat
    BY <1>2
  <2>2. Min({n, extent - 1}) = IF n <= extent - 1 THEN n ELSE extent - 1
    BY <2>1, SmallerOfTwo
  <2> QED
    BY <1>2, <2>1, <2>2 DEF Clamp
<1> QED
  BY <1>1, <1>2

LEMMA SheetLinesSuffice == EmulatorInv => ScreenKept
<1> SUFFICES ASSUME EmulatorInv PROVE ScreenKept
  OBVIOUS
<1>1. EmulatorTypeOK
  BY DEF EmulatorInv, EmulatorTypes, EmulatorTypeOK, Line
<1>2. ASSUME ~ torn
      PROVE  LET off == SubSeq(sheet, 1, Len(sheet) - rows)
             IN  /\ screen = SubSeq(sheet, Len(sheet) - rows + 1, Len(sheet))
                 /\ lines = SubSeq(off, Max({0, Len(off) - Limit}) + 1, Len(off))
  <2> DEFINE n == Len(sheet)
             foot == SubSeq(sheet, n - rows + 1, n)
             off == SubSeq(sheet, 1, n - rows)
  <2>1. /\ sheet \in Seq(Line) /\ n \in Nat /\ rows \in Nat /\ n >= rows
        /\ \A r \in 1..rows : screen[r] = sheet[n - rows + r]
        /\ screen \in Seq(Line) /\ Len(screen) = rows
        /\ \A i \in 1..n : sheet[i] \in Line
    BY <1>2 DEF EmulatorInv, EmulatorTypes, SheetLines
  <2>2. /\ lines \in Seq(Line) /\ Limit \in Nat
        /\ Len(lines) = IF n - rows <= Limit THEN n - rows ELSE Limit
        /\ \A k \in 1..Len(lines) : lines[k] = sheet[n - rows - Len(lines) + k]
    BY <1>2, LimitsAssumption DEF EmulatorInv, SheetLines
  <2> HIDE DEF n
  <2>3. /\ foot \in Seq(Line) /\ Len(foot) = rows
        /\ \A r \in 1..rows : foot[r] = sheet[n - rows + r]
    BY <2>1
  <2>4. /\ off \in Seq(Line) /\ Len(off) = n - rows
        /\ \A i \in 1..(n - rows) : off[i] = sheet[i]
    BY <2>1
  <2> HIDE DEF foot, off
  <2>5. screen = foot
    BY <2>1, <2>3, SeqEqual
  <2> DEFINE above == Max({0, Len(off) - Limit})
             kept == SubSeq(off, above + 1, Len(off))
  <2>6. above = IF n - rows <= Limit THEN 0 ELSE n - rows - Limit
    BY <2>1, <2>2, <2>4 DEF Max
  <2>7. above \in Nat /\ Len(lines) = n - rows - above /\ above <= n - rows
    BY <2>1, <2>2, <2>6
  <2> HIDE DEF above
  <2>8. /\ kept \in Seq(Line) /\ Len(kept) = n - rows - above
        /\ \A k \in 1..(n - rows - above) : kept[k] = off[above + k]
    <3>1. \A i \in (above + 1)..Len(off) : off[i] \in Line
      BY <2>4, <2>7
    <3>2. above + 1 \in Int /\ Len(off) \in Int /\ Len(off) - (above + 1) + 1 = n - rows - above
      BY <2>1, <2>4, <2>7
    <3>3. /\ kept \in Seq(Line)
          /\ Len(kept) = IF above + 1 <= Len(off) THEN Len(off) - (above + 1) + 1 ELSE 0
          /\ \A k \in 1..(Len(off) - (above + 1) + 1) : kept[k] = off[above + 1 + k - 1]
      BY <3>1, <3>2, SubSeqProperties
    <3>4. \A k \in 1..(n - rows - above) : kept[k] = off[above + 1 + k - 1] /\ above + 1 + k - 1 = above + k
      BY <2>7, <3>2, <3>3
    <3> QED
      BY <2>1, <2>4, <2>7, <3>2, <3>3, <3>4
  <2> HIDE DEF kept
  <2>9. \A k \in 1..Len(lines) : lines[k] = kept[k]
    <3> TAKE k \in 1..Len(lines)
    <3>1. n - rows - Len(lines) + k = above + k /\ above + k \in 1..(n - rows)
      <4>1. k \in 1..(n - rows - above)
        BY <2>7
      <4> QED
        BY <2>1, <2>7, <4>1
    <3> QED
      BY <2>2, <2>4, <2>7, <2>8, <3>1
  <2>10. lines = kept
    BY <2>2, <2>7, <2>8, <2>9, SeqEqual
  <2> QED
    BY <2>5, <2>10 DEF n, foot, off, above, kept
<1> QED
  BY <1>1, <1>2 DEF ScreenKept, SheetKept, EmulatorInv, EmulatorTypes

LEMMA EmulatorInit0 == EmulatorInit => EmulatorInv
<1> SUFFICES ASSUME EmulatorInit PROVE EmulatorInv
  OBVIOUS
<1>1. rows \in Nat /\ columns \in Nat
  BY LimitsAssumption DEF EmulatorInit
<1>2. BlankLine(columns) \in Line
  BY <1>1, BlankLineIs
<1>3. screen \in Seq(Line) /\ Len(screen) = rows
  BY <1>1, <1>2 DEF EmulatorInit
<1>4. EmulatorTypes
  BY <1>1, <1>3 DEF EmulatorInit, EmulatorTypes, CursorInside
<1>5. /\ sheet \in Seq(Line) /\ Len(sheet) = rows /\ lines = <<>> /\ Len(lines) = 0
      /\ \A r \in 1..rows : screen[r] = sheet[r]
  BY <1>3 DEF EmulatorInit
<1> QED
  BY <1>1, <1>4, <1>5, LimitsAssumption DEF EmulatorInv, SheetLines

LEMMA PutLetterStep == EmulatorInv /\ PutLetter => EmulatorInv'
<1> SUFFICES ASSUME EmulatorInv, PutLetter PROVE EmulatorInv'
  OBVIOUS
<1>1. PICK v \in Letters :
        IF rows = 0 \/ columns = 0 THEN UNCHANGED <<screen, column, sheet>>
        ELSE /\ screen' = [screen EXCEPT ![row + 1][column + 1] = v]
             /\ sheet' = IF torn THEN sheet
                         ELSE [sheet EXCEPT ![Len(sheet) - rows + row + 1][column + 1] = v]
             /\ column' = IF column + 1 < columns THEN column + 1 ELSE column
  BY DEF PutLetter
<1>2. UNCHANGED <<rows, columns, row, lines, crashed, torn>>
  BY DEF PutLetter
<1>3. CASE rows = 0 \/ columns = 0
  BY <1>1, <1>2, <1>3 DEF EmulatorInv, EmulatorTypes, SheetLines, CursorInside, Line
<1>4. CASE rows # 0 /\ columns # 0
  <2>1. /\ screen \in Seq(Line) /\ Len(screen) = rows /\ rows \in Nat /\ columns \in Nat
        /\ row \in Nat /\ column \in Nat /\ row < rows /\ column < columns
    BY <1>4 DEF EmulatorInv, EmulatorTypes, CursorInside
  <2> DEFINE put(old) == [old EXCEPT ![column + 1] = v]
  <2>2. \A old \in Line : put(old) \in Line
    BY DEF Line
  <2> HIDE DEF put
  <2>3. screen' = [screen EXCEPT ![row + 1] = put(screen[row + 1])]
    BY <1>1, <1>4 DEF put
  <2>4. row + 1 \in 1..rows /\ screen[row + 1] \in Line
    BY <2>1
  <2>5. screen' \in Seq(Line) /\ Len(screen') = rows
    BY <2>1, <2>2, <2>3, <2>4
  <2>6. \A r \in 1..rows : screen'[r] = IF r = row + 1 THEN put(screen[row + 1]) ELSE screen[r]
    BY <2>1, <2>3
  <2>7. Line' = Line
    BY <1>2 DEF Line
  <2>8. EmulatorTypes'
    <3>1. column' \in Nat /\ column' < columns
      BY <1>1, <1>4, <2>1
    <3> QED
      BY <1>2, <2>1, <2>5, <2>7, <3>1 DEF EmulatorInv, EmulatorTypes, CursorInside
  <2>9. ASSUME ~ torn PROVE SheetLines'
    <3> DEFINE n == Len(sheet)
               at == n - rows + row + 1
    <3>1. /\ sheet \in Seq(Line) /\ n \in Nat /\ n >= rows
          /\ \A r \in 1..rows : screen[r] = sheet[n - rows + r]
          /\ lines \in Seq(Line)
          /\ Len(lines) = IF n - rows <= Limit THEN n - rows ELSE Limit
          /\ \A k \in 1..Len(lines) : lines[k] = sheet[n - rows - Len(lines) + k]
      BY <2>9 DEF EmulatorInv, SheetLines
    <3>2. sheet' = [sheet EXCEPT ![at] = put(sheet[at])]
      BY <1>1, <1>4, <2>9 DEF put
    <3>3. at \in 1..n
      BY <2>1, <3>1
    <3>4. sheet' \in Seq(Line) /\ Len(sheet') = n /\ \A i \in 1..n : sheet'[i] = IF i = at THEN put(sheet[at]) ELSE sheet[i]
      <4>1. sheet[at] \in Line
        BY <3>1, <3>3
      <4> QED
        BY <2>2, <3>1, <3>2, <3>3, <4>1
    <3>a. n \in Nat /\ n >= rows /\ rows \in Nat /\ row \in Nat /\ row < rows
      BY <2>1, <3>1
    <3>b. Len(lines) \in Nat /\ Len(lines) <= n - rows
      BY <3>1, <3>a, LimitsAssumption
    <3> HIDE DEF n
    <3>5. \A r \in 1..rows : screen'[r] = sheet'[n - rows + r]
      <4> TAKE r \in 1..rows
      <4>1. n - rows + r \in 1..n /\ ((n - rows + r = at) <=> (r = row + 1))
        BY <3>a
      <4>2. sheet'[n - rows + r] = IF n - rows + r = at THEN put(sheet[at]) ELSE sheet[n - rows + r]
        BY <3>4, <4>1
      <4>3. screen[row + 1] = sheet[at]
        <5>1. n - rows + (row + 1) = at
          BY <3>a
        <5> QED
          BY <2>4, <3>1, <5>1
      <4>4. screen[r] = sheet[n - rows + r]
        BY <3>1
      <4> HIDE DEF at
      <4> QED
        BY <2>6, <4>1, <4>2, <4>3, <4>4
    <3>6. \A k \in 1..Len(lines) : lines[k] = sheet'[n - rows - Len(lines) + k]
      <4> TAKE k \in 1..Len(lines)
      <4>1. n - rows - Len(lines) + k \in 1..n /\ n - rows - Len(lines) + k # at
        BY <3>a, <3>b
      <4> QED
        BY <3>1, <3>4, <4>1
    <3> QED
      BY <1>2, <2>7, <3>1, <3>4, <3>5, <3>6 DEF SheetLines
  <2> QED
    BY <1>2, <2>8, <2>9 DEF EmulatorInv, SheetLines
<1> QED
  BY <1>3, <1>4 DEF EmulatorInv, EmulatorTypes

LEMMA ScrollStep ==
  ASSUME EmulatorInv, rows > 0, Scroll, UNCHANGED <<rows, columns, column, torn>>
  PROVE  EmulatorInv'
<1>1. /\ lines' = Pushed(Head(screen))
      /\ screen' = Append(Tail(screen), BlankLine(columns))
      /\ sheet' = IF torn THEN sheet ELSE Append(sheet, BlankLine(columns))
      /\ UNCHANGED <<row, crashed>>
  BY DEF Scroll
<1> DEFINE blank == BlankLine(columns)
<1>2. /\ screen \in Seq(Line) /\ Len(screen) = rows /\ rows \in Nat /\ columns \in Nat
      /\ blank \in Line /\ screen # <<>>
  BY BlankLineIs DEF EmulatorInv, EmulatorTypes
<1> HIDE DEF blank
<1>3. /\ Tail(screen) \in Seq(Line) /\ Len(Tail(screen)) = rows - 1
      /\ \A r \in 1..(rows - 1) : Tail(screen)[r] = screen[r + 1]
  BY <1>2, HeadTailProperties
<1>4. /\ screen' \in Seq(Line) /\ Len(screen') = rows /\ screen'[rows] = blank
      /\ \A r \in 1..(rows - 1) : screen'[r] = screen[r + 1]
  <2> DEFINE tail == Tail(screen)
  <2>1. screen' = Append(tail, blank)
    BY <1>1 DEF blank
  <2> HIDE DEF tail
  <2>2. tail \in Seq(Line) /\ Len(tail) = rows - 1 /\ \A r \in 1..(rows - 1) : tail[r] = screen[r + 1]
    BY <1>3 DEF tail
  <2> QED
    BY <1>2, <2>1, <2>2
<1>5. Line' = Line
  BY DEF Line
<1>6. EmulatorTypes'
  BY <1>1, <1>2, <1>4, <1>5 DEF EmulatorInv, EmulatorTypes, CursorInside
<1>7. ASSUME ~ torn PROVE SheetLines'
  <2> DEFINE n == Len(sheet)
             m == Len(lines)
             h == Head(screen)
             all == Append(lines, h)
  <2>1. /\ sheet \in Seq(Line) /\ n \in Nat /\ n >= rows
        /\ \A r \in 1..rows : screen[r] = sheet[n - rows + r]
        /\ lines \in Seq(Line) /\ m \in Nat /\ Limit \in Nat
        /\ m = IF n - rows <= Limit THEN n - rows ELSE Limit
        /\ \A k \in 1..m : lines[k] = sheet[n - rows - m + k]
    BY <1>7, LimitsAssumption DEF EmulatorInv, SheetLines
  <2>a. n \in Nat /\ n >= rows /\ rows \in Nat /\ rows > 0 /\ m \in Nat /\ m <= n - rows /\ Limit \in Nat
        /\ m = IF n - rows <= Limit THEN n - rows ELSE Limit
    BY <1>2, <2>1
  <2>2. /\ sheet' \in Seq(Line) /\ Len(sheet') = n + 1 /\ sheet'[n + 1] = blank
        /\ \A i \in 1..n : sheet'[i] = sheet[i]
    BY <1>1, <1>2, <1>7, <2>1 DEF blank
  <2>3. h \in Line /\ h = sheet[n - rows + 1]
    <3>1. h = screen[1] /\ 1 \in 1..rows
      BY <1>2
    <3>2. screen[1] = sheet[n - rows + 1] /\ screen[1] \in Line
      BY <1>2, <2>1, <3>1
    <3> QED
      BY <3>1, <3>2
  <2> HIDE DEF n, h
  <2>b. lines \in Seq(Line) /\ h \in Line
    BY <2>1, <2>3
  <2>4. /\ all \in Seq(Line) /\ Len(all) = m + 1 /\ all # <<>>
        /\ \A k \in 1..m : all[k] = lines[k]
        /\ all[m + 1] = h
    BY <2>b, AppendProperties
  <2> HIDE DEF m
  <2>5. \A k \in 1..(m + 1) : all[k] = sheet'[n - rows - m + k]
    <3> TAKE k \in 1..(m + 1)
    <3>1. n - rows - m + k \in 1..n
      BY <2>a
    <3>2. CASE k = m + 1
      <4>1. n - rows - m + k = n - rows + 1
        BY <2>a, <3>2
      <4> QED
        BY <2>2, <2>3, <2>4, <3>1, <3>2, <4>1
    <3>3. CASE k # m + 1
      <4>1. k \in 1..m
        BY <2>a, <3>3
      <4> QED
        BY <2>1, <2>2, <2>4, <3>1, <4>1
    <3> QED
      BY <3>2, <3>3
  <2>6. \A r \in 1..rows : screen'[r] = sheet'[n + 1 - rows + r]
    <3> TAKE r \in 1..rows
    <3>1. CASE r = rows
      <4>1. n + 1 - rows + r = n + 1
        BY <2>a, <3>1
      <4> QED
        BY <1>4, <2>2, <3>1, <4>1
    <3>2. CASE r # rows
      <4>1. /\ r \in 1..(rows - 1) /\ r + 1 \in 1..rows
            /\ n + 1 - rows + r = n - rows + (r + 1) /\ n - rows + (r + 1) \in 1..n
        BY <2>a, <3>2
      <4> QED
        <5>1. screen'[r] = screen[r + 1]
          BY <1>4, <4>1
        <5>2. screen[r + 1] = sheet[n - rows + (r + 1)]
          BY <2>1, <4>1
        <5>3. sheet'[n - rows + (r + 1)] = sheet[n - rows + (r + 1)]
          BY <2>2, <4>1
        <5> QED
          BY <4>1, <5>1, <5>2, <5>3
    <3> QED
      BY <3>1, <3>2
  <2>7. /\ lines' \in Seq(Line)
        /\ Len(lines') = IF n + 1 - rows <= Limit THEN n + 1 - rows ELSE Limit
        /\ \A k \in 1..Len(lines') : lines'[k] = sheet'[n + 1 - rows - Len(lines') + k]
    <3>1. CASE m + 1 > Limit
      <4>1. lines' = Tail(all)
        BY <1>1, <2>4, <3>1 DEF Pushed, h, m
      <4> HIDE DEF all
      <4>2. lines' \in Seq(Line) /\ Len(lines') = m /\ \A k \in 1..m : lines'[k] = all[k + 1]
        BY <2>a, <2>4, <4>1
      <4>3. m = IF n + 1 - rows <= Limit THEN n + 1 - rows ELSE Limit
        BY <2>a, <3>1
      <4>4. \A k \in 1..m : lines'[k] = sheet'[n + 1 - rows - m + k]
        <5> TAKE k \in 1..m
        <5>1. k + 1 \in 1..(m + 1) /\ n - rows - m + (k + 1) = n + 1 - rows - m + k
          BY <2>a
        <5> QED
          BY <2>5, <4>2, <5>1
      <4> QED
        BY <4>2, <4>3, <4>4
    <3>2. CASE ~ (m + 1 > Limit)
      <4>1. lines' = all
        BY <1>1, <2>4, <3>2 DEF Pushed, h, m
      <4> HIDE DEF all
      <4>2. m + 1 = (IF n + 1 - rows <= Limit THEN n + 1 - rows ELSE Limit)
        BY <2>a, <3>2
      <4>3. n + 1 - rows - (m + 1) = n - rows - m
        BY <2>a
      <4> QED
        BY <2>4, <2>5, <4>1, <4>2, <4>3
    <3> QED
      BY <3>1, <3>2
  <2>8. n + 1 >= rows /\ Len(sheet') = n + 1
    BY <2>a, <2>2
  <2> QED
    <3>a. rows' = rows
      OBVIOUS
    <3>b. Len(sheet') = n + 1
      BY <2>8
    <3>c. Len(sheet') - rows' = n + 1 - rows
      BY <2>a, <3>a, <3>b
    <3>0. rows' = rows /\ Len(sheet') - rows' = n + 1 - rows
      BY <3>a, <3>c
    <3>1. sheet' \in Seq(Line') /\ Len(sheet') >= rows' /\ lines' \in Seq(Line')
      BY <1>5, <2>2, <2>7, <2>8
    <3>2. \A r \in 1..rows' : screen'[r] = sheet'[Len(sheet') - rows' + r]
      BY <2>6, <3>0
    <3>3. Len(lines') = IF Len(sheet') - rows' <= Limit THEN Len(sheet') - rows' ELSE Limit
      BY <2>7, <3>0
    <3>4. \A k \in 1..Len(lines') : lines'[k] = sheet'[Len(sheet') - rows' - Len(lines') + k]
      <4>1. \A k \in 1..Len(lines') : lines'[k] = sheet'[n + 1 - rows - Len(lines') + k]
        BY <2>7
      <4>2. Len(lines') \in Nat
        BY <2>7
      <4> TAKE k \in 1..Len(lines')
      <4>3. n + 1 - rows - Len(lines') + k = Len(sheet') - rows' - Len(lines') + k
        BY <2>a, <3>a, <3>b, <4>2
      <4> QED
        BY <4>1, <4>3
    <3> QED
      BY <3>1, <3>2, <3>3, <3>4 DEF SheetLines
<1> QED
  BY <1>6, <1>7 DEF EmulatorInv, SheetLines

LEMMA LineFeedStep == EmulatorInv /\ LineFeed => EmulatorInv'
<1> SUFFICES ASSUME EmulatorInv, LineFeed PROVE EmulatorInv'
  OBVIOUS
<1>1. UNCHANGED <<rows, columns, column, torn>>
  BY DEF LineFeed
<1>2. CASE row + 1 < rows /\ row' = row + 1 /\ UNCHANGED <<screen, lines, sheet, crashed>>
  BY <1>1, <1>2 DEF EmulatorInv, EmulatorTypes, SheetLines, CursorInside, Line
<1>3. CASE rows > 0 /\ Scroll
  BY <1>1, <1>3, ScrollStep
<1>4. CASE rows = 0 /\ ScrollNothing
  BY <1>1, <1>4 DEF ScrollNothing, EmulatorInv, EmulatorTypes, SheetLines, CursorInside, Line
<1> QED
  BY <1>2, <1>3, <1>4 DEF LineFeed

LEMMA MoveToStep == EmulatorInv /\ MoveTo => EmulatorInv'
<1> SUFFICES ASSUME EmulatorInv, MoveTo PROVE EmulatorInv'
  OBVIOUS
<1>1. PICK first \in 1..(MaxRows + 1), second \in 1..(MaxColumns + 1) :
        row' = Clamp(first - 1, rows) /\ column' = Clamp(second - 1, columns)
  BY DEF MoveTo
<1>2. UNCHANGED <<rows, columns, screen, lines, crashed, sheet, torn>>
  BY DEF MoveTo
<1>3. first - 1 \in Nat /\ second - 1 \in Nat /\ rows \in Nat /\ columns \in Nat
  BY LimitsAssumption DEF EmulatorInv, EmulatorTypes
<1>4. row' \in Nat /\ column' \in Nat /\ (rows > 0 => row' < rows) /\ (columns > 0 => column' < columns)
  BY <1>1, <1>3, ClampInside
<1> QED
  BY <1>2, <1>4 DEF EmulatorInv, EmulatorTypes, SheetLines, CursorInside, Line

\* What EraseScreen, EraseLine and Resize do to the screen; none of them keeps the sheet.
LEMMA RedrawnStep ==
  ASSUME EmulatorInv, rows' \in Nat, columns' \in Nat, row' \in Nat, column' \in Nat,
         screen' \in Seq(Line'), Len(screen') = rows', CursorInside', torn' = TRUE,
         UNCHANGED crashed
  PROVE  EmulatorInv'
BY DEF EmulatorInv, EmulatorTypes, SheetLines

LEMMA EraseSteps == EmulatorInv /\ (EraseScreen \/ EraseLine) => EmulatorInv'
<1> SUFFICES ASSUME EmulatorInv, EraseScreen \/ EraseLine PROVE EmulatorInv'
  OBVIOUS
<1>1. UNCHANGED <<rows, columns, row, column, crashed>> /\ torn' = TRUE
  BY DEF EraseScreen, EraseLine
<1>2. rows \in Nat /\ columns \in Nat /\ row \in Nat /\ column \in Nat /\ CursorInside
      /\ \A r \in 1..rows : screen[r] \in Line
  BY DEF EmulatorInv, EmulatorTypes
<1>3. CursorInside' /\ Line' = Line
  BY <1>1, <1>2 DEF CursorInside, Line
<1>4. screen' \in Seq(Line) /\ Len(screen') = rows
  <2>1. CASE EraseScreen
    <3>1. screen' = [r \in 1..rows |-> BlankLine(columns)] /\ BlankLine(columns) \in Line
      BY <1>2, <2>1, BlankLineIs DEF EraseScreen
    <3> QED
      BY <1>2, <3>1
  <2>2. CASE EraseLine
    <3> DEFINE wiped(r) == [c \in 1..columns |-> IF r = row + 1 /\ c > column THEN Blank ELSE screen[r][c]]
    <3>1. \A r \in 1..rows : wiped(r) \in Line
      BY <1>2 DEF Line
    <3>2. screen' = [r \in 1..rows |-> wiped(r)]
      BY <2>2 DEF EraseLine
    <3> HIDE DEF wiped
    <3> QED
      BY <1>2, <3>1, <3>2
  <2> QED
    BY <2>1, <2>2
<1> QED
  BY <1>1, <1>2, <1>3, <1>4, RedrawnStep

LEMMA ResizeStep == EmulatorInv /\ Resize => EmulatorInv'
<1> SUFFICES ASSUME EmulatorInv, Resize PROVE EmulatorInv'
  OBVIOUS
<1>1. /\ rows' \in Nat /\ columns' \in Nat /\ torn' = TRUE /\ UNCHANGED crashed
      /\ row' = Clamp(row, rows') /\ column' = Clamp(column, columns')
  BY LimitsAssumption DEF Resize
<1>2. rows \in Nat /\ columns \in Nat /\ row \in Nat /\ column \in Nat
      /\ \A r \in 1..rows : screen[r] \in Line
  BY DEF EmulatorInv, EmulatorTypes
<1>3. row' \in Nat /\ column' \in Nat /\ CursorInside'
  BY <1>1, <1>2, ClampInside DEF CursorInside
<1>4. screen' \in Seq(Line') /\ Len(screen') = rows'
  <2> DEFINE cut(r) == [c \in 1..columns' |-> IF r <= rows /\ c <= columns THEN screen[r][c] ELSE Blank]
  <2>1. \A r \in 1..rows' : cut(r) \in Line'
    BY <1>1, <1>2 DEF Line
  <2>2. screen' = [r \in 1..rows' |-> cut(r)]
    BY DEF Resize
  <2> HIDE DEF cut
  <2> QED
    BY <1>1, <2>1, <2>2
<1> QED
  BY <1>1, <1>3, <1>4, RedrawnStep

LEMMA EmulatorStepKeeps ==
  ASSUME EmulatorInv, [EmulatorNext]_emulatorVars
  PROVE  EmulatorInv'
<1>1. CASE CarriageReturn
  BY <1>1 DEF CarriageReturn, EmulatorInv, EmulatorTypes, SheetLines, CursorInside, Line
<1>2. CASE UNCHANGED emulatorVars
  BY <1>2 DEF emulatorVars, EmulatorInv, EmulatorTypes, SheetLines, CursorInside, Line
<1> QED
  BY <1>1, <1>2, PutLetterStep, LineFeedStep, MoveToStep, EraseSteps, ResizeStep DEF EmulatorNext

\* A screen and a scrollback of any size: the cursor never leaves the screen, and what
\* scrolled off and what is seen are the end of all that was printed.
THEOREM ScreensAreKept == EmulatorSpec => []ScreenKept
<1> QED
  BY SheetLinesSuffice, EmulatorInit0, EmulatorStepKeeps, PTL DEF EmulatorSpec

-----------------------------------------------------------------------------
(* The services and the bus.                                                 *)

FlowInv == used \in Nat /\ used = granted /\ used <= Capacity

\* After quit() the loop is over: a turn that had begun goes on to its end, none begins.
AppInv ==
  /\ quitRequested => ~ running
  /\ exitCode = quitCode /\ ~ late /\ returned[1] = returned[2]

MuxInv ==
  /\ sessions \in Seq(Names)
  /\ \A a \in attached :
       /\ a.session \in 1..Len(sessions) /\ sessions[a.session] = a.name
       /\ \A i \in 1..a.session - 1 : sessions[i] # a.name
  /\ windows \in Nat /\ active \in Nat /\ (windows > 0 => active < windows)

Flags ==
  [bits : Nat, parenb : BOOLEAN, parodd : BOOLEAN, cstopb : BOOLEAN, crtscts : BOOLEAN]

LineInv == line \in Flags /\ line = due

ServiceInv == FlowInv /\ AppInv /\ MuxInv /\ LineInv

LEMMA ServiceInit0 == ServiceInit => ServiceInv
<1> SUFFICES ASSUME ServiceInit PROVE ServiceInv
  OBVIOUS
<1>1. FlowInv /\ AppInv /\ LineInv
  BY WidthAssumption DEF ServiceInit, FlowInv, AppInv, LineInv, NewLine, Flags
<1>2. MuxInv
  BY DEF ServiceInit, MuxInv
<1> QED
  BY <1>1, <1>2 DEF ServiceInv

LEMMA FlowStep == ServiceInv /\ FlowNext => ServiceInv'
<1> SUFFICES ASSUME ServiceInv, FlowNext PROVE ServiceInv'
  OBVIOUS
<1>1. UNCHANGED <<appVars, muxVars, lineVars>>
  BY DEF FlowNext, WaitForCapacity, Acknowledge, AddPending, ConsumePending, FeedXonXoff
<1>2. AppInv' /\ MuxInv' /\ LineInv'
  BY <1>1 DEF ServiceInv, AppInv, MuxInv, LineInv, appVars, muxVars, lineVars
<1>3. CASE WaitForCapacity
  <2>1. PICK bytes \in 0..Largest :
          Fits(bytes) /\ used' = (used + bytes) % (Largest + 1) /\ granted' = granted + bytes
    BY <1>3 DEF WaitForCapacity
  <2>2. used + bytes \in Nat /\ used + bytes <= Capacity /\ used + bytes < Largest + 1
    BY <2>1, WidthAssumption DEF ServiceInv, FlowInv, Fits
  <2>3. (used + bytes) % (Largest + 1) = used + bytes
    BY <2>2, WidthAssumption
  <2>4. FlowInv'
    BY <2>1, <2>2, <2>3 DEF ServiceInv, FlowInv
  <2> QED
    BY <1>2, <2>4 DEF ServiceInv
<1>4. CASE Acknowledge
  BY <1>2, <1>4, WidthAssumption DEF Acknowledge, Less, ServiceInv, FlowInv
<1>5. CASE UNCHANGED <<used, granted>>
  BY <1>2, <1>5 DEF ServiceInv, FlowInv
<1> QED
  BY <1>3, <1>4, <1>5 DEF FlowNext, AddPending, ConsumePending, FeedXonXoff

LEMMA AppStep == ServiceInv /\ AppNext => ServiceInv'
<1> SUFFICES ASSUME ServiceInv, AppNext PROVE ServiceInv'
  OBVIOUS
<1>1. UNCHANGED <<flowVars, muxVars, lineVars>>
  BY DEF AppNext, AppRun, Test, EndCalls, Quit, SuspendResume
<1>2. FlowInv' /\ MuxInv' /\ LineInv'
  BY <1>1 DEF ServiceInv, FlowInv, MuxInv, LineInv, flowVars, muxVars, lineVars
<1> SUFFICES AppInv'
  BY <1>2 DEF ServiceInv
<1> USE DEF ServiceInv, AppInv
<1>3. CASE AppRun
  BY <1>3 DEF AppRun, Returns
<1>4. CASE Test
  <2>1. UNCHANGED <<running, quitRequested, exitCode, quitCode>>
    BY <1>4 DEF Test
  <2>2. CASE running /\ ~ suspended
    <3>1. ~ quitRequested /\ ~ late
      BY <2>2
    <3>2. late' = (late \/ quitRequested) /\ UNCHANGED returned
      BY <1>4, <2>2 DEF Test
    <3>3. ~ late'
      BY <3>1, <3>2, Zenon
    <3> QED
      BY <2>1, <3>2, <3>3
  <2>3. CASE ~ (running /\ ~ suspended)
    BY <1>4, <2>1, <2>3 DEF Test, Returns
  <2> QED
    BY <2>2, <2>3
<1>5. CASE EndCalls
  BY <1>5 DEF EndCalls
<1>6. CASE Quit
  BY <1>6 DEF Quit, Quits
<1>7. CASE SuspendResume
  BY <1>7 DEF SuspendResume
<1> QED
  BY <1>3, <1>4, <1>5, <1>6, <1>7 DEF AppNext

\* Where the search for a name ends: at the first session of that name, or nowhere.
LEMMA ChosenFirst ==
  ASSUME sessions \in Seq(Names), NEW name \in Names
  PROVE  \/ Chosen(name) = 0 /\ \A i \in 1..Len(sessions) : sessions[i] # name
         \/ /\ Chosen(name) \in 1..Len(sessions) /\ sessions[Chosen(name)] = name
            /\ \A i \in 1..Chosen(name) - 1 : sessions[i] # name
<1> DEFINE found == {i \in 1..Len(sessions) : sessions[i] = name}
<1>1. Chosen(name) = IF found = {} THEN 0 ELSE Min(found)
  BY DEF Chosen, SelectInSeq
<1>2. CASE found = {}
  BY <1>1, <1>2
<1>3. CASE found # {}
  <2>1. found \subseteq Nat
    OBVIOUS
  <2>2. PICK least \in found : \A i \in found : least <= i
    BY <1>3, <2>1, LeastNat
  <2>3. Min(found) \in found /\ \A i \in found : Min(found) <= i
    BY <2>2 DEF Min
  <2> HIDE DEF found
  <2>4. Chosen(name) \in found /\ \A i \in found : Chosen(name) <= i
    BY <1>1, <1>3, <2>3
  <2> QED
    BY <2>4 DEF found
<1> QED
  BY <1>2, <1>3

LEMMA MuxStep == ServiceInv /\ MuxNext => ServiceInv'
<1> SUFFICES ASSUME ServiceInv, MuxNext PROVE ServiceInv'
  OBVIOUS
<1>1. UNCHANGED <<flowVars, appVars, lineVars>>
  BY DEF MuxNext, Create, AttachOrCreate, AddWindow, NextWindow
<1>2. FlowInv' /\ AppInv' /\ LineInv'
  BY <1>1 DEF ServiceInv, FlowInv, AppInv, LineInv, flowVars, appVars, lineVars
<1> SUFFICES MuxInv'
  BY <1>2 DEF ServiceInv
<1>3. CASE AddWindow
  BY <1>3 DEF AddWindow, ServiceInv, MuxInv
<1>4. CASE NextWindow
  <2>1. windows \in Nat /\ windows > 0 /\ active \in Nat
    BY <1>4 DEF NextWindow, ServiceInv, MuxInv
  <2>2. (active + 1) % windows \in Nat /\ (active + 1) % windows < windows
    BY <2>1
  <2> QED
    BY <1>4, <2>1, <2>2 DEF NextWindow, ServiceInv, MuxInv
<1>5. /\ sessions \in Seq(Names) /\ Len(sessions) \in Nat
      /\ \A a \in attached :
           /\ a.session \in 1..Len(sessions) /\ sessions[a.session] = a.name
           /\ \A i \in 1..a.session - 1 : sessions[i] # a.name
  BY DEF ServiceInv, MuxInv
\* A session more at the end leaves the first one of every name where it was.
<1>6. ASSUME NEW name \in Names, sessions' = Append(sessions, name)
      PROVE  /\ sessions' \in Seq(Names) /\ Len(sessions') = Len(sessions) + 1
             /\ \A i \in 1..Len(sessions) : sessions'[i] = sessions[i]
             /\ sessions'[Len(sessions) + 1] = name
             /\ \A a \in attached :
                  /\ a.session \in 1..Len(sessions') /\ sessions'[a.session] = a.name
                  /\ \A i \in 1..a.session - 1 : sessions'[i] # a.name
  <2>1. /\ sessions' \in Seq(Names) /\ Len(sessions') = Len(sessions) + 1
        /\ \A i \in 1..Len(sessions) : sessions'[i] = sessions[i]
        /\ sessions'[Len(sessions) + 1] = name
    BY <1>5, <1>6
  <2>2. ASSUME NEW a \in attached
        PROVE  /\ a.session \in 1..Len(sessions') /\ sessions'[a.session] = a.name
               /\ \A i \in 1..a.session - 1 : sessions'[i] # a.name
    <3>1. /\ a.session \in 1..Len(sessions) /\ sessions[a.session] = a.name
          /\ \A i \in 1..a.session - 1 : sessions[i] # a.name
      BY <1>5
    <3>2. \A i \in 1..a.session - 1 : i \in 1..Len(sessions)
      BY <1>5, <3>1
    <3> QED
      BY <1>5, <2>1, <3>1, <3>2
  <2> QED
    BY <2>1, <2>2
<1>7. CASE Create
  <2>1. PICK name \in Names : sessions' = Append(sessions, name)
    BY <1>7 DEF Create
  <2>2. UNCHANGED <<attached, windows, active>>
    BY <1>7 DEF Create
  <2> QED
    BY <1>6, <2>1, <2>2 DEF ServiceInv, MuxInv
<1>8. CASE AttachOrCreate
  <2>1. UNCHANGED <<windows, active>>
    BY <1>8 DEF AttachOrCreate
  <2>2. PICK name \in Names :
          \/ /\ Chosen(name) # 0 /\ UNCHANGED sessions
             /\ attached' = attached \cup {[name |-> name, session |-> Chosen(name)]}
          \/ /\ Chosen(name) = 0 /\ sessions' = Append(sessions, name)
             /\ attached' = attached \cup {[name |-> name, session |-> Len(sessions')]}
    BY <1>8 DEF AttachOrCreate
  <2>3. CASE Chosen(name) # 0 /\ UNCHANGED sessions
    <3> DEFINE at == Chosen(name)
    <3>1. at \in 1..Len(sessions) /\ sessions[at] = name /\ \A i \in 1..at - 1 : sessions[i] # name
      BY <1>5, <2>3, ChosenFirst
    <3>2. attached' = attached \cup {[name |-> name, session |-> at]}
      BY <2>2, <2>3
    <3> HIDE DEF at
    <3> QED
      BY <1>5, <2>1, <2>3, <3>1, <3>2 DEF ServiceInv, MuxInv
  <2>4. CASE Chosen(name) = 0 /\ sessions' = Append(sessions, name)
    <3>1. \A i \in 1..Len(sessions) : sessions[i] # name
      BY <1>5, <2>4, ChosenFirst
    <3>2. /\ sessions' \in Seq(Names) /\ Len(sessions') = Len(sessions) + 1
          /\ \A i \in 1..Len(sessions) : sessions'[i] = sessions[i]
          /\ sessions'[Len(sessions) + 1] = name
          /\ \A a \in attached :
               /\ a.session \in 1..Len(sessions') /\ sessions'[a.session] = a.name
               /\ \A i \in 1..a.session - 1 : sessions'[i] # a.name
      BY <1>6, <2>4
    <3>3. attached' = attached \cup {[name |-> name, session |-> Len(sessions) + 1]}
      BY <2>2, <2>4, <3>2
    <3>4. ASSUME NEW a \in attached'
          PROVE  /\ a.session \in 1..Len(sessions') /\ sessions'[a.session] = a.name
                 /\ \A i \in 1..a.session - 1 : sessions'[i] # a.name
      <4>1. CASE a \in attached
        BY <3>2, <4>1
      <4>2. CASE a = [name |-> name, session |-> Len(sessions) + 1]
        <5>1. a.name = name /\ a.session = Len(sessions) + 1
          BY <4>2
        <5> QED
          BY <1>5, <3>1, <3>2, <5>1
      <4> QED
        BY <3>3, <4>1, <4>2
    <3> QED
      BY <2>1, <3>2, <3>4 DEF ServiceInv, MuxInv
  <2> QED
    BY <2>2, <2>3, <2>4
<1> QED
  BY <1>3, <1>4, <1>7, <1>8 DEF MuxNext

LEMMA LineStep == ServiceInv /\ LineNext => ServiceInv'
<1> SUFFICES ASSUME ServiceInv, LineNext PROVE ServiceInv'
  OBVIOUS
<1>1. UNCHANGED <<flowVars, appVars, muxVars>>
  BY DEF LineNext, SetParams, Configure
<1>2. FlowInv' /\ AppInv' /\ MuxInv'
  BY <1>1 DEF ServiceInv, FlowInv, AppInv, MuxInv, flowVars, appVars, muxVars
<1>3. line \in Flags
  BY DEF ServiceInv, LineInv
<1> SUFFICES LineInv'
  BY <1>2 DEF ServiceInv
<1>4. CASE LineKept
  BY <1>3, <1>4 DEF LineKept, LineInv
<1>5. ASSUME NEW s \in Settings,
             s.bits \in {5, 6, 7, 8}, s.parity \in {"N", "E", "O"}, s.stops \in {1, 2},
             line' = [bits |-> s.bits, parenb |-> s.parity # "N", parodd |-> s.parity = "O",
                      cstopb |-> s.stops # 1, crtscts |-> line.crtscts],
             due' = IF Supported(s) THEN [AsAsked(s) EXCEPT !.crtscts = line.crtscts] ELSE {}
      PROVE  LineInv'
  <2>1. Supported(s)
    BY <1>5 DEF Supported
  <2>2. /\ (s.parity # "N") = (s.parity \in {"E", "O"})
        /\ (s.stops # 1) = (s.stops = 2)
    BY <1>5
  <2>3. line' = [AsAsked(s) EXCEPT !.crtscts = line.crtscts]
    <3>1. AsAsked(s) = [bits |-> s.bits, parenb |-> s.parity # "N", parodd |-> s.parity = "O",
                        cstopb |-> s.stops # 1, crtscts |-> s.flow = "Hardware"]
      BY <2>2, Zenon DEF AsAsked
    <3> QED
      BY <1>5, <3>1
  <2>4. line' \in Flags
    BY <1>3, <1>5 DEF Flags
  <2> QED
    BY <1>5, <2>1, <2>3, <2>4 DEF LineInv
<1>6. ASSUME NEW s \in Settings,
             line' = [bits |-> IF s.bits = 7 THEN 7 ELSE 8, parenb |-> s.parity \in {"E", "O"},
                      parodd |-> s.parity = "O" \/ line.parodd,
                      cstopb |-> s.stops = 2 \/ line.cstopb,
                      crtscts |-> s.flow = "Hardware" \/ line.crtscts],
             due' = IF Configurable(s) THEN AsAsked(s) ELSE line'
      PROVE  LineInv'
  <2>1. ASSUME Configurable(s) PROVE line' = AsAsked(s)
    <3>1. (IF s.bits = 7 THEN 7 ELSE 8) = s.bits
      BY <2>1 DEF Configurable, Supported
    <3>2. /\ (s.parity = "O" \/ line.parodd) = (s.parity = "O")
          /\ (s.stops = 2 \/ line.cstopb) = (s.stops = 2)
          /\ (s.flow = "Hardware" \/ line.crtscts) = (s.flow = "Hardware")
      BY <2>1, Zenon DEF Configurable
    <3> QED
      BY <1>6, <3>1, <3>2, Zenon DEF AsAsked
  <2>2. line' \in Flags
    BY <1>3, <1>6 DEF Flags
  <2> QED
    BY <1>6, <2>1, <2>2 DEF LineInv
<1>7. CASE SetParams
  BY <1>4, <1>5, <1>7 DEF SetParams
<1>8. CASE Configure
  BY <1>4, <1>6, <1>8 DEF Configure
<1> QED
  BY <1>7, <1>8 DEF LineNext

LEMMA ServiceStepKeeps ==
  ASSUME ServiceInv, [ServiceNext]_serviceVars
  PROVE  ServiceInv'
<1>1. CASE UNCHANGED serviceVars
  BY <1>1 DEF serviceVars, flowVars, appVars, muxVars, lineVars,
              ServiceInv, FlowInv, AppInv, MuxInv, LineInv
<1> QED
  BY <1>1, FlowStep, AppStep, MuxStep, LineStep DEF ServiceNext

Calling == [event : Nat, next : Nat \ {0}]

BusTypes ==
  /\ subscribers \in 0..MaxSubscribers /\ posts \in Nat
  /\ stack \in Seq(Calling) /\ events \in Seq(Nat) /\ polled \in Seq(Nat)
  /\ heard \in [1..MaxSubscribers -> Seq(Nat)]

\* The posts under way are those of the innermost last, each later than the ones it is
\* nested in, and all of these have called somebody; the innermost that has called nobody
\* yet is the latest of all.
StackInv ==
  /\ \A i \in 1..Len(stack) : stack[i].event \in 1..posts
  /\ \A i, j \in 1..Len(stack) : i < j => stack[i].event < stack[j].event /\ stack[i].next > 1
  /\ \A i \in 1..Len(stack) : stack[i].next = 1 => stack[i].event = posts

UnderWay == {stack[i].event : i \in 1..Len(stack)}

QueueInv ==
  /\ \A e : (\E i \in 1..Len(polled \o events) : (polled \o events)[i] = e)
              <=> e \in 1..posts \ UnderWay
  /\ IsInjective(polled \o events)

HeardInv ==
  /\ \A s \in 1..MaxSubscribers, k \in Nat : k \in 1..Len(heard[s]) => heard[s][k] \in 1..posts
  /\ \A s \in 1..MaxSubscribers : IsInjective(heard[s])
  /\ \A i \in 1..Len(stack), s \in 1..MaxSubscribers :
       (\E k \in 1..Len(heard[s]) : heard[s][k] = stack[i].event) <=> s < stack[i].next
  /\ \A i, j \in 1..Len(heard[1]) : i < j => heard[1][i] < heard[1][j]

BusInv == BusTypes /\ StackInv /\ QueueInv /\ HeardInv

LEMMA BusInvSuffices == BusInv => EventsDelivered
<1> SUFFICES ASSUME BusInv PROVE EventsDelivered
  OBVIOUS
<1>1. /\ DOMAIN stack = 1..Len(stack) /\ polled \o events \in Seq(Nat)
      /\ \A s \in 1..MaxSubscribers : DOMAIN heard[s] = 1..Len(heard[s])
      /\ DOMAIN (polled \o events) = 1..Len(polled \o events)
      /\ 1 \in 1..MaxSubscribers
  BY SubscribersAssumption DEF BusInv, BusTypes
<1>2. ToSet(polled \o events) = 1..posts \ {stack[i].event : i \in DOMAIN stack}
  BY <1>1 DEF BusInv, QueueInv, UnderWay, ToSet
<1>3. \A i \in DOMAIN stack, s \in 1..MaxSubscribers :
        stack[i].event \in ToSet(heard[s]) <=> s < stack[i].next
  BY <1>1 DEF BusInv, HeardInv, ToSet
<1>4. \A i, j \in DOMAIN heard[1] : i < j => heard[1][i] < heard[1][j]
  BY <1>1 DEF BusInv, HeardInv
<1> QED
  BY <1>2, <1>3, <1>4 DEF BusInv, QueueInv, HeardInv, EventsDelivered

LEMMA BusInit0 == BusInit => BusInv
<1> SUFFICES ASSUME BusInit PROVE BusInv
  OBVIOUS
<1>1. BusTypes
  BY SubscribersAssumption DEF BusInit, BusTypes
<1>2. StackInv /\ HeardInv
  BY <1>1, SubscribersAssumption DEF BusInit, StackInv, HeardInv, IsInjective
<1>3. polled \o events = <<>> /\ UnderWay = {} /\ posts = 0
  BY DEF BusInit, UnderWay
<1>4. QueueInv
  BY <1>3 DEF QueueInv, IsInjective
<1> QED
  BY <1>1, <1>2, <1>4 DEF BusInv

LEMMA SubscribeStep == BusInv /\ Subscribe => BusInv'
<1> SUFFICES ASSUME BusInv, Subscribe PROVE BusInv'
  OBVIOUS
<1>1. /\ subscribers < MaxSubscribers /\ subscribers' = subscribers + 1
      /\ UNCHANGED <<stack, events, heard, polled, posts>>
  BY DEF Subscribe
<1>2. BusTypes'
  BY <1>1, SubscribersAssumption DEF BusInv, BusTypes
<1>3. StackInv' /\ UnderWay' = UnderWay
  BY <1>1 DEF BusInv, StackInv, UnderWay
<1>4. QueueInv'
  BY <1>1, <1>3 DEF BusInv, QueueInv
<1>5. HeardInv'
  BY <1>1 DEF BusInv, HeardInv
<1> QED
  BY <1>2, <1>3, <1>4, <1>5 DEF BusInv

LEMMA PollStep == BusInv /\ Poll => BusInv'
<1> SUFFICES ASSUME BusInv, Poll PROVE BusInv'
  OBVIOUS
<1>1. /\ events # <<>> /\ polled' = Append(polled, Head(events)) /\ events' = Tail(events)
      /\ UNCHANGED <<subscribers, stack, heard, posts>>
  BY DEF Poll
<1>2. events \in Seq(Nat) /\ polled \in Seq(Nat)
  BY DEF BusInv, BusTypes
<1>3. polled' \in Seq(Nat) /\ events' \in Seq(Nat)
  BY <1>1, <1>2
<1>4. polled' \o events' = polled \o events
  <2>1. Append(polled, Head(events)) = polled \o <<Head(events)>>
    BY <1>1, <1>2
  <2>2. <<Head(events)>> \o Tail(events) = events
    BY <1>1, <1>2
  <2>3. <<Head(events)>> \in Seq(Nat) /\ Tail(events) \in Seq(Nat)
    BY <1>1, <1>2
  <2>4. (polled \o <<Head(events)>>) \o Tail(events) = polled \o (<<Head(events)>> \o Tail(events))
    BY <1>2, <2>3, ConcatAssociative, SMTT(30)
  <2> QED
    BY <1>1, <2>1, <2>2, <2>4
<1>5. BusTypes' /\ StackInv' /\ HeardInv' /\ UnderWay' = UnderWay
  BY <1>1, <1>3 DEF BusInv, BusTypes, StackInv, HeardInv, UnderWay
<1>6. QueueInv'
  BY <1>1, <1>4, <1>5 DEF BusInv, QueueInv
<1> QED
  BY <1>5, <1>6 DEF BusInv

LEMMA PostStep == BusInv /\ Post => BusInv'
<1> SUFFICES ASSUME BusInv, Post PROVE BusInv'
  OBVIOUS
<1> DEFINE new == [event |-> posts + 1, next |-> 1]
<1>1. /\ stack # <<>> => Last(stack).next > 1
      /\ posts' = posts + 1 /\ stack' = Append(stack, new)
      /\ UNCHANGED <<subscribers, events, heard, polled>>
  BY DEF Post
<1>2. posts \in Nat /\ stack \in Seq(Calling) /\ new \in Calling /\ Len(stack) \in Nat
  BY DEF BusInv, BusTypes, Calling
<1>3. new.event = posts + 1 /\ new.next = 1
  OBVIOUS
<1> HIDE DEF new
<1>4. /\ stack' \in Seq(Calling) /\ Len(stack') = Len(stack) + 1 /\ stack'[Len(stack) + 1] = new
      /\ \A i \in 1..Len(stack) : stack'[i] = stack[i]
  BY <1>1, <1>2
<1>5. BusTypes'
  BY <1>1, <1>2, <1>4 DEF BusInv, BusTypes
<1>6. \A i \in 1..Len(stack) : stack[i].event \in 1..posts /\ stack[i].next > 1
  <2> TAKE i \in 1..Len(stack)
  <2>0. stack[i] \in Calling
    BY <1>2
  <2>1. stack[i].next \in Nat \ {0} /\ stack[i].event \in 1..posts
    BY <2>0 DEF BusInv, StackInv, Calling
  <2>2. CASE i = Len(stack)
    BY <1>1, <1>2, <2>1, <2>2 DEF Last
  <2>3. CASE i # Len(stack)
    <3>1. i < Len(stack) /\ Len(stack) \in 1..Len(stack)
      BY <1>2, <2>3
    <3> QED
      BY <2>1, <3>1 DEF BusInv, StackInv
  <2> QED
    BY <2>2, <2>3
<1>7. \A i \in 1..Len(stack') : i \in 1..Len(stack) \/ i = Len(stack) + 1
  BY <1>2, <1>4
<1>8. StackInv'
  <2>1. \A i \in 1..Len(stack') : stack'[i].event \in 1..posts' /\ (stack'[i].next = 1 => stack'[i].event = posts')
    BY <1>1, <1>2, <1>3, <1>4, <1>6, <1>7
  <2>2. \A i, j \in 1..Len(stack') : i < j => stack'[i].event < stack'[j].event /\ stack'[i].next > 1
    <3> TAKE i, j \in 1..Len(stack')
    <3> HAVE i < j
    <3>1. i \in 1..Len(stack)
      BY <1>2, <1>4
    <3>2. CASE j \in 1..Len(stack)
      BY <1>4, <3>1, <3>2 DEF BusInv, StackInv
    <3>3. CASE j = Len(stack) + 1
      BY <1>2, <1>3, <1>4, <1>6, <3>1, <3>3
    <3> QED
      BY <1>7, <3>2, <3>3
  <2> QED
    BY <2>1, <2>2 DEF StackInv
<1>9. UnderWay' = UnderWay \cup {posts + 1}
  <2>1. 1..Len(stack') = 1..Len(stack) \cup {Len(stack) + 1}
    BY <1>2, <1>4
  <2> QED
    BY <1>3, <1>4, <2>1 DEF UnderWay
<1>10. QueueInv'
  <2>1. 1..posts' \ UnderWay' = 1..posts \ UnderWay
    BY <1>1, <1>2, <1>9
  <2>2. polled' \o events' = polled \o events
    BY <1>1
  <2> QED
    BY <2>1, <2>2 DEF BusInv, QueueInv
<1>11. HeardInv'
  <2>1. \A s \in 1..MaxSubscribers : heard[s] \in Seq(Nat) /\ Len(heard[s]) \in Nat
    BY DEF BusInv, BusTypes
  <2>2. \A s \in 1..MaxSubscribers, k \in Nat :
          k \in 1..Len(heard[s]) => heard[s][k] \in 1..posts' /\ heard[s][k] # posts + 1
    BY <1>1, <1>2 DEF BusInv, HeardInv
  <2>3. \A i \in 1..Len(stack'), s \in 1..MaxSubscribers :
          (\E k \in 1..Len(heard[s]) : heard[s][k] = stack'[i].event) <=> s < stack'[i].next
    <3> TAKE i \in 1..Len(stack'), s \in 1..MaxSubscribers
    <3>1. CASE i \in 1..Len(stack)
      BY <1>4, <3>1 DEF BusInv, HeardInv
    <3>2. CASE i = Len(stack) + 1
      BY <1>3, <1>4, <2>1, <2>2, <3>2
    <3> QED
      BY <1>7, <3>1, <3>2
  <2> QED
    BY <1>1, <2>2, <2>3 DEF BusInv, HeardInv
<1> QED
  BY <1>5, <1>8, <1>10, <1>11 DEF BusInv

LEMMA NotifyStep == BusInv /\ Notify => BusInv'
<1> SUFFICES ASSUME BusInv, Notify PROVE BusInv'
  OBVIOUS
<1> DEFINE n == Len(stack)
           post == stack[n]
           s0 == post.next
           e0 == post.event
<1>1. /\ stack # <<>> /\ s0 <= subscribers
      /\ heard' = [heard EXCEPT ![s0] = Append(@, e0)]
      /\ stack' = [stack EXCEPT ![n].next = @ + 1]
      /\ UNCHANGED <<subscribers, events, polled, posts>>
  BY DEF Notify, Last
<1>2. /\ stack \in Seq(Calling) /\ n \in Nat /\ n \in 1..n /\ posts \in Nat
      /\ heard \in [1..MaxSubscribers -> Seq(Nat)] /\ subscribers \in 0..MaxSubscribers
      /\ MaxSubscribers \in Nat
  BY <1>1, SubscribersAssumption DEF BusInv, BusTypes
<1>3. post \in Calling /\ post.event \in 1..posts
  BY <1>2 DEF BusInv, StackInv
<1>4. s0 \in Nat \ {0} /\ e0 \in 1..posts /\ e0 \in Nat
  BY <1>3 DEF Calling
<1>5. s0 \in 1..MaxSubscribers
  BY <1>1, <1>2, <1>4
<1> DEFINE called == [post EXCEPT !.next = @ + 1]
<1>6. called \in Calling /\ called.event = e0 /\ called.next = s0 + 1
  BY <1>3, <1>4 DEF Calling
<1>7. stack' = [stack EXCEPT ![n] = called]
  BY <1>1
<1> HIDE DEF called
<1>8. /\ stack' \in Seq(Calling) /\ Len(stack') = n /\ stack'[n] = called
      /\ \A i \in 1..n : i # n => stack'[i] = stack[i]
  BY <1>2, <1>6, <1>7
<1>9. \A i \in 1..n : stack'[i].event = stack[i].event
  BY <1>6, <1>8
<1> HIDE DEF n, post
<1>10. /\ heard'[s0] = Append(heard[s0], e0) /\ heard[s0] \in Seq(Nat)
       /\ \A s \in 1..MaxSubscribers : s # s0 => heard'[s] = heard[s]
       /\ heard' \in [1..MaxSubscribers -> Seq(Nat)]
  BY <1>1, <1>2, <1>4, <1>5
<1> HIDE DEF s0, e0
<1>11. /\ Len(heard'[s0]) = Len(heard[s0]) + 1 /\ Len(heard[s0]) \in Nat
       /\ heard'[s0][Len(heard[s0]) + 1] = e0
       /\ \A k \in 1..Len(heard[s0]) : heard'[s0][k] = heard[s0][k]
  BY <1>4, <1>10
<1>12. BusTypes'
  BY <1>1, <1>8, <1>10 DEF BusInv, BusTypes
<1>13. StackInv'
  <2>1. \A i \in 1..n : stack'[i].event \in 1..posts'
    BY <1>1, <1>9 DEF BusInv, StackInv, n
  <2>2. \A i, j \in 1..n : i < j => stack'[i].event < stack'[j].event /\ stack'[i].next > 1
    <3> TAKE i, j \in 1..n
    <3> HAVE i < j
    <3>1. stack[i].event < stack[j].event /\ stack[i].next > 1 /\ i # n
      BY <1>2 DEF BusInv, StackInv, n
    <3> QED
      BY <1>8, <1>9, <3>1
  <2>3. \A i \in 1..n : stack'[i].next = 1 => stack'[i].event = posts'
    <3> TAKE i \in 1..n
    <3>1. CASE i = n
      BY <1>4, <1>6, <1>8, <3>1
    <3>2. CASE i # n
      BY <1>1, <1>8, <3>2 DEF BusInv, StackInv, n
    <3> QED
      BY <3>1, <3>2
  <2> QED
    BY <1>8, <2>1, <2>2, <2>3 DEF StackInv
<1>14. QueueInv'
  <2>1. UnderWay' = UnderWay
    BY <1>8, <1>9 DEF UnderWay, n
  <2>2. polled' \o events' = polled \o events /\ posts' = posts
    BY <1>1
  <2> QED
    BY <2>1, <2>2 DEF BusInv, QueueInv
<1>15. \A k \in 1..Len(heard[s0]) : heard[s0][k] # e0
  <2>1. (\E k \in 1..Len(heard[s0]) : heard[s0][k] = stack[n].event) <=> s0 < stack[n].next
    BY <1>2, <1>5 DEF BusInv, HeardInv, n
  <2>2. ~ (s0 < stack[n].next) /\ stack[n].event = e0
    BY <1>4 DEF s0, e0, post
  <2> QED
    BY <2>1, <2>2
<1>16. \A k \in 1..Len(heard'[s0]) : k \in 1..Len(heard[s0]) \/ k = Len(heard[s0]) + 1
  BY <1>11
<1>17. HeardInv'
  <2>1. \A s \in 1..MaxSubscribers, k \in Nat :
          k \in 1..Len(heard'[s]) => heard'[s][k] \in 1..posts'
    <3> TAKE s \in 1..MaxSubscribers, k \in Nat
    <3> HAVE k \in 1..Len(heard'[s])
    <3>1. CASE s # s0
      BY <1>1, <1>10, <3>1 DEF BusInv, HeardInv
    <3>2. CASE s = s0 /\ k \in 1..Len(heard[s0])
      BY <1>1, <1>11, <3>2 DEF BusInv, HeardInv
    <3>3. CASE s = s0 /\ k = Len(heard[s0]) + 1
      BY <1>1, <1>4, <1>11, <3>3
    <3> QED
      BY <1>16, <3>1, <3>2, <3>3
  <2>2. \A s \in 1..MaxSubscribers : IsInjective(heard'[s])
    <3> TAKE s \in 1..MaxSubscribers
    <3>1. CASE s # s0
      BY <1>10, <3>1 DEF BusInv, HeardInv
    <3>2. CASE s = s0
      <4>1. IsInjective(heard[s0])
        BY <1>5 DEF BusInv, HeardInv
      <4>2. /\ DOMAIN heard[s0] = 1..Len(heard[s0])
            /\ DOMAIN heard'[s0] = 1..Len(heard'[s0])
        BY <1>5, <1>10
      <4>3. \A i, j \in 1..Len(heard'[s0]) : heard'[s0][i] = heard'[s0][j] => i = j
        BY <1>11, <1>15, <1>16, <4>1, <4>2 DEF IsInjective
      <4> QED
        BY <3>2, <4>2, <4>3 DEF IsInjective
    <3> QED
      BY <3>1, <3>2
  <2>3. \A i \in 1..n, s \in 1..MaxSubscribers :
          (\E k \in 1..Len(heard'[s]) : heard'[s][k] = stack'[i].event) <=> s < stack'[i].next
    <3> TAKE i \in 1..n, s \in 1..MaxSubscribers
    <3>1. (\E k \in 1..Len(heard[s]) : heard[s][k] = stack[i].event) <=> s < stack[i].next
      BY DEF BusInv, HeardInv, n
    <3>2. stack'[i].event = stack[i].event /\ (i # n => stack'[i].next = stack[i].next)
      BY <1>8, <1>9
    <3>3. CASE s # s0
      <4>1. s < stack'[i].next <=> s < stack[i].next
        <5>1. CASE i = n
          <6>1. stack'[i].next = s0 + 1 /\ stack[i].next = s0 /\ s \in Nat
            BY <1>6, <1>8, <5>1 DEF s0, post
          <6> QED
            BY <1>4, <3>3, <6>1
        <5> QED
          BY <3>2, <5>1
      <4>2. heard'[s] = heard[s]
        BY <1>10, <3>3
      <4> QED
        BY <3>1, <3>2, <4>1, <4>2
    <3>4. CASE s = s0 /\ i = n
      <4>1. s < stack'[i].next
        BY <1>4, <1>6, <1>8, <3>4
      <4>2. Len(heard[s0]) + 1 \in 1..Len(heard'[s]) /\ heard'[s][Len(heard[s0]) + 1] = e0
        BY <1>11, <3>4
      <4>3. stack'[i].event = e0
        BY <3>2, <3>4 DEF e0, post
      <4> QED
        BY <4>1, <4>2, <4>3
    <3>5. CASE s = s0 /\ i # n
      <4>1. i < n
        BY <1>2, <3>5
      <4>2. stack[i].event # e0
        <5>1. stack[i].event < stack[n].event
          BY <1>2, <4>1 DEF BusInv, StackInv, n
        <5>2. stack[n].event = e0 /\ stack[i].event \in 1..posts
          BY DEF BusInv, StackInv, e0, post, n
        <5> QED
          BY <1>2, <1>4, <5>1, <5>2
      <4>3. (\E k \in 1..Len(heard'[s0]) : heard'[s0][k] = stack[i].event)
              <=> (\E k \in 1..Len(heard[s0]) : heard[s0][k] = stack[i].event)
        <5>1. \A k \in 1..Len(heard[s0]) : k \in 1..Len(heard'[s0])
          BY <1>11
        <5> QED
          BY <1>11, <1>16, <4>2, <5>1
      <4> QED
        BY <3>1, <3>2, <3>5, <4>3
    <3> QED
      BY <3>3, <3>4, <3>5
  <2>4. \A i, j \in 1..Len(heard'[1]) : i < j => heard'[1][i] < heard'[1][j]
    <3>1. 1 \in 1..MaxSubscribers
      BY SubscribersAssumption
    <3>2. CASE s0 # 1
      BY <1>10, <3>1, <3>2 DEF BusInv, HeardInv
    <3>3. CASE s0 = 1
      <4>1. e0 = posts
        BY <1>2, <3>3 DEF BusInv, StackInv, n, s0, e0, post
      <4>2. \A k \in 1..Len(heard[1]) : heard[1][k] < e0
        <5> TAKE k \in 1..Len(heard[1])
        <5>1. heard[1][k] \in 1..posts
          BY <1>11, <3>1, <3>3 DEF BusInv, HeardInv
        <5>2. heard[1][k] # e0
          BY <1>15, <3>3
        <5> QED
          BY <1>2, <4>1, <5>1, <5>2
      <4> TAKE i, j \in 1..Len(heard'[1])
      <4> HAVE i < j
      <4>3. i \in 1..Len(heard[1])
        BY <1>11, <3>3
      <4>4. CASE j \in 1..Len(heard[1])
        BY <1>11, <3>3, <4>3, <4>4 DEF BusInv, HeardInv
      <4>5. CASE j = Len(heard[1]) + 1
        BY <1>11, <3>3, <4>2, <4>3, <4>5
      <4> QED
        BY <1>16, <3>3, <4>4, <4>5
    <3> QED
      BY <3>2, <3>3
  <2> QED
    BY <1>8, <2>1, <2>2, <2>3, <2>4 DEF HeardInv
<1> QED
  BY <1>12, <1>13, <1>14, <1>17 DEF BusInv

LEMMA EnqueueStep == BusInv /\ Enqueue => BusInv'
<1> SUFFICES ASSUME BusInv, Enqueue PROVE BusInv'
  OBVIOUS
<1> DEFINE n == Len(stack)
           post == stack[n]
           e0 == post.event
<1>1. /\ stack # <<>> /\ events' = Append(events, e0) /\ stack' = SubSeq(stack, 1, n - 1)
      /\ UNCHANGED <<subscribers, heard, polled, posts>>
  BY DEF Enqueue, Queued, Last, Front
<1>2. /\ stack \in Seq(Calling) /\ n \in Nat /\ n \in 1..n /\ posts \in Nat
      /\ events \in Seq(Nat) /\ polled \in Seq(Nat)
  BY <1>1 DEF BusInv, BusTypes
<1>3. post \in Calling /\ e0 \in 1..posts
  BY <1>2 DEF BusInv, StackInv
<1>4. e0 \in Nat
  BY <1>2, <1>3
<1> HIDE DEF post, e0
<1>5. /\ stack' \in Seq(Calling) /\ Len(stack') = n - 1
      /\ \A i \in 1..(n - 1) : stack'[i] = stack[i]
  <2>1. n \in Nat \ {0} /\ n = Len(stack)
    BY <1>2
  <2> HIDE DEF n
  <2>2. \A i \in 1..(n - 1) : i \in 1..Len(stack)
    BY <2>1
  <2>3. n - 1 \in Nat /\ Len(SubSeq(stack, 1, n - 1)) = n - 1
    <3>1. n - 1 \in Nat /\ n - 1 <= Len(stack)
      BY <2>1
    <3> QED
      BY <1>2, <2>1, <3>1, SubSeqProperties
  <2>4. \A i \in 1..(n - 1) : stack[i] \in Calling
    BY <1>2, <2>2
  <2>5. SubSeq(stack, 1, n - 1) = [i \in 1..(n - 1) |-> stack[i]]
    BY <2>3 DEF SubSeq
  <2> QED
    BY <1>1, <2>3, <2>4, <2>5
<1> HIDE DEF n
<1>6. BusTypes'
  BY <1>1, <1>2, <1>4, <1>5 DEF BusInv, BusTypes
<1>7. \A i \in 1..(n - 1) : i \in 1..Len(stack) /\ i < n
  BY <1>2 DEF n
<1>8. StackInv' /\ HeardInv'
  BY <1>1, <1>5, <1>7 DEF BusInv, StackInv, HeardInv
<1>9. \A i \in 1..(n - 1) : stack[i].event # e0
  <2> TAKE i \in 1..(n - 1)
  <2>1. stack[i].event < stack[n].event
    BY <1>2, <1>7 DEF BusInv, StackInv, n
  <2>2. stack[n].event = e0 /\ stack[i].event \in 1..posts
    BY <1>7 DEF BusInv, StackInv, e0, post
  <2> QED
    BY <1>2, <1>4, <2>1, <2>2
<1>10. UnderWay' = UnderWay \ {e0}
  <2>1. UnderWay = {stack[i].event : i \in 1..n} /\ stack[n].event = e0
    BY DEF UnderWay, n, e0, post
  <2>2. UnderWay' = {stack[i].event : i \in 1..(n - 1)}
    BY <1>5 DEF UnderWay
  <2>3. \A i \in 1..n : i = n \/ i \in 1..(n - 1)
    BY <1>2
  <2>4. \A i \in 1..(n - 1) : i \in 1..n
    BY <1>2
  <2> QED
    BY <1>9, <2>1, <2>2, <2>3, <2>4
<1>11. e0 \in UnderWay
  BY <1>2 DEF UnderWay, n, e0, post
<1> DEFINE queued == polled \o events
<1>12. queued \in Seq(Nat) /\ Len(queued) \in Nat
  BY <1>2
<1>13. polled' \o events' = Append(queued, e0)
  <2>1. events' = events \o <<e0>> /\ <<e0>> \in Seq(Nat)
    BY <1>1, <1>2, <1>4
  <2>2. polled \o (events \o <<e0>>) = (polled \o events) \o <<e0>>
    BY <1>2, <2>1, ConcatAssociative, SMTT(30)
  <2>3. queued \o <<e0>> = Append(queued, e0)
    BY <1>4, <1>12
  <2> QED
    BY <1>1, <2>1, <2>2, <2>3
<1>14. /\ \A e : (\E i \in 1..Len(queued) : queued[i] = e) <=> e \in 1..posts \ UnderWay
       /\ IsInjective(queued)
  BY DEF BusInv, QueueInv
<1> HIDE DEF queued
<1> DEFINE longer == Append(queued, e0)
<1>15. /\ Len(longer) = Len(queued) + 1 /\ longer[Len(queued) + 1] = e0
       /\ \A i \in 1..Len(queued) : longer[i] = queued[i]
       /\ DOMAIN longer = 1..Len(longer) /\ DOMAIN queued = 1..Len(queued)
  BY <1>4, <1>12
<1> HIDE DEF longer
<1>16. \A i \in 1..Len(longer) : i \in 1..Len(queued) \/ i = Len(queued) + 1
  BY <1>12, <1>15
<1>17. \A i \in 1..Len(queued) : queued[i] # e0
  BY <1>11, <1>14
<1>18. QueueInv'
  <2>1. \A e : (\E i \in 1..Len(longer) : longer[i] = e) <=> e \in 1..posts \ (UnderWay \ {e0})
    <3> TAKE e
    <3>1. (\E i \in 1..Len(longer) : longer[i] = e)
            <=> (\E i \in 1..Len(queued) : queued[i] = e) \/ e = e0
      <4>1. \A i \in 1..Len(queued) : i \in 1..Len(longer)
        BY <1>12, <1>15
      <4>2. Len(queued) + 1 \in 1..Len(longer)
        BY <1>12, <1>15
      <4> QED
        BY <1>15, <1>16, <4>1, <4>2
    <3> QED
      BY <1>3, <1>14, <3>1
  <2>2. IsInjective(longer)
    BY <1>12, <1>14, <1>15, <1>16, <1>17 DEF IsInjective
  <2>3. polled' \o events' = longer /\ posts' = posts
    BY <1>1, <1>13 DEF longer
  <2> QED
    BY <1>10, <2>1, <2>2, <2>3 DEF QueueInv
<1> QED
  BY <1>6, <1>8, <1>18 DEF BusInv

LEMMA BusStepKeeps ==
  ASSUME BusInv, [BusNext]_busVars
  PROVE  BusInv'
<1>1. CASE UNCHANGED busVars
  <2>1. UNCHANGED <<subscribers, stack, events, heard, polled, posts>>
    BY <1>1 DEF busVars
  <2>2. UnderWay' = UnderWay /\ polled' \o events' = polled \o events
    BY <2>1 DEF UnderWay
  <2>3. BusTypes' /\ StackInv' /\ HeardInv'
    BY <2>1 DEF BusInv, BusTypes, StackInv, HeardInv
  <2>4. QueueInv'
    BY <2>1, <2>2 DEF BusInv, QueueInv
  <2> QED
    BY <2>3, <2>4 DEF BusInv
<1> QED
  BY <1>1, SubscribeStep, PostStep, NotifyStep, EnqueueStep, PollStep DEF BusNext

-----------------------------------------------------------------------------
(* The composition: no part has a say in what another one holds.             *)

LEMMA ServiceInvSuffices == ServiceInv => ServicesKept
<1> SUFFICES ASSUME ServiceInv PROVE ServicesKept
  OBVIOUS
<1> QED
  BY DEF ServiceInv, FlowInv, AppInv, MuxInv, LineInv, ServicesKept

\* Every part of the composition behaves as its own specification says.
LEMMA PartsAsSpecified ==
  Spec => /\ ChannelSpec /\ DescriptorSpec /\ JobSpec /\ SignalSpec
          /\ BusSpec /\ ServiceSpec /\ EmulatorSpec
<1>1. Init => /\ ChannelInit /\ DescriptorInit /\ JobInit /\ SignalInit
              /\ BusInit /\ ServiceInit /\ EmulatorInit
  BY DEF Init
<1>2. [Next]_vars =>
        /\ [ChannelNext]_channelVars /\ [DescriptorNext]_descriptorVars
        /\ [JobNext]_jobVars /\ [SignalNext]_signalVars /\ [BusNext]_busVars
        /\ [ServiceNext]_serviceVars /\ [EmulatorNext]_emulatorVars
  <2> SUFFICES ASSUME [Next]_vars
               PROVE  /\ [ChannelNext]_channelVars /\ [DescriptorNext]_descriptorVars
                      /\ [JobNext]_jobVars /\ [SignalNext]_signalVars /\ [BusNext]_busVars
                      /\ [ServiceNext]_serviceVars /\ [EmulatorNext]_emulatorVars
    OBVIOUS
  <2>1. CASE UNCHANGED vars
    BY <2>1, Zenon DEF vars
  <2>2. CASE ChannelStep \/ DescriptorStep \/ JobStep \/ SignalStep
    BY <2>2, Zenon DEF ChannelStep, DescriptorStep, JobStep, SignalStep
  <2>3. CASE BusStep \/ ServiceStep \/ EmulatorStep
    BY <2>3, Zenon DEF BusStep, ServiceStep, EmulatorStep
  <2> QED
    BY <2>1, <2>2, <2>3 DEF Next
<1> QED
  BY <1>1, <1>2, PTL
     DEF Spec, ChannelSpec, DescriptorSpec, JobSpec, SignalSpec, BusSpec, ServiceSpec,
         EmulatorSpec

\* However the parts are interleaved: the throttle has let go exactly what it granted and no
\* more than its capacity; run() begins no turn after quit() and returns the code of the last
\* one; clients that attach to one name share the first session of that name, whatever
\* create() adds; the active window exists; a serial line is as asked when the call says so
\* (of configure(), where the line and the settings are such that it can be) and untouched
\* when it says not; and every event reaches its subscribers and the queue once, the posts
\* of subscribers included.
THEOREM ServicesAreExact == Spec => []ServicesExact
<1>1. ServiceInv /\ BusInv => ServicesExact
  BY ServiceInvSuffices, BusInvSuffices DEF ServicesExact
<1>2. ServiceSpec => []ServiceInv
  BY ServiceInit0, ServiceStepKeeps, PTL DEF ServiceSpec
<1>3. BusSpec => []BusInv
  BY BusInit0, BusStepKeeps, PTL DEF BusSpec
<1> QED
  BY <1>1, <1>2, <1>3, PartsAsSpecified, PTL

\* All that the run of the composition checks, for every number of messages, objects,
\* jobs, subscribers and cells: whole messages in order, one owner per descriptor, handles
\* that name their own child, a size change that is not forgotten and a screen of whole lines.
THEOREM ProgramsKeepTheirPromises ==
  Spec => [](FramesKept /\ DescriptorsOwned /\ JobsNameTheirChild /\ SizeChangeKept /\ ScreenKept)
BY PartsAsSpecified, MessagesArriveWhole, DescriptorsHaveOneOwner, JobsKeepTheirChild,
   SizeChangesAreKept, ScreensAreKept, PTL

================================================================================
