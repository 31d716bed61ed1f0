---------------------------------- MODULE Jobs ----------------------------------
(***************************************************************************)
(* ttyutils::shell::run() with Job and JobTable, and ttytk::job: handles that *)
(* name a child by its process id, beside a kernel that keeps the status of a *)
(* child until it is waited for and then gives its id to another child.       *)
(***************************************************************************)
EXTENDS Integers, FiniteSets

CONSTANTS
  Handles,      \* the Job objects
  Pids,         \* process ids
  MaxChildren   \* bound: children forked

\* -1 is no process, and ids are what fork() returns to the parent.
ASSUME PidsAssumption == Pids \subseteq Nat /\ MaxChildren \in Nat

VARIABLES
  process,   \* per id: the child it names, its state, its wait status, whether it leads a group
  pid,       \* Job::pid_; -1 when there is none
  child,     \* history: the child that run() returned each handle for
  told,      \* history: what wait() answered last
  loose,     \* history: handles that were copied or asked running(), or got an id such a one has
  forked     \* history: children so far

jobVars == <<process, pid, child, told, loose, forked>>

Free == [state |-> "free", child |-> 0, status |-> 0, leads |-> FALSE]
NotAsked == -2   \* wait() has not been called

JobInit ==
  /\ process = [p \in Pids |-> Free]
  /\ pid = [j \in Handles |-> -1] /\ child = [j \in Handles |-> 0]
  /\ told = [j \in Handles |-> NotAsked]
  /\ loose = {} /\ forked = 0

-----------------------------------------------------------------------------
\* External: the kernel.

\* The code a child ends with tells the children apart.
CodeOf(c) == c

Ended(p, status) == [process EXCEPT ![p].state = "zombie", ![p].status = status]

Exit ==
  /\ \E p \in Pids :
       /\ process[p].state = "running"
       /\ process' = Ended(p, CodeOf(process[p].child))
  /\ UNCHANGED <<pid, child, told, loose, forked>>

Alive(p) == process[p].state \in {"running", "stopped", "doomed"}

Reaped(p) == [process EXCEPT ![p] = Free]

-----------------------------------------------------------------------------

\* run(): an empty command, or a fork that fails, gives a handle without a child.  In the
\* child the output goes to /dev/null as asked, and _exit(127) follows a failed exec.
Run ==
  /\ \E j \in Handles :
       /\ pid[j] = -1 /\ j \notin loose
       /\ told' = [told EXCEPT ![j] = NotAsked]
       /\ \E p \in Pids :
            /\ process[p] = Free /\ forked < MaxChildren
            /\ process' = [process EXCEPT ![p] =
                 [state |-> "running", child |-> forked + 1, status |-> 0, leads |-> FALSE]]
            /\ pid' = [pid EXCEPT ![j] = p]
            /\ child' = [child EXCEPT ![j] = forked + 1]
            /\ loose' = loose \cup {i \in {j} : \E k \in loose : pid[k] = p}
  /\ forked' = forked + 1

\* Mutant of PidAfter: wait() leaves the id in the handle.
PidKept(j) == pid

\* wait() clears the id once waitpid() has answered.
PidAfter(j) == [pid EXCEPT ![j] = -1]

\* wait(): no child, no such process or a signal while it waits (the id stays), or the
\* status of the process that has the id once it has ended.
Wait ==
  /\ \E j \in Handles :
       \/ /\ pid[j] # -1 => process[pid[j]] = Free \/ Alive(pid[j])
          /\ told' = [told EXCEPT ![j] = -1]
          /\ UNCHANGED <<process, pid>>
       \/ /\ pid[j] # -1 /\ process[pid[j]].state = "zombie"
          /\ told' = [told EXCEPT ![j] = process[pid[j]].status]
          /\ process' = Reaped(pid[j]) /\ pid' = PidAfter(j)
  /\ UNCHANGED <<child, loose, forked>>

\* running(): waitpid() without waiting takes the status of a child that has ended, and
\* the handle keeps the id.
Running ==
  /\ \E j \in Handles :
       /\ pid[j] # -1
       /\ loose' = loose \cup {j}
       /\ process' = IF process[pid[j]].state = "zombie" THEN Reaped(pid[j]) ELSE process
  /\ UNCHANGED <<pid, child, told, forked>>

\* terminate(): the signal ends the process that has the id, a stopped one when it is
\* continued.
Terminate ==
  /\ \E j \in Handles :
       /\ pid[j] # -1 /\ Alive(pid[j])
       /\ process' = IF process[pid[j]].state = "running" THEN Ended(pid[j], 128 + 15)
                     ELSE [process EXCEPT ![pid[j]].state = "doomed"]
  /\ UNCHANGED <<pid, child, told, loose, forked>>

\* JobTable::add() of a copy: two handles for one child.
Add ==
  /\ \E j, k \in Handles :
       /\ j # k /\ pid[j] # -1 /\ pid[k] = -1
       /\ pid' = [pid EXCEPT ![k] = pid[j]]
       /\ child' = [child EXCEPT ![k] = child[j]]
       /\ loose' = loose \cup {j, k}
  /\ UNCHANGED <<process, told, forked>>

\* job::suspend(), resume(), background() and foreground(), on an id in use.  After its
\* exec a child's group cannot be changed, which is let pass.
Suspend ==
  /\ \E p \in Pids : process[p].state = "running" /\ process' = [process EXCEPT ![p].state = "stopped"]
  /\ UNCHANGED <<pid, child, told, loose, forked>>

Continued(p) ==
  CASE process[p].state = "stopped" -> [process EXCEPT ![p].state = "running"]
    [] process[p].state = "doomed" -> Ended(p, 128 + 15)
    [] OTHER -> process

Resume ==
  /\ \E p \in Pids : Alive(p) /\ process' = Continued(p)
  /\ UNCHANGED <<pid, child, told, loose, forked>>

Background ==
  /\ \E p \in Pids, ok \in BOOLEAN : Alive(p) /\ process' = [process EXCEPT ![p].leads = @ \/ ok]
  /\ UNCHANGED <<pid, child, told, loose, forked>>

Foreground ==
  /\ \E p \in Pids, ok \in BOOLEAN :
       Alive(p) /\ process' = [Continued(p) EXCEPT ![p].leads = @ \/ ok]
  /\ UNCHANGED <<pid, child, told, loose, forked>>

JobNext ==
  \/ Exit \/ Run \/ Wait \/ Running \/ Terminate \/ Add
  \/ Suspend \/ Resume \/ Background \/ Foreground

JobSpec == JobInit /\ [][JobNext]_jobVars

-----------------------------------------------------------------------------

\* Where no handle was copied or asked running(), a handle names its own child until the
\* wait() that takes its status: the id is not another child's by then, nobody else took
\* the status, and wait() answers what that child ended with.  (With running() or a copy
\* each of the three fails, for that handle and for a later one whose child gets the id.)
JobsNameTheirChild ==
  \A j \in Handles \ loose :
    /\ pid[j] # -1 => process[pid[j]].state # "free" /\ process[pid[j]].child = child[j]
    /\ told[j] >= 0 => told[j] \in {CodeOf(child[j]), 128 + 15}

================================================================================
