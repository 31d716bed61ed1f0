------------------------------ MODULE Descriptors ------------------------------
(***************************************************************************)
(* The objects that own one file descriptor: ttytk::ipc::Channel (connected   *)
(* or listening), PTY, Serial and net::TcpServer, ttyutils::net::Link and     *)
(* serial::Port.  Each is opened by a row of system calls any of which may    *)
(* fail, is moved from object to object, and closes what it holds.            *)
(***************************************************************************)
EXTENDS Naturals, FiniteSets, SequencesExt

CONSTANTS
  Objects,    \* the variables of the program that may hold an owner
  Files,      \* descriptors of the process
  Kinds,      \* the kinds of owner that occur
  Addresses   \* bound: addresses a host name resolves to

\* 0 stands for -1, an owner without a descriptor.
ASSUME FilesAssumption == 0 \notin Files
ASSUME KindsAssumption ==
  Kinds \subseteq {"pty", "channel", "listening", "server", "link", "serial", "port"}

VARIABLES
  kind,       \* the class of each object
  holds,      \* its fd_; 0 for -1
  opening,    \* the call of open(), connect(), fork() ... under way, or NoOpening
  open,       \* the descriptors the kernel has open
  misclosed   \* history: a descriptor was closed that was not open, or not the closer's

descriptorVars == <<kind, holds, opening, open, misclosed>>

NoOpening == [kind |-> "none", file |-> 0, calls |-> <<>>, addresses |-> 0]

-----------------------------------------------------------------------------

\* The system calls after the one that makes the descriptor.
ForkCalls == <<"grantpt", "unlockpt", "ptsname_r", "fork">>
ConnectCalls == <<"path", "connect">>
ListenCalls == <<"path", "bind", "listen">>
ServerCalls == <<"bind", "listen">>
LinkCalls == <<"connect">>
SerialCalls == <<"baud", "tcgetattr", "cfsetispeed", "cfsetospeed", "tcsetattr">>
PortCalls == <<"tcgetattr", "tcsetattr">>

Calls(k) ==
  CASE k = "pty" -> ForkCalls [] k = "channel" -> ConnectCalls [] k = "listening" -> ListenCalls
    [] k = "server" -> ServerCalls [] k = "link" -> LinkCalls
    [] k = "serial" -> SerialCalls [] k = "port" -> PortCalls

DescriptorInit ==
  /\ kind \in [Objects -> Kinds] /\ holds = [o \in Objects |-> 0]
  /\ opening = NoOpening /\ open = {} /\ misclosed = FALSE

\* The first call: socket(), open() or posix_openpt() makes a descriptor.  It may fail,
\* and then there is nothing to undo.
Begin(k, addresses) ==
  \E f \in Files \ open :
    /\ open' = open \cup {f}
    /\ opening' = [kind |-> k, file |-> f, calls |-> Calls(k), addresses |-> addresses]

Open ==
  /\ opening = NoOpening
  /\ \E k \in Kinds, n \in 1..Addresses : (k # "link" => n = 1) /\ Begin(k, n)
  /\ UNCHANGED <<kind, holds, misclosed>>

\* A further call succeeds; after the last one an object that held nothing of its own
\* has the descriptor.
CallSucceeds ==
  /\ opening # NoOpening
  /\ IF Len(opening.calls) > 1
     THEN opening' = [opening EXCEPT !.calls = Tail(@)] /\ UNCHANGED holds
     ELSE /\ \E o \in Objects :
               /\ kind[o] = opening.kind /\ holds[o] = 0
               /\ holds' = [holds EXCEPT ![o] = opening.file]
          /\ opening' = NoOpening
  /\ UNCHANGED <<kind, open, misclosed>>

\* A further call fails: the descriptor is closed, by the error path or by the destructor
\* of the object that had it already (Serial, Port), and the error returned.
Abandoned == open \ {opening.file}

CallFails ==
  /\ opening # NoOpening
  /\ open' = Abandoned /\ opening' = NoOpening
  /\ UNCHANGED <<kind, holds, misclosed>>

\* Link::connect() tries the next address instead, with a socket of its own.
NextAddress ==
  /\ opening # NoOpening /\ opening.addresses > 1
  /\ \E f \in Files \ Abandoned :
       /\ open' = Abandoned \cup {f}
       /\ opening' = [opening EXCEPT !.file = f, !.addresses = @ - 1]
  /\ UNCHANGED <<kind, holds, misclosed>>

\* close() of what an object holds, if it holds something.
Closes(o) ==
  /\ open' = open \ {holds[o]}
  /\ misclosed' = (misclosed \/ (holds[o] # 0 /\ holds[o] \notin open))

\* Mutant of Moved: the object moved from keeps its descriptor.
MovedKept(o, p) == [holds EXCEPT ![p] = holds[o]]

\* std::exchange(other.fd_, -1).
Moved(o, p) == [holds EXCEPT ![p] = holds[o], ![o] = 0]

\* Move assignment: p closes its own first.  Move construction is the case where it holds
\* nothing; a Port has no assignment.  An object assigned to itself is left alone.
Move ==
  /\ \E o, p \in Objects :
       /\ o # p /\ kind[o] = kind[p] /\ (kind[p] = "port" => holds[p] = 0)
       /\ Closes(p) /\ holds' = Moved(o, p)
  /\ UNCHANGED <<kind, opening>>

\* The destructor, and close() of a Link.
Destroy ==
  /\ \E o \in Objects : holds[o] # 0 /\ Closes(o) /\ holds' = [holds EXCEPT ![o] = 0]
  /\ UNCHANGED <<kind, opening>>

DescriptorNext == Open \/ CallSucceeds \/ CallFails \/ NextAddress \/ Move \/ Destroy

DescriptorSpec == DescriptorInit /\ [][DescriptorNext]_descriptorVars

-----------------------------------------------------------------------------

\* Whatever fails and whatever is moved where: a descriptor that is open has one owner
\* (or is the one being opened), nothing is closed twice, and nothing is left open
\* without an owner.
DescriptorsOwned ==
  /\ ~ misclosed
  /\ open = {holds[o] : o \in {p \in Objects : holds[p] # 0}} \cup ({opening.file} \ {0})
  /\ \A o \in Objects : holds[o] # 0 =>
       holds[o] # opening.file /\ \A p \in Objects \ {o} : holds[p] # holds[o]

================================================================================
