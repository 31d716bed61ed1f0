------------------------------ MODULE IPCChannel ------------------------------
(***************************************************************************)
(* ttytk::ipc::Channel: messages over a stream socket, each after a header of *)
(* four bytes with its size.  The kernel takes and gives as many bytes of a   *)
(* call as it likes, and any call may fail (an interrupted one does: nothing  *)
(* is retried).  One process sends, another receives.                         *)
(***************************************************************************)
EXTENDS Naturals, SequencesExt

CONSTANTS
  Payloads,     \* the messages, each a sequence of bytes
  MaxMessages,  \* bound: messages sent
  WireLimit     \* bytes the socket holds

Bytes == 0..255

\* send() refuses a payload whose size does not fit the four bytes of the header.
ASSUME PayloadsAssumption ==
  Payloads \subseteq Seq(Bytes) /\ \A p \in Payloads : Len(p) \div 16777216 \in Bytes

VARIABLES
  sent,     \* history: the payloads passed to send()
  out,      \* what write_all() has still to write
  wire,     \* bytes in the socket
  in,       \* bytes read by the receive() under way
  got,      \* the messages receive() returned
  failed,   \* history: the ends whose call returned an error
  shut      \* the sender's end is closed

channelVars == <<sent, out, wire, in, got, failed, shut>>

ChannelInit ==
  /\ sent = <<>> /\ out = <<>> /\ wire = <<>> /\ in = <<>> /\ got = <<>>
  /\ failed = {} /\ shut = FALSE

-----------------------------------------------------------------------------

\* The size in a header's bytes, the most significant first.
Header(size) == <<size \div 16777216 % 256, size \div 65536 % 256, size \div 256 % 256, size % 256>>

Framed(payload) == Header(Len(payload)) \o payload

Send ==
  /\ ~ shut /\ out = <<>> /\ Len(sent) < MaxMessages
  /\ \E payload \in Payloads : sent' = Append(sent, payload) /\ out' = Framed(payload)
  /\ UNCHANGED <<wire, in, got, failed, shut>>

\* write_all(): one ::send(), which may take a part.
Write ==
  /\ \E n \in 1..Len(out) :
       /\ Len(wire) + n <= WireLimit
       /\ wire' = wire \o SubSeq(out, 1, n)
       /\ out' = SubSeq(out, n + 1, Len(out))
  /\ UNCHANGED <<sent, in, got, failed, shut>>

\* ... which may fail, in the middle of a message too: send() returns the error.
WriteFails ==
  /\ out # <<>> /\ out' = <<>>
  /\ failed' = failed \cup {"sender"}
  /\ UNCHANGED <<sent, wire, in, got, shut>>

\* The destructor, or a move over the channel.
Close ==
  /\ ~ shut /\ out = <<>> /\ shut' = TRUE
  /\ UNCHANGED <<sent, out, wire, in, got, failed>>

SizeIn(header) == ((header[1] * 256 + header[2]) * 256 + header[3]) * 256 + header[4]

\* Mutant of Missing: read_all() takes a part of the payload for all of it.
MissingOnce(bytes) == IF Len(bytes) < 4 THEN 4 - Len(bytes) ELSE IF Len(bytes) > 4 THEN 0 ELSE SizeIn(bytes)

\* read_all(): the bytes still to be read, of the header first and then of the payload.
Missing(bytes) == IF Len(bytes) < 4 THEN 4 - Len(bytes) ELSE 4 + SizeIn(bytes) - Len(bytes)

\* receive(): one ::recv(), and the return with the message once nothing is missing.
Read ==
  /\ \E n \in 1..Len(wire) :
       LET bytes == in \o SubSeq(wire, 1, n)
       IN  /\ n <= Missing(in)
           /\ wire' = SubSeq(wire, n + 1, Len(wire))
           /\ IF Len(bytes) >= 4 /\ Missing(bytes) = 0
              THEN in' = <<>> /\ got' = Append(got, SubSeq(bytes, 5, Len(bytes)))
              ELSE in' = bytes /\ got' = got
  /\ UNCHANGED <<sent, out, failed, shut>>

\* ... which fails, or finds the peer closed.  What was read of the message is lost.
ReadFails ==
  /\ wire # <<>> \/ shut
  /\ in' = <<>> /\ failed' = failed \cup {"receiver"}
  /\ UNCHANGED <<sent, out, wire, got, shut>>

ChannelNext == Send \/ Write \/ WriteFails \/ Close \/ Read \/ ReadFails

ChannelSpec == ChannelInit /\ [][ChannelNext]_channelVars

-----------------------------------------------------------------------------

Frames(messages) == FlattenSeq([i \in 1..Len(messages) |-> Framed(messages[i])])

\* While no call has failed, the messages received are the first of those sent, and the
\* one being read, the socket and the rest being written are together the frames of the
\* others: no byte is lost or taken for another's, however the kernel cuts the calls.
\* (After an error in the middle of a message the next one is read out of step: nothing
\* closes the channel.)
FramesKept ==
  failed = {} =>
    /\ IsPrefix(got, sent)
    /\ in \o wire \o out = Frames(SubSeq(sent, Len(got) + 1, Len(sent)))

===============================================================================
