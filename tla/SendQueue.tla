------------------------------ MODULE SendQueue ------------------------------
(***************************************************************************)
(* The send queue of one connection, byte by byte: PushMessage and         *)
(* SocketSendData (src/src/p2p/net.cpp) with a socket that may take only a *)
(* part of what it is given.                                               *)
(*                                                                         *)
(* A message is a number and a size, a byte the message it belongs to and  *)
(* its place there.  What a send reads behind the end of a message is      *)
(* Junk.  A send that takes nothing makes the loop try again and changes   *)
(* nothing; a socket that fails is the subject of PeerThreads.             *)
(***************************************************************************)
EXTENDS Naturals, SequencesExt

CONSTANTS
  Size,         \* sizes of serialised messages
  MaxMessages,  \* bound on the messages of a behaviour
  Junk

ASSUME SendAssumption ==
  /\ Size \subseteq Nat \ {0}
  /\ MaxMessages \in Nat
  /\ Junk \notin Nat \X Nat  \* it can be told from the bytes of messages

VARIABLES
  vSendMsg,     \* messages queued, sent ones until they are erased included
  nSendOffset,  \* bytes of the current message that are sent
  it,           \* SocketSendData's position in the queue, 0 outside of it
  wire,         \* what the socket has taken
  pushed,       \* every message ever queued
  aborted       \* an assertion of SocketSendData has failed

vars == <<vSendMsg, nSendOffset, it, wire, pushed, aborted>>

Init ==
  /\ vSendMsg = << >>
  /\ nSendOffset = 0
  /\ it = 0
  /\ wire = << >>
  /\ pushed = << >>
  /\ aborted = FALSE

\* The lock of the queue keeps others out while SocketSendData runs.
PushMessage(size) ==
  LET message == [id |-> Len(pushed) + 1, size |-> size]
  IN  /\ ~ aborted
      /\ it = 0
      /\ Len(pushed) < MaxMessages
      /\ vSendMsg' = Append(vSendMsg, message)
      /\ pushed' = Append(pushed, message)
      /\ UNCHANGED <<nSendOffset, it, wire, aborted>>

\* ThreadSocketHandler calls SocketSendData when there is something to send.
Call ==
  /\ ~ aborted
  /\ it = 0
  /\ vSendMsg # << >>
  /\ it' = 1
  /\ UNCHANGED <<vSendMsg, nSendOffset, wire, pushed, aborted>>

\* Mutants of Return: the offset is lost; the position is kept.
mutant_Return_offset(offset) ==
  /\ nSendOffset' = 0
  /\ vSendMsg' = SubSeq(vSendMsg, it, Len(vSendMsg))
  /\ it' = 0
mutant_Return_position(offset) ==
  /\ nSendOffset' = offset
  /\ vSendMsg' = SubSeq(vSendMsg, it, Len(vSendMsg))
  /\ it' = it

\* Erase the messages before it, and return.
Return(offset) ==
  /\ nSendOffset' = offset
  /\ vSendMsg' = SubSeq(vSendMsg, it, Len(vSendMsg))
  /\ it' = 0

\* The bytes that send reads from offset on.
Bytes(message, offset, n) ==
  [j \in 1..n |-> IF offset + j <= message.size
                  THEN <<message.id, offset + j>> ELSE Junk]

\* Mutant of Sent: a send that took too much finishes the message as well.
mutant_Sent(message, n) == nSendOffset + n >= message.size

\* The current message is out.
Sent(message, n) == nSendOffset + n = message.size

\* One send.  It is offered as many bytes as the whole message has, even
\* behind nSendOffset.
Send(n) ==
  LET data == vSendMsg[it]
  IN  /\ ~ aborted
      /\ it \in DOMAIN vSendMsg
      /\ data.size > nSendOffset
      /\ n \in 1..data.size
      /\ wire' = wire \o Bytes(data, nSendOffset, n)
      /\ IF Sent(data, n)
         THEN /\ nSendOffset' = 0
              /\ it' = it + 1
              /\ UNCHANGED vSendMsg
         ELSE Return(nSendOffset + n)
      /\ UNCHANGED <<pushed, aborted>>

\* assert(data.size() > bNode->nSendOffset_)
Abort ==
  /\ ~ aborted
  /\ it \in DOMAIN vSendMsg
  /\ ~ (vSendMsg[it].size > nSendOffset)
  /\ aborted' = TRUE
  /\ UNCHANGED <<vSendMsg, nSendOffset, it, wire, pushed>>

EndCall ==
  /\ ~ aborted
  /\ it = Len(vSendMsg) + 1
  /\ Return(nSendOffset)
  /\ UNCHANGED <<wire, pushed, aborted>>

Next ==
  \/ \E size \in Size : PushMessage(size)
  \/ Call
  \/ \E n \in UNION {1..size : size \in Size} : Send(n)
  \/ Abort
  \/ EndCall

Spec == Init /\ [][Next]_vars

-----------------------------------------------------------------------------
\* All bytes of a sequence of messages.
Stream(messages) ==
  FlattenSeq([i \in DOMAIN messages |->
                Bytes(messages[i], 0, messages[i].size)])

\* The messages not yet sent.
Rest == IF it = 0 THEN vSendMsg ELSE SubSeq(vSendMsg, it, Len(vSendMsg))

Clean == \A i \in DOMAIN wire : wire[i] # Junk

(***************************************************************************)
(* Type invariant: the position is in the queue or one behind it.          *)
(***************************************************************************)
TypeOK ==
  /\ it \in 0..(Len(vSendMsg) + 1)
  /\ nSendOffset \in Nat
  /\ Len(pushed) <= MaxMessages

(***************************************************************************)
(* As long as no send has read behind a message, what is on the wire and   *)
(* what is left of the queue from nSendOffset on are together exactly the  *)
(* messages pushed, in their order: no byte lost, none twice.              *)
(***************************************************************************)
NothingLost ==
  Clean => LET left == Stream(Rest)
           IN  wire \o SubSeq(left, nSendOffset + 1, Len(left))
                 = Stream(pushed)

(***************************************************************************)
(* When a send has read behind a message, nothing of a later message gets  *)
(* on the wire behind the junk: the next call aborts the process.          *)
(***************************************************************************)
JunkEndsTheStream ==
  \A i, j \in DOMAIN wire : wire[i] = Junk /\ i < j => wire[j] = Junk

(***************************************************************************)
(* The assertion of SocketSendData (net.cpp:347): the offset lies inside   *)
(* the message that is sent next.                                          *)
(***************************************************************************)
OffsetInsideMessage == ~ aborted
==============================================================================
