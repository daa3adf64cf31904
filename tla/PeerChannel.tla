----------------------------- MODULE PeerChannel -----------------------------
(***************************************************************************)
(* A connection from end to end: the send queue of one peer, the byte      *)
(* stream of TCP, and the other peer's SocketRecvData, unserializer and    *)
(* ProcessMessages (src/src/p2p/net.cpp).  Nothing marks where a message   *)
(* ends (the size field of the header is always 0), and each recv, however *)
(* much of the stream it returns, is taken for exactly one message.        *)
(*                                                                         *)
(* Byte 1 of a message is the header up to the end of its command, byte 2  *)
(* the rest of the header, byte 3 the tag and the length of the data, and  *)
(* from byte 4 on its content.  Protocol Buffers parse a chunk field by    *)
(* field: a later field replaces an earlier one of the same number, and    *)
(* what was parsed before an error stays, because unserializer only logs   *)
(* the error.  What a send read behind its message (Junk) begins with the  *)
(* terminating zero of the string, at which the parser stops.  Contents    *)
(* and junk are taken not to look like a header with a known command, nor  *)
(* like a JSON request.                                                    *)
(***************************************************************************)
EXTENDS SendQueue

CONSTANT MaxRecv  \* what fits into the buffer of one recv (64K)

ASSUME ChannelAssumption ==
  /\ MaxRecv \in Nat
  /\ 1 \notin Size /\ 2 \notin Size  \* a message has a header and data

VARIABLES
  received,  \* bytes of the wire that recv has returned
  vRecvMsg,  \* the receiver's queue
  handled,   \* what ProcessMessages has acted on
  paced      \* each recv so far returned exactly one whole message

receiverVars == <<received, vRecvMsg, handled, paced>>

cvars == <<vars, receiverVars>>

\* No command, or one that ProcessMessages does not know.
NoCommand == 0

ChannelInit ==
  /\ Init
  /\ received = 0
  /\ vRecvMsg = << >>
  /\ handled = << >>
  /\ paced = TRUE

Message(byte) == byte[1]
HasCommand(byte) == byte[2] = 1
StartsData(byte) == byte[2] = 3
StartsField(byte) == HasCommand(byte) \/ StartsData(byte)
IsContent(byte) == byte[2] > 3

\* The place of the last byte of which something holds, 0 if there is none.
LastPlace(places) == Max(places \cup {0})

\* What a bubiMsg holds after the fields in bytes: the last of each number.
Fields(bytes) ==
  LET header == LastPlace({j \in DOMAIN bytes : HasCommand(bytes[j])})
      start == LastPlace({j \in DOMAIN bytes : StartsData(bytes[j])})
  IN  [command |-> IF header = 0 THEN NoCommand ELSE Message(bytes[header]),
       data    |-> {bytes[j] : j \in {i \in DOMAIN bytes :
                                         i > start /\ IsContent(bytes[i])}}]

\* Parsing from place i on.  When the last byte begins a field, the chunk may
\* end inside it: before it has replaced anything, or with a part of a
\* command, which ProcessMessages does not know.  ("account" is a part of
\* "account-reply", and is then acted on: a command all the same.)
ParsedFrom(bytes, i) ==
  LET last == bytes[Len(bytes)]
      whole == Fields(SubSeq(bytes, i, Len(bytes)))
      short == Fields(SubSeq(bytes, i, Len(bytes) - 1))
  IN  {whole} \cup {m \in {short} : StartsField(last)}
              \cup {m \in {[short EXCEPT !.command = NoCommand]} :
                       HasCommand(last)}

Nothing == [command |-> NoCommand, data |-> {}]

\* What the parser gets to see: the bytes before the first junk.
Parsable(chunk) ==
  LET junk == {j \in DOMAIN chunk : chunk[j] = Junk}
  IN  SubSeq(chunk, 1, Min(junk \cup {Len(chunk) + 1}) - 1)

\* BNetMessage::unserializer of what one recv returned: what it may leave in
\* the message.  A chunk that starts inside a field is misread, up to an
\* error or until the parser happens upon a field.
unserializer(chunk) ==
  LET bytes == Parsable(chunk)
      starts == {j \in DOMAIN bytes : StartsField(bytes[j])}
  IN  IF bytes = << >> THEN {Nothing}
      ELSE IF 1 \in starts THEN ParsedFrom(bytes, 1)
      ELSE {Nothing} \cup UNION {ParsedFrom(bytes, i) : i \in starts}

\* The chunk is one message, whole.
IsMessage(chunk) ==
  \E i \in DOMAIN pushed : chunk = Bytes(pushed[i], 0, pushed[i].size)

\* Mutant of Taken: the bytes stay in the socket (a recv that peeks).
mutant_Taken(n) == received

\* recv takes the bytes it returns off the socket.
Taken(n) == received + n

\* The chunk may begin with '{'.  A field does not.
MayBeBrace(chunk) == chunk[1] # Junk => ~ StartsField(chunk[1])

\* SocketRecvData, with a recv that returns n bytes.  What begins with '{'
\* goes to ParseHandleJsonData, where it is not JSON: nothing is queued.
SocketRecvData(n) ==
  LET chunk == SubSeq(wire, received + 1, received + n)
  IN  /\ received + n <= Len(wire)
      /\ received' = Taken(n)
      /\ paced' = (paced /\ IsMessage(chunk))
      /\ \/ \E msg \in unserializer(chunk) : vRecvMsg' = Append(vRecvMsg, msg)
         \/ MayBeBrace(chunk) /\ UNCHANGED vRecvMsg
      /\ UNCHANGED <<vars, handled>>

\* Mutant of Acted: the newest message first.
mutant_Acted(msgs) ==
  LET upTo[n \in 0..Len(msgs)] ==
        IF n = 0 THEN << >>
        ELSE IF msgs[n].command = NoCommand THEN upTo[n - 1]
        ELSE <<msgs[n]>> \o upTo[n - 1]
  IN  upTo[Len(msgs)]

\* The messages that ProcessMessages acts on, in the queue's order.
Acted(msgs) ==
  LET upTo[n \in 0..Len(msgs)] ==
        IF n = 0 THEN << >>
        ELSE IF msgs[n].command = NoCommand THEN upTo[n - 1]
        ELSE Append(upTo[n - 1], msgs[n])
  IN  upTo[Len(msgs)]

\* ProcessMessages, under the same lock as SocketRecvData.
ProcessMessages ==
  /\ vRecvMsg # << >>
  /\ handled' = handled \o Acted(vRecvMsg)
  /\ vRecvMsg' = << >>
  /\ UNCHANGED <<vars, received, paced>>

ChannelNext ==
  \/ Next /\ UNCHANGED receiverVars
  \/ \E n \in 1..MaxRecv : SocketRecvData(n)
  \/ ProcessMessages

ChannelSpec == ChannelInit /\ [][ChannelNext]_cvars

-----------------------------------------------------------------------------
Delivered == handled \o Acted(vRecvMsg)

(***************************************************************************)
(* However TCP cuts the stream, the commands acted on keep the order in    *)
(* which they were sent, none is acted on twice and no data is acted on    *)
(* twice, although a command may be acted on with the data of an earlier   *)
(* message (net.cpp:391, 501).                                             *)
(***************************************************************************)
InOrder ==
  \A i, j \in DOMAIN Delivered :
    i < j => /\ Delivered[i].command < Delivered[j].command
             /\ Delivered[i].data \cap Delivered[j].data = {}

(***************************************************************************)
(* While each recv has returned exactly one message, which a slow sender   *)
(* gets but nothing in the code ensures, the receiver has acted on, or has *)
(* queued, exactly the messages whose bytes it has taken, in order and     *)
(* with all of their data.                                                 *)
(***************************************************************************)
LosslessIfPaced ==
  paced =>
    /\ \A i \in DOMAIN Delivered :
         Delivered[i] = [command |-> i,
                         data |-> {<<i, j>> : j \in 4..pushed[i].size}]
    /\ SubSeq(wire, 1, received) = Stream(SubSeq(pushed, 1, Len(Delivered)))
==============================================================================
