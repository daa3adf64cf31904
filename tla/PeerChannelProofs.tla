-------------------------- MODULE PeerChannelProofs --------------------------
(***************************************************************************)
(* What gets on the wire and what is made of it, for messages of any sizes *)
(* and any number of them.                                                 *)
(***************************************************************************)
EXTENDS PeerChannel, SequenceFacts

\* What the state of the sender is made of.
MessageType == [id : Nat, size : Nat \ {0}]
Byte == (Nat \X Nat) \cup {Junk}

\* TypeOK with the types of everything the sender touches.
Typed ==
  /\ vSendMsg \in Seq(MessageType)
  /\ pushed \in Seq(MessageType)
  /\ nSendOffset \in Nat
  /\ it \in 0..(Len(vSendMsg) + 1)
  /\ wire \in Seq(Byte)
  /\ Len(pushed) <= MaxMessages

\* A send of n bytes puts n bytes on the wire.
LEMMA BytesType ==
  ASSUME NEW m \in MessageType, NEW offset \in Nat, NEW n \in Nat
  PROVE  /\ Bytes(m, offset, n) \in Seq(Byte)
         /\ Len(Bytes(m, offset, n)) = n
<1>1. \A j \in 1..n : (IF offset + j <= m.size
                       THEN <<m.id, offset + j>> ELSE Junk) \in Byte
  BY DEF Byte, MessageType
<1> QED
  BY <1>1 DEF Bytes

\* The j-th of them is of the message, or junk behind its end.
LEMMA ByteAt ==
  ASSUME NEW m, NEW offset, NEW n, NEW j \in 1..n
  PROVE  Bytes(m, offset, n)[j] = IF offset + j <= m.size
                                  THEN <<m.id, offset + j>> ELSE Junk
  BY DEF Bytes

\* The sender starts out typed.
LEMMA TypedInit == Init => Typed
<1>1. Init => /\ wire \in Seq(Byte)
              /\ pushed \in Seq(MessageType) /\ vSendMsg \in Seq(MessageType)
  BY DEF Init
<1> QED
  BY <1>1, SendAssumption DEF Init, Typed

\* And stays so.
LEMMA TypedStep ==
  ASSUME Typed, [Next]_vars
  PROVE  Typed'
<1> USE SendAssumption DEF Typed
<1>1. ASSUME NEW size \in Size, PushMessage(size)
      PROVE  Typed'
  <2>1. [id |-> Len(pushed) + 1, size |-> size] \in MessageType
    BY DEF MessageType
  <2> QED
    BY <1>1, <2>1 DEF PushMessage
<1>2. CASE Call
  BY <1>2 DEF Call
<1>3. ASSUME NEW n, Send(n)
      PROVE  Typed'
  <2>1. vSendMsg[it] \in MessageType /\ n \in Nat
    <3>1. it \in DOMAIN vSendMsg /\ n \in 1..vSendMsg[it].size
      BY <1>3 DEF Send
    <3>2. vSendMsg[it] \in MessageType
      BY <3>1
    <3> QED
      BY <3>1, <3>2 DEF MessageType
  <2>2. wire' \in Seq(Byte)
    BY <1>3, <2>1, BytesType DEF Send
  <2>3. nSendOffset + n \in Nat
    BY <2>1
  <2>4. /\ vSendMsg' \in Seq(MessageType) /\ nSendOffset' \in Nat
        /\ it' \in 0..(Len(vSendMsg') + 1)
    <3>1. it \in 1..Len(vSendMsg)
      BY <1>3 DEF Send
    <3>2. SubSeq(vSendMsg, it, Len(vSendMsg)) \in Seq(MessageType)
      BY <3>1
    <3>3. CASE Sent(vSendMsg[it], n)
      BY <1>3, <3>1, <3>3 DEF Send
    <3>4. CASE ~ Sent(vSendMsg[it], n)
      <4>1. /\ vSendMsg' = SubSeq(vSendMsg, it, Len(vSendMsg))
            /\ nSendOffset' = nSendOffset + n /\ it' = 0
        BY <1>3, <3>4 DEF Send, Return
      <4>2. Len(vSendMsg') \in Nat
        BY <3>2, <4>1
      <4> QED
        BY <2>3, <3>2, <4>1, <4>2
    <3> QED
      BY <3>3, <3>4
  <2> QED
    BY <1>3, <2>2, <2>4 DEF Send
<1>4. CASE Abort
  BY <1>4 DEF Abort
<1>5. CASE EndCall
  BY <1>5 DEF EndCall, Return
<1>6. CASE UNCHANGED vars
  BY <1>6 DEF vars
<1> QED
  BY <1>1, <1>2, <1>3, <1>4, <1>5, <1>6 DEF Next

-----------------------------------------------------------------------------
(***************************************************************************)
(* Once there is junk on the wire the offset lies behind the message at    *)
(* the head of the queue, and no call gets past that.                      *)
(***************************************************************************)
Blocked ==
  /\ vSendMsg # << >>
  /\ it \in {0, 1}
  /\ nSendOffset > vSendMsg[1].size

JunkLast ==
  /\ ~ Clean => Blocked
  /\ JunkEndsTheStream

\* Each step keeps junk at the end: only a send writes, and it is not reached
\* once there is junk.
LEMMA JunkLastStep ==
  ASSUME Typed, JunkLast, [Next]_vars
  PROVE  JunkLast'
<1> USE SendAssumption DEF Typed, JunkLast
<1>1. ASSUME UNCHANGED wire, Blocked => Blocked'
      PROVE  JunkLast'
  BY <1>1 DEF Clean, JunkEndsTheStream
<1>2. ASSUME NEW size \in Size, PushMessage(size)
      PROVE  JunkLast'
  <2> DEFINE m == [id |-> Len(pushed) + 1, size |-> size]
  <2>1. m \in MessageType /\ vSendMsg' = Append(vSendMsg, m)
    BY <1>2 DEF PushMessage, MessageType
  <2> HIDE DEF m
  <2>2. vSendMsg # << >> => vSendMsg' # << >> /\ vSendMsg'[1] = vSendMsg[1]
    BY <2>1
  <2> QED
    BY <1>1, <1>2, <2>2 DEF PushMessage, Blocked
<1>3. CASE Call
  BY <1>1, <1>3 DEF Call, Blocked
<1>4. ASSUME NEW n, Send(n)
      PROVE  JunkLast'
  <2> DEFINE data == vSendMsg[it]
             bytes == Bytes(data, nSendOffset, n)
  <2>1. it \in 1..Len(vSendMsg) /\ data.size > nSendOffset
        /\ n \in 1..data.size
    BY <1>4 DEF Send
  <2>2. data \in MessageType
    BY <2>1
  <2>3. data.size \in Nat /\ data.id \in Nat /\ n \in Nat
    BY <2>1, <2>2 DEF MessageType
  <2>4. Clean
    BY <2>1, <2>3 DEF Blocked, MessageType
  <2>5. /\ bytes \in Seq(Byte) /\ Len(bytes) = n
        /\ \A j \in 1..n :
             bytes[j] = IF nSendOffset + j <= data.size
                        THEN <<data.id, nSendOffset + j>> ELSE Junk
    <3>1. bytes \in Seq(Byte) /\ Len(bytes) = n
      BY <2>2, <2>3, BytesType
    <3>2. ASSUME NEW j \in 1..n
          PROVE  bytes[j] = IF nSendOffset + j <= data.size
                            THEN <<data.id, nSendOffset + j>> ELSE Junk
      BY DEF Bytes
    <3> QED
      BY <3>1, <3>2
  <2>6. wire' = wire \o bytes
    BY <1>4 DEF Send
  <2> HIDE DEF bytes
  <2>7. /\ DOMAIN wire' = 1..(Len(wire) + n)
        /\ \A i \in 1..Len(wire) : wire'[i] = wire[i]
        /\ \A i \in (Len(wire) + 1)..(Len(wire) + n) :
             wire'[i] = bytes[i - Len(wire)]
    <3>1. /\ wire' \in Seq(Byte) /\ Len(wire') = Len(wire) + n
          /\ \A i \in 1..(Len(wire) + n) :
               wire'[i] = IF i <= Len(wire) THEN wire[i]
                                            ELSE bytes[i - Len(wire)]
      BY <2>5, <2>6, ConcatProperties
    <3>2. DOMAIN wire' = 1..(Len(wire) + n)
      BY <3>1
    <3> QED
      BY <2>3, <3>1, <3>2, SMTT(30)
  <2>8. \A j \in 1..n : bytes[j] = Junk <=> nSendOffset + j > data.size
    <3>1. \A j \in 1..n : <<data.id, nSendOffset + j>> # Junk
      BY <2>3
    <3> QED
      BY <2>3, <2>5, <3>1
  <2>9. \A i \in DOMAIN wire' :
          wire'[i] = Junk <=>
            i > Len(wire) /\ nSendOffset + (i - Len(wire)) > data.size
    <3> SUFFICES ASSUME NEW i \in 1..(Len(wire) + n)
                 PROVE  wire'[i] = Junk <=>
                          /\ i > Len(wire)
                          /\ nSendOffset + (i - Len(wire)) > data.size
      BY <2>7
    <3>1. CASE i \in 1..Len(wire)
      BY <2>4, <2>7, <3>1 DEF Clean
    <3>2. CASE i \in (Len(wire) + 1)..(Len(wire) + n)
      <4>1. i - Len(wire) \in 1..n
        BY <2>3, <3>2
      <4> QED
        BY <2>7, <2>8, <3>2, <4>1
    <3> QED
      BY <2>3, <3>1, <3>2
  <2>10. JunkEndsTheStream'
    <3> SUFFICES ASSUME NEW i \in DOMAIN wire', NEW j \in DOMAIN wire',
                        wire'[i] = Junk, i < j
                 PROVE  wire'[j] = Junk
      BY DEF JunkEndsTheStream
    <3>1. i \in Nat /\ j \in Nat
      BY <2>3, <2>7
    <3>2. i > Len(wire) /\ nSendOffset + (i - Len(wire)) > data.size
      BY <2>9
    <3>3. j > Len(wire) /\ nSendOffset + (j - Len(wire)) > data.size
      BY <2>3, <3>1, <3>2, SMTT(30)
    <3> QED
      BY <2>9, <3>3
  <2>11. ~ Clean' => Blocked'
    <3> SUFFICES ASSUME ~ Clean' PROVE Blocked'
      OBVIOUS
    <3>1. PICK i \in DOMAIN wire' : wire'[i] = Junk
      BY DEF Clean
    <3>2. nSendOffset + n > data.size
      BY <2>3, <2>7, <2>9, <3>1, SMTT(30)
    <3>3. Return(nSendOffset + n)
      BY <1>4, <2>3, <3>2 DEF Send, Sent
    <3>4. vSendMsg' # << >> /\ vSendMsg'[1] = data
      <4>1. vSendMsg' = SubSeq(vSendMsg, it, Len(vSendMsg))
        BY <3>3 DEF Return
      <4>2. SubSeq(vSendMsg, it, Len(vSendMsg))[1] = vSendMsg[it]
        BY <2>1
      <4>3. Len(SubSeq(vSendMsg, it, Len(vSendMsg))) > 0
        BY <2>1
      <4>4. vSendMsg'[1] = data
        BY <4>1, <4>2
      <4>5. Len(vSendMsg') > 0
        BY <4>1, <4>3
      <4>6. vSendMsg' # << >>
        BY <4>5
      <4> QED
        BY <4>4, <4>6
    <3> QED
      BY <3>2, <3>3, <3>4 DEF Return, Blocked
  <2> QED
    BY <2>10, <2>11
<1>5. CASE Abort
  BY <1>1, <1>5 DEF Abort, Blocked
<1>6. CASE EndCall
  <2>1. ~ Blocked
    BY <1>6 DEF EndCall, Blocked
  <2> QED
    BY <1>1, <1>6, <2>1 DEF EndCall
<1>7. CASE UNCHANGED vars
  BY <1>1, <1>7 DEF vars, Blocked
<1> QED
  BY <1>2, <1>3, <1>4, <1>5, <1>6, <1>7 DEF Next
-----------------------------------------------------------------------------
(***************************************************************************)
(* The bytes of a sequence of messages.                                    *)
(***************************************************************************)
\* The bytes of a whole message.
LEMMA AllBytes ==
  ASSUME NEW m \in MessageType
  PROVE  /\ Bytes(m, 0, m.size) \in Seq(Byte)
         /\ Len(Bytes(m, 0, m.size)) = m.size
  BY BytesType DEF MessageType

\* The bytes of each message, before Stream joins them.
MessageBytes(messages) ==
  [i \in DOMAIN messages |-> Bytes(messages[i], 0, messages[i].size)]

\* Stream is FlattenSeq of MessageBytes, which has a sequence per message.
LEMMA MessageBytesAre ==
  ASSUME NEW messages \in Seq(MessageType)
  PROVE  /\ Len(MessageBytes(messages)) = Len(messages)
         /\ \A i \in 1..Len(messages) :
              MessageBytes(messages)[i]
                = Bytes(messages[i], 0, messages[i].size)
         /\ Stream(messages) = FlattenSeq(MessageBytes(messages))
<1>1. \A i \in 1..Len(messages) :
        Bytes(messages[i], 0, messages[i].size) \in Seq(Byte)
  BY AllBytes
<1>2. MessageBytes(messages) \in Seq(Seq(Byte))
      /\ Len(MessageBytes(messages)) = Len(messages)
  BY <1>1 DEF MessageBytes
<1> QED
  BY <1>2 DEF MessageBytes, Stream

\* No messages have no bytes.
LEMMA StreamEmpty == Stream(<< >>) = << >>
<1>1. /\ MessageBytes(<< >>) = << >>
      /\ Stream(<< >>) = FlattenSeq(MessageBytes(<< >>))
  BY DEF MessageBytes, Stream
<1>2. FlattenSeq(<< >>) = << >>
  BY DEF FlattenSeq
<1> QED
  BY <1>1, <1>2

\* One message has its own bytes.
LEMMA StreamOne ==
  ASSUME NEW m \in MessageType
  PROVE  Stream(<<m>>) = Bytes(m, 0, m.size)
<1> DEFINE one == <<m>>
           s == MessageBytes(one)
<1>1. one \in Seq(MessageType) /\ Len(one) = 1 /\ one[1] = m
  OBVIOUS
<1> HIDE DEF one
<1>2. Len(s) = 1 /\ s[1] = Bytes(m, 0, m.size)
      /\ Stream(one) = FlattenSeq(s)
  BY <1>1, MessageBytesAre
<1> HIDE DEF s
<1>3. FlattenSeq(s) = s[1]
  BY <1>2, FlattenSeqOne
<1> QED
  BY <1>2, <1>3 DEF one

\* A message at the end adds its bytes at the end.
LEMMA StreamAppend ==
  ASSUME NEW messages \in Seq(MessageType), messages # << >>,
         NEW m \in MessageType
  PROVE  Stream(Append(messages, m))
           = Stream(messages) \o Bytes(m, 0, m.size)
<1> DEFINE n == Len(messages)
           longer == Append(messages, m)
           s == MessageBytes(messages)
           t == MessageBytes(longer)
<1>1. /\ n \in Nat /\ n # 0
      /\ longer \in Seq(MessageType) /\ Len(longer) = n + 1
      /\ \A i \in 1..n : longer[i] = messages[i]
      /\ longer[n + 1] = m
  BY AppendProperties, EmptySeq
<1> HIDE DEF longer
<1>2. /\ Len(s) = n /\ Stream(messages) = FlattenSeq(s)
      /\ \A i \in 1..n : s[i] = Bytes(messages[i], 0, messages[i].size)
  BY MessageBytesAre
<1>3. /\ Len(t) = n + 1 /\ Stream(longer) = FlattenSeq(t)
      /\ \A i \in 1..(n + 1) : t[i] = Bytes(longer[i], 0, longer[i].size)
  BY <1>1, MessageBytesAre
<1> HIDE DEF n, s, t
<1>4. \A i \in 1..n : s[i] = t[i]
  BY <1>1, <1>2, <1>3
<1>5. FlattenSeq(t) = FlattenSeq(s) \o t[n + 1]
  BY <1>1, <1>2, <1>3, <1>4, FlattenSeqAppend
<1>6. t[n + 1] = Bytes(m, 0, m.size)
  BY <1>1, <1>3
<1> QED
  BY <1>2, <1>3, <1>5, <1>6 DEF longer

\* A sequence that is not empty is a shorter one and its last element.
LEMMA LastApart ==
  ASSUME NEW S, NEW s \in Seq(S), NEW n \in Nat, Len(s) = n + 1
  PROVE  \E front \in Seq(S), last \in S :
           s = Append(front, last) /\ Len(front) = n
<1>1. s # << >>
  BY EmptySeq
<1>2. PICK front \in Seq(S), last \in S : s = Append(front, last)
  BY <1>1, SequenceEmptyOrAppend
<1>3. Len(front) = n
  BY <1>2, AppendProperties, LenProperties
<1> QED
  BY <1>2, <1>3

\* Only the empty sequence has length 0.
LEMMA EmptyOnly ==
  ASSUME NEW S, NEW s \in Seq(S), Len(s) = 0
  PROVE  s = << >>
  BY EmptySeq

\* A stream is a sequence of bytes; by induction on the number of messages.
LEMMA StreamType ==
  ASSUME NEW messages \in Seq(MessageType)
  PROVE  Stream(messages) \in Seq(Byte)
<1> DEFINE S == {n \in Nat : \A s \in Seq(MessageType) :
                   Len(s) = n => Stream(s) \in Seq(Byte)}
<1>1. 0 \in S
  <2> SUFFICES ASSUME NEW s \in Seq(MessageType), Len(s) = 0
               PROVE  Stream(s) \in Seq(Byte)
    OBVIOUS
  <2>1. s = << >>
    BY EmptyOnly
  <2>2. << >> \in Seq(Byte)
    OBVIOUS
  <2> QED
    BY <2>1, <2>2, StreamEmpty
<1>2. \A n \in Nat : n \in S => n + 1 \in S
  <2> SUFFICES ASSUME NEW n \in Nat, n \in S,
                      NEW s \in Seq(MessageType), Len(s) = n + 1
               PROVE  Stream(s) \in Seq(Byte)
    OBVIOUS
  <2>1. PICK front \in Seq(MessageType), last \in MessageType :
          s = Append(front, last) /\ Len(front) = n
    BY LastApart
  <2>2. Stream(front) \in Seq(Byte)
    BY <2>1
  <2>3. Bytes(last, 0, last.size) \in Seq(Byte)
    BY AllBytes
  <2>4. CASE front = << >>
    <3>1. s = <<last>>
      BY <2>1, <2>4
    <3> QED
      BY <2>3, <3>1, StreamOne
  <2>5. CASE front # << >>
    <3>1. Stream(s) = Stream(front) \o Bytes(last, 0, last.size)
      BY <2>1, <2>5, StreamAppend
    <3> QED
      BY <2>2, <2>3, <3>1, ConcatProperties
  <2> QED
    BY <2>4, <2>5
<1>3. Nat \subseteq S
  <2> HIDE DEF S
  <2> QED
    BY <1>1, <1>2, SetInduction
<1>4. Len(messages) \in S
  BY <1>3
<1> QED
  BY <1>4

\* StreamAppend, for an empty sequence as well.
LEMMA StreamLonger ==
  ASSUME NEW messages \in Seq(MessageType), NEW m \in MessageType
  PROVE  Stream(Append(messages, m))
           = Stream(messages) \o Bytes(m, 0, m.size)
<1>1. CASE messages # << >>
  BY <1>1, StreamAppend
<1>2. CASE messages = << >>
  <2>1. Append(messages, m) = <<m>> /\ Stream(messages) = << >>
    BY <1>2, StreamEmpty
  <2>2. << >> \o Bytes(m, 0, m.size) = Bytes(m, 0, m.size)
    BY AllBytes, ConcatEmptySeq
  <2> QED
    BY <2>1, <2>2, StreamOne
<1> QED
  BY <1>1, <1>2

\* A message at the front adds its bytes at the front; by induction on the
\* number of messages behind it.
LEMMA StreamCons ==
  ASSUME NEW m \in MessageType, NEW messages \in Seq(MessageType)
  PROVE  Stream(<<m>> \o messages)
           = Bytes(m, 0, m.size) \o Stream(messages)
<1> DEFINE first == Bytes(m, 0, m.size)
           Holds(s) == Stream(<<m>> \o s) = first \o Stream(s)
           S == {n \in Nat : \A s \in Seq(MessageType) :
                   Len(s) = n => Holds(s)}
<1>0. first \in Seq(Byte) /\ Stream(<<m>>) = first
      /\ <<m>> \in Seq(MessageType)
  BY AllBytes, StreamOne
<1> HIDE DEF first
<1>1. 0 \in S
  <2> SUFFICES ASSUME NEW s \in Seq(MessageType), Len(s) = 0
               PROVE  Stream(<<m>> \o s) = first \o Stream(s)
    OBVIOUS
  <2>1. s = << >>
    BY EmptyOnly
  <2>2. <<m>> \o s = <<m>>
    BY <1>0, <2>1, ConcatEmptySeq
  <2>3. first \o << >> = first
    BY <1>0, ConcatEmptySeq
  <2> QED
    BY <1>0, <2>1, <2>2, <2>3, StreamEmpty
<1>2. \A n \in Nat : n \in S => n + 1 \in S
  <2> SUFFICES ASSUME NEW n \in Nat, n \in S,
                      NEW s \in Seq(MessageType), Len(s) = n + 1
               PROVE  Holds(s)
    <3> HIDE DEF Holds
    <3> QED
      OBVIOUS
  <2>1. PICK front \in Seq(MessageType), last \in MessageType :
          s = Append(front, last) /\ Len(front) = n
    BY LastApart
  <2> DEFINE bytes == Bytes(last, 0, last.size)
  <2>2. bytes \in Seq(Byte) /\ Stream(front) \in Seq(Byte)
    BY AllBytes, StreamType
  <2>3. <<m>> \o s = Append(<<m>> \o front, last)
        /\ <<m>> \o front \in Seq(MessageType)
    <3>1. s = front \o <<last>>
      BY <2>1, AppendIsConcat
    <3>2. <<m>> \o front \in Seq(MessageType)
      BY <1>0, ConcatProperties
    <3>3. (<<m>> \o front) \o <<last>> = <<m>> \o (front \o <<last>>)
      BY <1>0, ConcatAssociative
    <3>4. Append(<<m>> \o front, last) = (<<m>> \o front) \o <<last>>
      BY <3>2, AppendIsConcat
    <3> QED
      BY <3>1, <3>2, <3>3, <3>4
  <2>4. Stream(<<m>> \o s) = Stream(<<m>> \o front) \o bytes
    BY <2>3, StreamLonger
  <2>5. Stream(<<m>> \o front) = first \o Stream(front)
    BY <2>1
  <2>6. Stream(s) = Stream(front) \o bytes
    BY <2>1, StreamLonger
  <2> HIDE DEF bytes
  <2>7. (first \o Stream(front)) \o bytes = first \o (Stream(front) \o bytes)
    BY <1>0, <2>2, ConcatAssociative, SMTT(30)
  <2> QED
    BY <2>4, <2>5, <2>6, <2>7
<1>3. Nat \subseteq S
  <2> HIDE DEF S
  <2> QED
    BY <1>1, <1>2, SetInduction
<1>4. Len(messages) \in S
  <2> HIDE DEF S
  <2> QED
    BY <1>3
<1>5. Holds(messages)
  <2> HIDE DEF Holds
  <2> QED
    BY <1>4
<1> QED
  BY <1>5 DEF first

-----------------------------------------------------------------------------
(***************************************************************************)
(* What is left to send of a queue.                                        *)
(***************************************************************************)
Unsent(messages, offset) ==
  SubSeq(Stream(messages), offset + 1, Len(Stream(messages)))

\* Cutting the front off a concatenation, inside its first part.
LEMMA SuffixOfConcat ==
  ASSUME NEW S, NEW a \in Seq(S), NEW b \in Seq(S), NEW o \in 0..Len(a)
  PROVE  SubSeq(a \o b, o + 1, Len(a \o b))
           = SubSeq(a, o + 1, Len(a)) \o b
<1> DEFINE ab == a \o b
           left == SubSeq(ab, o + 1, Len(ab))
           suffix == SubSeq(a, o + 1, Len(a))
           right == suffix \o b
<1>1. /\ ab \in Seq(S) /\ Len(ab) = Len(a) + Len(b)
      /\ \A i \in 1..(Len(a) + Len(b)) :
           ab[i] = IF i <= Len(a) THEN a[i] ELSE b[i - Len(a)]
  BY ConcatProperties
<1>2. Len(a) \in Nat /\ Len(b) \in Nat /\ o \in Nat /\ o <= Len(a)
  BY LenProperties
<1> HIDE DEF ab
<1>3. /\ left \in Seq(S) /\ Len(left) = Len(a) + Len(b) - o
      /\ \A i \in 1..(Len(a) + Len(b) - o) : left[i] = ab[o + i]
  <2>1. \A i \in (o + 1)..Len(ab) : ab[i] \in S
    BY <1>1, <1>2
  <2> QED
    BY <1>1, <1>2, <2>1, SubSeqProperties, SMTT(30)
<1>4. /\ suffix \in Seq(S) /\ Len(suffix) = Len(a) - o
      /\ \A i \in 1..(Len(a) - o) : suffix[i] = a[o + i]
  <2>1. \A i \in (o + 1)..Len(a) : a[i] \in S
    BY <1>2
  <2> QED
    BY <1>2, <2>1, SubSeqProperties
<1> HIDE DEF left, suffix
<1>5. /\ right \in Seq(S) /\ Len(right) = Len(a) + Len(b) - o
      /\ \A i \in 1..(Len(a) + Len(b) - o) :
           right[i] = IF i <= Len(a) - o THEN suffix[i]
                                         ELSE b[i - (Len(a) - o)]
  <2>1. /\ right \in Seq(S) /\ Len(right) = Len(suffix) + Len(b)
        /\ \A i \in 1..(Len(suffix) + Len(b)) :
             right[i] = IF i <= Len(suffix) THEN suffix[i]
                                            ELSE b[i - Len(suffix)]
    BY <1>4, ConcatProperties
  <2>2. Len(suffix) + Len(b) = Len(a) + Len(b) - o
    BY <1>2, <1>4
  <2> QED
    BY <1>4, <2>1, <2>2
<1> HIDE DEF right
<1>6. ASSUME NEW i \in 1..Len(left)
      PROVE  left[i] = right[i]
  <2>1. i \in 1..(Len(a) + Len(b) - o) /\ o + i \in 1..(Len(a) + Len(b))
    BY <1>2, <1>3
  <2>2. CASE i <= Len(a) - o
    <3>1. o + i <= Len(a) /\ i \in 1..(Len(a) - o)
      BY <1>2, <2>1, <2>2
    <3>2. left[i] = a[o + i]
      BY <1>1, <1>3, <2>1, <3>1
    <3>3. right[i] = a[o + i]
      BY <1>4, <1>5, <2>1, <2>2, <3>1
    <3> QED
      BY <3>2, <3>3
  <2>3. CASE i > Len(a) - o
    <3>1. ~ (o + i <= Len(a)) /\ (o + i) - Len(a) = i - (Len(a) - o)
          /\ ~ (i <= Len(a) - o)
      BY <1>2, <2>1, <2>3
    <3>2. left[i] = b[(o + i) - Len(a)]
      BY <1>1, <1>3, <2>1, <3>1
    <3>3. right[i] = b[i - (Len(a) - o)]
      BY <1>5, <2>1, <3>1
    <3> QED
      BY <3>1, <3>2, <3>3
  <2> QED
    BY <1>2, <2>1, <2>2, <2>3
<1> QED
  BY <1>3, <1>5, <1>6, SeqEqual DEF left, right, ab, suffix

\* With offset 0 everything is left.
LEMMA UnsentAll ==
  ASSUME NEW messages \in Seq(MessageType)
  PROVE  Unsent(messages, 0) = Stream(messages)
  BY StreamType, SubSeqFull DEF Unsent

\* A message pushed is left as a whole, behind what was left before.
LEMMA UnsentLonger ==
  ASSUME NEW messages \in Seq(MessageType), NEW m \in MessageType,
         NEW o \in 0..Len(Stream(messages))
  PROVE  Unsent(Append(messages, m), o)
           = Unsent(messages, o) \o Bytes(m, 0, m.size)
<1>1. /\ Stream(messages) \in Seq(Byte)
      /\ Bytes(m, 0, m.size) \in Seq(Byte)
  BY StreamType, AllBytes
<1> QED
  BY <1>1, StreamLonger, SuffixOfConcat DEF Unsent

\* Two sends in a row read what one longer send reads.
LEMMA BytesSplit ==
  ASSUME NEW m \in MessageType, NEW o \in Nat, NEW n \in Nat, NEW k \in Nat
  PROVE  Bytes(m, o, n + k) = Bytes(m, o, n) \o Bytes(m, o + n, k)
<1> DEFINE one == Bytes(m, o, n)
           two == Bytes(m, o + n, k)
           all == Bytes(m, o, n + k)
           both == one \o two
<1>1. /\ one \in Seq(Byte) /\ Len(one) = n
      /\ \A j \in 1..n : one[j] = IF o + j <= m.size
                                 THEN <<m.id, o + j>> ELSE Junk
  <2>1. one \in Seq(Byte) /\ Len(one) = n
    BY BytesType
  <2> QED
    BY <2>1 DEF Bytes
<1>2. /\ two \in Seq(Byte) /\ Len(two) = k
      /\ \A j \in 1..k : two[j] = IF o + n + j <= m.size
                                 THEN <<m.id, o + n + j>> ELSE Junk
  <2>1. two \in Seq(Byte) /\ Len(two) = k
    BY BytesType
  <2> DEFINE middle == o + n
  <2> HIDE DEF middle
  <2>2. \A j \in 1..k : Bytes(m, middle, k)[j]
                         = IF middle + j <= m.size
                           THEN <<m.id, middle + j>> ELSE Junk
    BY DEF Bytes
  <2> QED
    BY <2>1, <2>2 DEF middle
<1>3. /\ all \in Seq(Byte) /\ Len(all) = n + k
      /\ \A j \in 1..(n + k) : all[j] = IF o + j <= m.size
                                       THEN <<m.id, o + j>> ELSE Junk
  <2>1. all \in Seq(Byte) /\ Len(all) = n + k
    BY BytesType
  <2> QED
    BY <2>1 DEF Bytes
<1> HIDE DEF one, two, all
<1>4. /\ both \in Seq(Byte) /\ Len(both) = n + k
      /\ \A i \in 1..(n + k) :
           both[i] = IF i <= n THEN one[i] ELSE two[i - n]
  <2>1. /\ both \in Seq(Byte) /\ Len(both) = Len(one) + Len(two)
        /\ \A i \in 1..(Len(one) + Len(two)) :
             both[i] = IF i <= Len(one) THEN one[i] ELSE two[i - Len(one)]
    BY <1>1, <1>2, ConcatProperties
  <2> HIDE DEF both
  <2> QED
    BY <1>1, <1>2, <2>1
<1> HIDE DEF both
<1>5. ASSUME NEW i \in 1..(n + k)
      PROVE  all[i] = both[i]
  <2>1. CASE i <= n
    <3>1. i \in 1..n
      BY <2>1
    <3>2. both[i] = one[i]
      BY <1>4, <2>1
    <3> QED
      BY <1>1, <1>3, <3>1, <3>2
  <2>2. CASE i > n
    <3>1. i - n \in 1..k /\ o + n + (i - n) = o + i /\ ~ (i <= n)
      BY <2>2
    <3>2. two[i - n] = IF o + i <= m.size THEN <<m.id, o + i>> ELSE Junk
      BY <1>2, <3>1
    <3> QED
      BY <1>3, <1>4, <3>1, <3>2
  <2> QED
    BY <2>1, <2>2
<1> QED
  BY <1>3, <1>4, <1>5, SeqEqual DEF one, two, all, both

\* What is left: the rest of the first message, and the others.
LEMMA UnsentHead ==
  ASSUME NEW m \in MessageType, NEW messages \in Seq(MessageType),
         NEW o \in 0..m.size
  PROVE  Unsent(<<m>> \o messages, o)
           = Bytes(m, o, m.size - o) \o Stream(messages)
<1> DEFINE all == Bytes(m, 0, m.size)
           rest == Stream(messages)
           head == Bytes(m, 0, o)
           tail == Bytes(m, o, m.size - o)
<1>1. m.size \in Nat /\ o \in Nat /\ m.size - o \in Nat
      /\ o + (m.size - o) = m.size /\ 0 + o = o
  BY DEF MessageType
<1>2. /\ all \in Seq(Byte) /\ Len(all) = m.size
      /\ rest \in Seq(Byte)
      /\ head \in Seq(Byte) /\ Len(head) = o
      /\ tail \in Seq(Byte)
  BY <1>1, AllBytes, BytesType, StreamType
<1>3. Stream(<<m>> \o messages) = all \o rest
  BY StreamCons
<1>4. all = head \o tail
  <2> DEFINE k == m.size - o
  <2>1. o \in Nat /\ k \in Nat /\ 0 \in Nat
    BY <1>1
  <2>2. o + k = m.size /\ 0 + o = o
    BY <1>1
  <2> HIDE DEF k
  <2>3. Bytes(m, 0, o + k) = Bytes(m, 0, o) \o Bytes(m, 0 + o, k)
    BY <2>1, BytesSplit
  <2> QED
    BY <2>2, <2>3 DEF k
<1> HIDE DEF all, rest, head, tail
<1>5. Unsent(<<m>> \o messages, o) = SubSeq(all, o + 1, Len(all)) \o rest
  BY <1>1, <1>2, <1>3, SuffixOfConcat DEF Unsent
<1>6. SubSeq(all, o + 1, Len(all)) = SubSeq(head, o + 1, Len(head)) \o tail
  <2>1. o \in 0..Len(head)
    BY <1>1, <1>2
  <2> QED
    BY <1>2, <1>4, <2>1, SuffixOfConcat
<1>7. SubSeq(head, o + 1, Len(head)) = << >>
  BY <1>1, <1>2, SubSeqEmpty
<1>8. << >> \o tail = tail
  BY <1>2, ConcatEmptySeq
<1> QED
  BY <1>5, <1>6, <1>7, <1>8 DEF rest, tail

-----------------------------------------------------------------------------
(***************************************************************************)
(* As long as there is no junk, the offset lies inside the first message   *)
(* that is not sent, and the wire and what is left are what was pushed.    *)
(***************************************************************************)
OffsetWithin(messages, o) ==
  o = 0 \/ (messages # << >> /\ o < messages[1].size)

Whole ==
  Clean => /\ OffsetWithin(Rest, nSendOffset)
           /\ wire \o Unsent(Rest, nSendOffset) = Stream(pushed)

\* The messages not yet sent are messages.
LEMMA RestType ==
  ASSUME Typed
  PROVE  Rest \in Seq(MessageType)
<1>1. CASE it = 0
  BY <1>1 DEF Rest, Typed
<1>2. CASE it # 0
  <2>1. it \in Int /\ it >= 1 /\ Len(vSendMsg) \in Nat
    BY <1>2 DEF Typed
  <2>2. \A i \in it..Len(vSendMsg) : vSendMsg[i] \in MessageType
    BY <2>1 DEF Typed
  <2> QED
    BY <1>2, <2>1, <2>2, SubSeqProperties DEF Rest
<1> QED
  BY <1>1, <1>2

\* A sequence that is not empty is its first element and a shorter one.
LEMMA FirstApart ==
  ASSUME NEW S, NEW s \in Seq(S), s # << >>
  PROVE  s[1] \in S /\ \E t \in Seq(S) : s = <<s[1]>> \o t
<1>1. Len(s) \in Nat /\ Len(s) >= 1 /\ 1 \in 1..Len(s)
  BY EmptySeq
<1>2. SubSeq(s, 1, Len(s)) = <<s[1]>> \o SubSeq(s, 2, Len(s))
  <2>1. Len(s) \in 1..Len(s) /\ 1 + 1 = 2
    BY <1>1
  <2> QED
    BY <1>1, <2>1, SubSeqRecursiveFirst
<1>3. SubSeq(s, 2, Len(s)) \in Seq(S)
  <2>1. \A i \in 2..Len(s) : s[i] \in S
    BY <1>1
  <2> QED
    BY <1>1, <2>1, SubSeqProperties
<1>4. SubSeq(s, 1, Len(s)) = s
  BY SubSeqFull
<1>5. s[1] \in S
  BY <1>1
<1>6. s = <<s[1]>> \o SubSeq(s, 2, Len(s))
  BY <1>2, <1>4
<1> QED
  BY <1>3, <1>5, <1>6

\* The offset lies inside the stream.
LEMMA OffsetInStream ==
  ASSUME NEW messages \in Seq(MessageType), NEW o \in Nat,
         OffsetWithin(messages, o)
  PROVE  o \in 0..Len(Stream(messages))
<1>0. Stream(messages) \in Seq(Byte)
  BY StreamType
<1>1. CASE o = 0
  BY <1>0, <1>1
<1>2. CASE messages # << >> /\ o < messages[1].size
  <2>1. PICK t \in Seq(MessageType) : messages = <<messages[1]>> \o t
    BY <1>2, FirstApart
  <2> DEFINE m == messages[1]
  <2>2. m \in MessageType
    BY <1>2, FirstApart
  <2>3. /\ Bytes(m, 0, m.size) \in Seq(Byte)
        /\ Len(Bytes(m, 0, m.size)) = m.size /\ m.size \in Nat
        /\ Stream(t) \in Seq(Byte)
    BY <2>2, AllBytes, StreamType DEF MessageType
  <2>4. Stream(messages) = Bytes(m, 0, m.size) \o Stream(t)
    BY <2>1, <2>2, StreamCons
  <2>5. Len(Stream(messages)) = m.size + Len(Stream(t))
    BY <2>3, <2>4, ConcatProperties, SMTT(30)
  <2> QED
    BY <1>2, <2>3, <2>5
<1> QED
  BY <1>1, <1>2 DEF OffsetWithin

\* At the start nothing is pushed, sent or left.
LEMMA WholeInit == Init => Whole
<1> SUFFICES ASSUME Init PROVE Whole
  OBVIOUS
<1>1. wire = << >> /\ pushed = << >> /\ Rest = << >> /\ nSendOffset = 0
  BY DEF Init, Rest
<1>2. << >> \in Seq(MessageType) /\ << >> \in Seq(Byte)
  OBVIOUS
<1>3. Unsent(<< >>, 0) = << >>
  BY <1>2, UnsentAll, StreamEmpty
<1>4. << >> \o << >> = << >>
  BY <1>2, ConcatEmptySeq
<1> QED
  BY <1>1, <1>3, <1>4, StreamEmpty DEF Whole, OffsetWithin

\* Sending n bytes of the first message: what it means for the rest.
LEMMA SendSome ==
  ASSUME NEW m \in MessageType, NEW messages \in Seq(MessageType),
         NEW o \in Nat, NEW n \in Nat, o + n <= m.size
  PROVE  Unsent(<<m>> \o messages, o)
           = Bytes(m, o, n) \o Unsent(<<m>> \o messages, o + n)
<1> DEFINE k == m.size - (o + n)
           now == Bytes(m, o, n)
           later == Bytes(m, o + n, k)
           rest == Stream(messages)
<1>1. m.size \in Nat /\ k \in Nat /\ n + k = m.size - o
      /\ o \in 0..m.size /\ o + n \in 0..m.size
  BY DEF MessageType
<1>2. now \in Seq(Byte) /\ later \in Seq(Byte) /\ rest \in Seq(Byte)
  BY <1>1, BytesType, StreamType
<1>3. Unsent(<<m>> \o messages, o) = Bytes(m, o, m.size - o) \o rest
  BY <1>1, UnsentHead
<1>4. Unsent(<<m>> \o messages, o + n) = later \o rest
  BY <1>1, UnsentHead
<1>5. Bytes(m, o, m.size - o) = now \o later
  <2>1. k \in Nat /\ n + k = m.size - o
    BY <1>1
  <2> HIDE DEF k
  <2>2. Bytes(m, o, n + k) = Bytes(m, o, n) \o Bytes(m, o + n, k)
    BY <2>1, BytesSplit
  <2> QED
    BY <2>1, <2>2
<1> HIDE DEF now, later, rest
<1>6. (now \o later) \o rest = now \o (later \o rest)
  BY <1>2, ConcatAssociative, SMTT(30)
<1> QED
  BY <1>3, <1>4, <1>5, <1>6 DEF now

\* With the whole message sent the rest begins with the next one.
LEMMA SendLast ==
  ASSUME NEW m \in MessageType, NEW messages \in Seq(MessageType)
  PROVE  Unsent(<<m>> \o messages, m.size) = Unsent(messages, 0)
<1>1. m.size \in Nat /\ m.size \in 0..m.size /\ m.size - m.size = 0
  BY DEF MessageType
<1>2. Unsent(<<m>> \o messages, m.size)
        = Bytes(m, m.size, 0) \o Stream(messages)
  BY <1>1, UnsentHead
<1>3. Bytes(m, m.size, 0) \in Seq(Byte) /\ Len(Bytes(m, m.size, 0)) = 0
  BY <1>1, BytesType
<1>4. Bytes(m, m.size, 0) = << >>
  BY <1>3, EmptyOnly
<1>5. << >> \o Stream(messages) = Stream(messages)
  BY StreamType, ConcatEmptySeq
<1> QED
  BY <1>2, <1>4, <1>5, UnsentAll


\* Each step moves bytes from what is left to the wire, or adds a message to
\* both what is pushed and what is left.
LEMMA WholeStep ==
  ASSUME Typed, Typed', Whole, [Next]_vars
  PROVE  Whole'
<1>0. /\ Rest \in Seq(MessageType) /\ Rest' \in Seq(MessageType)
      /\ nSendOffset \in Nat /\ wire \in Seq(Byte)
      /\ vSendMsg \in Seq(MessageType) /\ pushed \in Seq(MessageType)
  BY RestType DEF Typed, Rest
<1>1. ASSUME UNCHANGED <<wire, pushed, nSendOffset>>, Rest' = Rest
      PROVE  Whole'
  BY <1>1 DEF Whole, Clean
<1>2. ASSUME NEW size \in Size, PushMessage(size)
      PROVE  Whole'
  <2> DEFINE m == [id |-> Len(pushed) + 1, size |-> size]
             b == Bytes(m, 0, m.size)
             left == Unsent(Rest, nSendOffset)
  <2>1. m \in MessageType
    BY <1>0, SendAssumption DEF MessageType
  <2>2. /\ Rest' = Append(Rest, m) /\ pushed' = Append(pushed, m)
        /\ nSendOffset' = nSendOffset /\ wire' = wire
    BY <1>2 DEF PushMessage, Rest
  <2> HIDE DEF m
  <2> SUFFICES ASSUME Clean'
               PROVE  /\ OffsetWithin(Rest', nSendOffset')
                      /\ wire' \o Unsent(Rest', nSendOffset')
                           = Stream(pushed')
    BY DEF Whole
  <2>3. /\ OffsetWithin(Rest, nSendOffset)
        /\ wire \o left = Stream(pushed)
    BY <2>2 DEF Whole, Clean
  <2>4. OffsetWithin(Rest', nSendOffset')
    <3>1. Rest # << >> => Rest' # << >> /\ Rest'[1] = Rest[1]
      <4>1. /\ Append(Rest, m) # << >>
            /\ \A i \in 1..Len(Rest) : Append(Rest, m)[i] = Rest[i]
        BY <1>0, <2>1, AppendProperties
      <4>2. Rest # << >> => 1 \in 1..Len(Rest)
        BY <1>0, EmptySeq
      <4> QED
        BY <2>2, <4>1, <4>2
    <3> QED
      BY <2>2, <2>3, <3>1 DEF OffsetWithin
  <2>5. Unsent(Rest', nSendOffset) = left \o b
    <3>1. nSendOffset \in 0..Len(Stream(Rest))
      BY <1>0, <2>3, OffsetInStream
    <3> QED
      BY <1>0, <2>1, <2>2, <3>1, UnsentLonger
  <2>6. Stream(pushed') = Stream(pushed) \o b
    BY <1>0, <2>1, <2>2, StreamLonger
  <2>7. b \in Seq(Byte) /\ left \in Seq(Byte)
    <3>1. b \in Seq(Byte) /\ Stream(Rest) \in Seq(Byte)
      BY <1>0, <2>1, AllBytes, StreamType
    <3>2. \A i \in (nSendOffset + 1)..Len(Stream(Rest)) :
            Stream(Rest)[i] \in Byte
      BY <1>0, <3>1
    <3>3. left \in Seq(Byte)
      <4>1. nSendOffset + 1 \in Int /\ Len(Stream(Rest)) \in Int
        BY <1>0, <3>1
      <4> QED
        BY <3>2, <4>1, SubSeqProperties DEF Unsent
    <3> QED
      BY <3>1, <3>3
  <2> HIDE DEF b, left
  <2>8. (wire \o left) \o b = wire \o (left \o b)
    <3>1. wire \in Seq(Byte)
      BY <1>0
    <3> QED
      BY <2>7, <3>1, ConcatAssociative
  <2> QED
    BY <2>2, <2>3, <2>4, <2>5, <2>6, <2>8
<1>3. CASE Call
  <2>1. SubSeq(vSendMsg, 1, Len(vSendMsg)) = vSendMsg
    BY <1>0, SubSeqFull
  <2>2. Rest' = Rest
    BY <1>3, <2>1 DEF Call, Rest
  <2> QED
    BY <1>1, <1>3, <2>2 DEF Call
<1>4. ASSUME NEW n, Send(n)
      PROVE  Whole'
  <2> DEFINE data == vSendMsg[it]
             o == nSendOffset
             b == Bytes(data, o, n)
             later == SubSeq(vSendMsg, it + 1, Len(vSendMsg))
  <2>1. it \in 1..Len(vSendMsg) /\ data.size > o /\ n \in 1..data.size
    BY <1>0, <1>4 DEF Send
  <2>2. data \in MessageType
    BY <1>0, <2>1
  <2>3. data.size \in Nat /\ n \in Nat /\ n >= 1
    BY <2>1, <2>2 DEF MessageType
  <2>4. later \in Seq(MessageType) /\ it + 1 # 0 /\ it # 0
    <3>1. \A i \in (it + 1)..Len(vSendMsg) : vSendMsg[i] \in MessageType
      BY <1>0, <2>1
    <3>2. it + 1 \in Int /\ Len(vSendMsg) \in Int
      BY <1>0, <2>1
    <3> QED
      BY <2>1, <3>1, <3>2, SubSeqProperties
  <2>5. Rest = <<data>> \o later /\ Rest = SubSeq(vSendMsg, it, Len(vSendMsg))
    <3>1. Len(vSendMsg) \in it..Len(vSendMsg)
      BY <1>0, <2>1
    <3>2. SubSeq(vSendMsg, it, Len(vSendMsg)) = <<data>> \o later
      BY <1>0, <2>1, <3>1, SubSeqRecursiveFirst
    <3> QED
      BY <2>4, <3>2 DEF Rest
  <2>6. b \in Seq(Byte) /\ Len(b) = n
    BY <1>0, <2>2, <2>3, BytesType
  <2>7. wire' = wire \o b /\ pushed' = pushed
    BY <1>4 DEF Send
  <2>8. b[n] = IF o + n <= data.size THEN <<data.id, o + n>> ELSE Junk
    BY <2>3 DEF Bytes
  <2> SUFFICES ASSUME Clean'
               PROVE  /\ OffsetWithin(Rest', nSendOffset')
                      /\ wire' \o Unsent(Rest', nSendOffset')
                           = Stream(pushed')
    BY DEF Whole
  <2> HIDE DEF b
  <2>9. /\ wire' \in Seq(Byte) /\ Len(wire') = Len(wire) + n
        /\ \A i \in 1..(Len(wire) + n) :
             wire'[i] = IF i <= Len(wire) THEN wire[i] ELSE b[i - Len(wire)]
    <3>1. wire \in Seq(Byte)
      BY <1>0
    <3>2. /\ wire \o b \in Seq(Byte) /\ Len(wire \o b) = Len(wire) + Len(b)
          /\ \A i \in 1..(Len(wire) + Len(b)) :
               (wire \o b)[i] = IF i <= Len(wire) THEN wire[i]
                                ELSE b[i - Len(wire)]
      BY <2>6, <3>1, ConcatProperties
    <3> QED
      BY <2>6, <2>7, <3>2
  <2>10. Clean
    <3> SUFFICES ASSUME NEW i \in DOMAIN wire
                 PROVE  wire[i] # Junk
      BY DEF Clean
    <3>1. i \in 1..Len(wire) /\ i \in 1..(Len(wire) + n)
      BY <1>0, <2>3
    <3>2. i \in DOMAIN wire' /\ wire'[i] = wire[i]
      BY <2>9, <3>1
    <3> QED
      BY <3>2 DEF Clean
  <2>11. o + n <= data.size
    <3>1. Len(wire) + n \in 1..(Len(wire) + n)
          /\ ~ (Len(wire) + n <= Len(wire)) /\ Len(wire) + n - Len(wire) = n
      BY <1>0, <2>3
    <3>2. wire'[Len(wire) + n] = b[n]
      <4> DEFINE k == Len(wire) + n
      <4>1. k \in 1..(Len(wire) + n) /\ ~ (k <= Len(wire)) /\ k - Len(wire) = n
        BY <1>0, <2>3
      <4> HIDE DEF k
      <4>2. wire'[k] = b[k - Len(wire)]
        BY <2>9, <4>1
      <4> QED
        BY <4>1, <4>2 DEF k
    <3>3. Len(wire) + n \in DOMAIN wire'
      BY <2>9, <3>1
    <3>4. b[n] # Junk
      BY <3>2, <3>3 DEF Clean
    <3> QED
      BY <1>0, <2>3, <2>8, <3>4
  <2>12. wire \o Unsent(Rest, o) = Stream(pushed)
    BY <2>10 DEF Whole
  <2> DEFINE left == Unsent(Rest, o + n)
  <2>13. Unsent(Rest, o) = b \o left
    <3>1. o \in Nat
      BY <1>0
    <3> HIDE DEF data, later, o
    <3>2. Unsent(<<data>> \o later, o)
            = Bytes(data, o, n) \o Unsent(<<data>> \o later, o + n)
      BY <2>2, <2>3, <2>4, <2>11, <3>1, SendSome
    <3> QED
      BY <2>5, <3>2 DEF b
  <2>14. left \in Seq(Byte)
    <3>1. Stream(Rest) \in Seq(Byte)
      BY <1>0, StreamType
    <3>2. \A i \in (o + n + 1)..Len(Stream(Rest)) : Stream(Rest)[i] \in Byte
      BY <1>0, <2>3, <3>1
    <3>3. o + n + 1 \in Int /\ Len(Stream(Rest)) \in Int
      BY <1>0, <2>3, <3>1
    <3> QED
      BY <3>2, <3>3, SubSeqProperties DEF Unsent
  <2>15. wire' \o left = Stream(pushed')
    <3> HIDE DEF left
    <3>1. (wire \o b) \o left = wire \o (b \o left)
      <4>1. wire \in Seq(Byte)
        BY <1>0
      <4> QED
        BY <2>6, <2>14, <4>1, ConcatAssociative, SMTT(30)
    <3> QED
      BY <2>7, <2>12, <2>13, <3>1
  <2>16. CASE Sent(data, n)
    <3>1. nSendOffset' = 0 /\ it' = it + 1 /\ vSendMsg' = vSendMsg
      BY <1>4, <2>16 DEF Send
    <3>2. Rest' = later
      BY <2>4, <3>1 DEF Rest
    <3>3. Unsent(Rest', nSendOffset') = left
      <4>1. o + n = data.size
        BY <2>16 DEF Sent
      <4>2. Unsent(<<data>> \o later, data.size) = Unsent(later, 0)
        BY <2>2, <2>4, SendLast
      <4> HIDE DEF later, data
      <4> QED
        BY <2>5, <3>1, <3>2, <4>1, <4>2
    <3> QED
      BY <2>15, <3>1, <3>3 DEF OffsetWithin
  <2>17. CASE ~ Sent(data, n)
    <3>1. nSendOffset' = o + n /\ it' = 0
          /\ vSendMsg' = SubSeq(vSendMsg, it, Len(vSendMsg))
      BY <1>4, <2>17 DEF Send, Return
    <3>2. Rest' = Rest
      BY <2>5, <3>1 DEF Rest
    <3>3. o + n < data.size
      <4>1. o \in Nat /\ o + n # data.size
        BY <1>0, <2>17 DEF Sent
      <4> HIDE DEF o, data
      <4> QED
        BY <2>3, <2>11, <4>1
    <3>4. Rest # << >> /\ Rest[1] = data
      <4>1. <<data>> \in Seq(MessageType) /\ Len(<<data>>) = 1
            /\ <<data>>[1] = data
        BY <2>2
      <4>2. Len(<<data>> \o later) = 1 + Len(later)
            /\ (<<data>> \o later)[1] = data
        <5> HIDE DEF data, later
        <5> QED
          BY <2>4, <4>1, ConcatProperties, LenProperties
      <4>3. Len(Rest) = 1 + Len(later) /\ Rest[1] = data
        BY <2>5, <4>2
      <4>4. Len(Rest) # 0
        BY <2>4, <4>3, LenProperties
      <4>5. Rest # << >>
        <5>1. Len(<< >>) = 0
          OBVIOUS
        <5> QED
          BY <4>4, <5>1
      <4> QED
        BY <4>3, <4>5
    <3>5. OffsetWithin(Rest', nSendOffset')
      BY <3>1, <3>2, <3>3, <3>4 DEF OffsetWithin
    <3> QED
      BY <2>15, <3>1, <3>2, <3>5
  <2> QED
    BY <2>16, <2>17
<1>5. CASE Abort
  BY <1>1, <1>5 DEF Abort, Rest
<1>6. CASE EndCall
  <2>1. Rest' = Rest
    BY <1>0, <1>6 DEF EndCall, Return, Rest
  <2> QED
    BY <1>1, <1>6, <2>1 DEF EndCall, Return
<1>7. CASE UNCHANGED vars
  BY <1>1, <1>7 DEF vars, Rest
<1> QED
  BY <1>2, <1>3, <1>4, <1>5, <1>6, <1>7 DEF Next

-----------------------------------------------------------------------------
\* The receiver does not touch the sender.
LEMMA QueueSteps ==
  ChannelInit /\ [][ChannelNext]_cvars => Init /\ [][Next]_vars
<1>1. ChannelInit => Init
  BY DEF ChannelInit
<1>2. [ChannelNext]_cvars => [Next]_vars
  BY DEF ChannelNext, cvars, vars, SocketRecvData, ProcessMessages
<1> QED
  BY <1>1, <1>2, PTL

(***************************************************************************)
(* The three invariants together are inductive: the queue is typed, junk   *)
(* can only end the wire, and without junk no byte is missing.             *)
(***************************************************************************)
QueueInv == Typed /\ JunkLast /\ Whole

THEOREM QueueInvariant == Spec => []QueueInv
<1>1. Init => QueueInv
  <2>1. Init => JunkLast
    BY DEF Init, JunkLast, Clean, JunkEndsTheStream
  <2> QED
    BY <2>1, TypedInit, WholeInit DEF QueueInv
<1>2. QueueInv /\ [Next]_vars => QueueInv'
  BY TypedStep, JunkLastStep, WholeStep DEF QueueInv
<1> QED
  BY <1>1, <1>2, PTL DEF Spec

\* So what holds of the send queue holds of it in the channel.
LEMMA ChannelQueueInvariant == ChannelSpec => []QueueInv
  BY QueueSteps, QueueInvariant, PTL DEF ChannelSpec, Spec

(***************************************************************************)
(* Type correctness: SocketSendData's position never leaves the queue by   *)
(* more than one (net.cpp:340), whatever the sizes of messages.            *)
(***************************************************************************)
THEOREM SendQueueTypeCorrect == ChannelSpec => []TypeOK
<1>1. QueueInv => TypeOK
  BY DEF QueueInv, Typed, TypeOK
<1> QED
  BY <1>1, ChannelQueueInvariant, PTL

(***************************************************************************)
(* When a send has read behind its message, nothing of a later message is  *)
(* put on the wire: the offset then lies behind the message at the head of *)
(* the queue, and the assertion (net.cpp:347) stops every later call.      *)
(***************************************************************************)
THEOREM NothingBehindJunk == ChannelSpec => []JunkEndsTheStream
<1>1. QueueInv => JunkEndsTheStream
  BY DEF QueueInv, JunkLast
<1> QED
  BY <1>1, ChannelQueueInvariant, PTL

(***************************************************************************)
(* Without such a read, partial sends lose, repeat and reorder no byte:    *)
(* the wire and what is left of the queue are the messages pushed, for any *)
(* number of messages of any sizes and however the socket cuts them.       *)
(***************************************************************************)
THEOREM NoByteLost == ChannelSpec => []NothingLost
<1>1. QueueInv => NothingLost
  BY DEF QueueInv, Whole, NothingLost, Unsent
<1> QED
  BY <1>1, ChannelQueueInvariant, PTL
-----------------------------------------------------------------------------
(***************************************************************************)
(* The order of the wire: messages are numbered as they are pushed, and    *)
(* each byte on the wire that is not junk is the one that follows the byte *)
(* before it.                                                              *)
(***************************************************************************)
Numbered ==
  /\ Len(vSendMsg) <= Len(pushed)
  /\ \A i \in 1..Len(pushed) : pushed[i].id = i
  /\ \A i \in 1..Len(vSendMsg) :
       vSendMsg[i] = pushed[Len(pushed) - Len(vSendMsg) + i]

\* The number of the message that SocketSendData sends, or sends next.
Current == Len(pushed) - Len(vSendMsg) + (IF it = 0 THEN 1 ELSE it)

Before(a, b) == a[1] < b[1] \/ (a[1] = b[1] /\ a[2] < b[2])

\* No byte is sent twice or behind a later one.
Ordered ==
  /\ \A p, q \in 1..Len(wire) :
       p < q /\ wire[p] # Junk /\ wire[q] # Junk => Before(wire[p], wire[q])
  /\ \A p \in 1..Len(wire) :
       wire[p] # Junk => Before(wire[p], <<Current, nSendOffset + 1>>)

\* The byte that belongs behind the first p of the wire.
NextByte(p) ==
  IF p = 0 THEN <<1, 1>>
  ELSE IF wire[p][2] < pushed[wire[p][1]].size
       THEN <<wire[p][1], wire[p][2] + 1>>
       ELSE <<wire[p][1] + 1, 1>>

\* And none is left out.
Gapless ==
  /\ \A p \in 1..Len(wire) :
       wire[p] # Junk => /\ wire[p][1] \in 1..Len(pushed)
                         /\ wire[p] = NextByte(p - 1)
  /\ Clean => NextByte(Len(wire)) = <<Current, nSendOffset + 1>>

StreamInv == Numbered /\ Ordered /\ Gapless

LEMMA StreamInvInit == Init => StreamInv
<1> SUFFICES ASSUME Init PROVE StreamInv
  OBVIOUS
<1>1. /\ Len(wire) = 0 /\ Len(pushed) = 0 /\ Len(vSendMsg) = 0
      /\ it = 0 /\ nSendOffset = 0
  BY DEF Init
<1> QED
  BY <1>1 DEF StreamInv, Numbered, Ordered, Gapless, Current, NextByte

\* What a send of n bytes does.
LEMMA SendWrites ==
  ASSUME Typed, NEW n, Send(n)
  PROVE  LET data == vSendMsg[it]
         IN  /\ it \in 1..Len(vSendMsg)
             /\ data \in MessageType /\ n \in Nat \ {0}
             /\ nSendOffset < data.size
             /\ Len(wire') = Len(wire) + n
             /\ DOMAIN wire' = 1..(Len(wire) + n)
             /\ \A p \in 1..Len(wire) : wire'[p] = wire[p]
             /\ \A p \in (Len(wire) + 1)..(Len(wire) + n) :
                  wire'[p] = IF nSendOffset + (p - Len(wire)) <= data.size
                             THEN <<data.id, nSendOffset + (p - Len(wire))>>
                             ELSE Junk
<1> DEFINE data == vSendMsg[it]
           o == nSendOffset
           bytes == Bytes(data, o, n)
<1>1. it \in 1..Len(vSendMsg) /\ o < data.size /\ n \in 1..data.size
  BY DEF Send, Typed
<1>2. data \in MessageType
  BY <1>1 DEF Typed
<1>3. n \in Nat \ {0} /\ o \in Nat
  BY <1>1, <1>2 DEF MessageType, Typed
<1>4. bytes \in Seq(Byte) /\ Len(bytes) = n
  BY <1>2, <1>3, BytesType
<1>5. \A j \in 1..n : bytes[j] = IF o + j <= data.size
                                 THEN <<data.id, o + j>> ELSE Junk
  BY ByteAt
<1>6. wire' = wire \o bytes /\ wire \in Seq(Byte)
  BY DEF Send, Typed
<1> HIDE DEF bytes, data, o
<1>7. /\ Len(wire') = Len(wire) + n
      /\ \A p \in 1..(Len(wire) + n) :
           wire'[p] = IF p <= Len(wire) THEN wire[p] ELSE bytes[p - Len(wire)]
  BY <1>4, <1>6, ConcatProperties
<1>8. Len(wire) \in Nat
  BY <1>6
<1>9. \A p \in 1..Len(wire) : wire'[p] = wire[p]
  BY <1>3, <1>7, <1>8
<1>10. ASSUME NEW p \in (Len(wire) + 1)..(Len(wire) + n)
       PROVE  wire'[p] = IF o + (p - Len(wire)) <= data.size
                         THEN <<data.id, o + (p - Len(wire))>> ELSE Junk
  <2>1. /\ p - Len(wire) \in 1..n /\ p \in 1..(Len(wire) + n)
        /\ ~ (p <= Len(wire))
    BY <1>3, <1>8
  <2> QED
    BY <1>5, <1>7, <2>1
<1>11. DOMAIN wire' = 1..(Len(wire) + n)
  <2>1. wire' \in Seq(Byte)
    BY <1>4, <1>6
  <2> QED
    BY <1>7, <2>1
<1> QED
  BY <1>1, <1>2, <1>3, <1>7, <1>9, <1>10, <1>11 DEF data, o

\* Steps that put nothing on the wire keep its order.
LEMMA StreamInvQuiet ==
  ASSUME QueueInv, StreamInv, Numbered', UNCHANGED <<wire, nSendOffset>>,
         Current' = Current,
         pushed' = pushed \/ \E m \in MessageType : pushed' = Append(pushed, m)
  PROVE  StreamInv'
<1>1. /\ Len(pushed) <= Len(pushed') /\ Len(pushed) \in Nat
      /\ Len(pushed') \in Nat
      /\ \A i \in 1..Len(pushed) : pushed'[i] = pushed[i]
  BY SMTT(30) DEF QueueInv, Typed
<1>2. Ordered'
  BY DEF StreamInv, Ordered
<1>3. Len(wire) \in Nat /\ (Clean' <=> Clean)
  BY DEF QueueInv, Typed, Clean
<1>4. ASSUME NEW p \in 0..Len(wire), p # 0 => wire[p] # Junk
      PROVE  NextByte(p)' = NextByte(p)
  <2>1. CASE p = 0
    BY <2>1 DEF NextByte
  <2>2. CASE p # 0
    <3>1. wire[p][1] \in 1..Len(pushed)
      BY <1>3, <1>4, <2>2 DEF StreamInv, Gapless
    <3>2. pushed'[wire[p][1]] = pushed[wire[p][1]]
      BY <1>1, <3>1
    <3> QED
      BY <2>2, <3>2 DEF NextByte
  <2> QED
    BY <2>1, <2>2
<1>5. ASSUME NEW p \in 1..Len(wire), wire[p] # Junk
      PROVE  wire[p][1] \in 1..Len(pushed') /\ wire[p] = NextByte(p - 1)'
  <2>1. wire[p][1] \in 1..Len(pushed) /\ wire[p] = NextByte(p - 1)
    BY <1>5 DEF StreamInv, Gapless
  <2>2. p - 1 # 0 => wire[p - 1] # Junk
    <3>1. \A i, j \in 1..Len(wire) :
            wire[i] = Junk /\ i < j => wire[j] = Junk
      BY DEF QueueInv, Typed, JunkLast, JunkEndsTheStream
    <3> QED
      BY <1>3, <1>5, <3>1
  <2> QED
    BY <1>1, <1>4, <2>1, <2>2
<1>6. Clean => NextByte(Len(wire))' = NextByte(Len(wire))
  <2> SUFFICES ASSUME Clean
               PROVE  NextByte(Len(wire))' = NextByte(Len(wire))
    OBVIOUS
  <2>1. Len(wire) # 0 => wire[Len(wire)] # Junk
    BY <1>3 DEF Clean, QueueInv, Typed
  <2> QED
    BY <1>3, <1>4, <2>1
<1>7. Gapless'
  <2>1. wire' = wire /\ nSendOffset' = nSendOffset
    OBVIOUS
  <2>2. (Clean => NextByte(Len(wire)) = <<Current, nSendOffset + 1>>)'
    <3>1. Clean => NextByte(Len(wire)) = <<Current, nSendOffset + 1>>
      BY DEF StreamInv, Gapless
    <3> QED
      BY <1>3, <1>6, <2>1, <3>1
  <2> QED
    BY <1>5, <2>1, <2>2 DEF Gapless
<1> QED
  BY <1>2, <1>7 DEF StreamInv

\* A send puts the next bytes of the current message on the wire.
LEMMA StreamInvSend ==
  ASSUME QueueInv, StreamInv, NEW n, Send(n)
  PROVE  StreamInv'
<1> DEFINE data == vSendMsg[it]
           o == nSendOffset
           L == Len(wire)
<1>0. Typed /\ Numbered /\ Ordered /\ Gapless
  BY DEF QueueInv, StreamInv
<1>1. /\ it \in 1..Len(vSendMsg)
      /\ data \in MessageType /\ n \in Nat \ {0}
      /\ o < data.size
      /\ Len(wire') = L + n /\ DOMAIN wire' = 1..(L + n)
      /\ \A p \in 1..L : wire'[p] = wire[p]
      /\ \A p \in (L + 1)..(L + n) :
           wire'[p] = IF o + (p - L) <= data.size
                      THEN <<data.id, o + (p - L)>> ELSE Junk
  BY <1>0, SendWrites
<1>2. /\ data.id \in Nat /\ data.size \in Nat /\ o \in Nat /\ L \in Nat
      /\ Len(pushed) \in Nat /\ Len(vSendMsg) \in Nat
  <2>1. data.id \in Nat /\ data.size \in Nat
    <3>1. data \in MessageType
      BY <1>1
    <3> HIDE DEF data
    <3> QED
      BY <3>1 DEF MessageType
  <2>2. /\ o \in Nat /\ L \in Nat
        /\ Len(pushed) \in Nat /\ Len(vSendMsg) \in Nat
    BY <1>0 DEF Typed
  <2> QED
    BY <2>1, <2>2
<1>3. pushed' = pushed /\ Current = Len(pushed) - Len(vSendMsg) + it
  BY <1>1 DEF Send, Current
<1>4. data.id = Current /\ Current \in 1..Len(pushed) /\ pushed[Current] = data
  <2>1. Current \in 1..Len(pushed)
    BY <1>0, <1>1, <1>2, <1>3, SMTT(30) DEF Numbered
  <2>2. data = pushed[Current]
    BY <1>0, <1>1, <1>3 DEF Numbered
  <2> QED
    BY <1>0, <2>1, <2>2 DEF Numbered
<1>5. Clean
  <2>1. ~ Blocked
    BY <1>1, <1>2 DEF Blocked
  <2> QED
    BY <2>1 DEF QueueInv, JunkLast
<1>6. \/ /\ o + n = data.size
         /\ nSendOffset' = 0 /\ it' = it + 1 /\ vSendMsg' = vSendMsg
         /\ Current' = Current + 1
      \/ /\ o + n # data.size
         /\ nSendOffset' = o + n /\ it' = 0
         /\ vSendMsg' = SubSeq(vSendMsg, it, Len(vSendMsg))
         /\ Current' = Current
  <2>1. CASE Sent(data, n)
    <3>1. /\ o + n = data.size
          /\ nSendOffset' = 0 /\ it' = it + 1 /\ vSendMsg' = vSendMsg
      BY <2>1 DEF Send, Sent
    <3>2. it + 1 # 0 /\ it \in Nat
      BY <1>1
    <3>3. Current' = Len(pushed) - Len(vSendMsg) + (it + 1)
      BY <1>3, <3>1, <3>2 DEF Current
    <3>4. Current' = Current + 1
      BY <1>2, <1>3, <3>2, <3>3
    <3> QED
      BY <3>1, <3>4
  <2>2. CASE ~ Sent(data, n)
    <3>1. /\ o + n # data.size
          /\ nSendOffset' = o + n /\ it' = 0
          /\ vSendMsg' = SubSeq(vSendMsg, it, Len(vSendMsg))
      BY <2>2 DEF Send, Sent, Return
    <3>2. Len(vSendMsg') = Len(vSendMsg) - it + 1
      BY <1>0, <1>1, <1>2, <3>1 DEF Typed
    <3>3. Current' = Current
      BY <1>1, <1>2, <1>3, <3>1, <3>2 DEF Current
    <3> QED
      BY <3>1, <3>3
  <2> QED
    BY <2>1, <2>2
<1>7. Numbered'
  <2>1. CASE vSendMsg' = vSendMsg
    BY <1>0, <1>3, <2>1 DEF Numbered
  <2>2. CASE vSendMsg' = SubSeq(vSendMsg, it, Len(vSendMsg))
    <3>1. /\ Len(vSendMsg') = Len(vSendMsg) - it + 1
          /\ \A i \in 1..(Len(vSendMsg) - it + 1) :
               vSendMsg'[i] = vSendMsg[it + i - 1]
      BY <1>0, <1>1, <1>2, <2>2 DEF Typed
    <3>2. ASSUME NEW i \in 1..Len(vSendMsg')
          PROVE  vSendMsg'[i] = pushed[Len(pushed) - Len(vSendMsg') + i]
      <4> DEFINE k == it + i - 1
      <4>1. /\ k \in 1..Len(vSendMsg) /\ vSendMsg'[i] = vSendMsg[k]
            /\ Len(pushed) - Len(vSendMsg') + i
                 = Len(pushed) - Len(vSendMsg) + k
        BY <1>1, <1>2, <3>1
      <4> HIDE DEF k
      <4> QED
        BY <1>0, <4>1 DEF Numbered
    <3>3. Len(vSendMsg') <= Len(pushed)
      BY <1>0, <1>1, <1>2, <3>1 DEF Numbered
    <3> QED
      BY <1>0, <1>3, <3>2, <3>3 DEF Numbered
  <2> QED
    BY <1>6, <2>1, <2>2
<1> DEFINE c == Current
<1>8. \A p \in (L + 1)..(L + n) :
        wire'[p] # Junk => wire'[p] = <<c, o + (p - L)>>
                           /\ o + (p - L) <= data.size
  <2>1. \A p \in (L + 1)..(L + n) :
          wire'[p] = IF o + (p - L) <= data.size
                     THEN <<c, o + (p - L)>> ELSE Junk
    BY <1>1, <1>4
  <2> QED
    BY <2>1
<1>9. c \in Nat /\ c \in 1..Len(pushed)
  BY <1>2, <1>4
<1>10. \A p \in 1..L : wire[p] # Junk
  BY <1>0, <1>5 DEF Clean, Typed
<1>11. \A p \in 1..L : /\ wire[p] \in Nat \X Nat
                       /\ Before(wire[p], <<c, o + 1>>)
  BY <1>0, <1>10, SMTT(30) DEF Ordered, Typed, Byte
<1> HIDE DEF c
<1>12. Ordered'
  <2>1. ASSUME NEW p \in 1..(L + n), NEW q \in 1..(L + n), p < q,
               wire'[p] # Junk, wire'[q] # Junk
        PROVE  Before(wire'[p], wire'[q])
    <3>1. CASE q \in 1..L
      <4>1. p \in 1..L
        BY <2>1, <3>1
      <4>2. Before(wire[p], wire[q])
        BY <1>0, <1>10, <2>1, <3>1, <4>1 DEF Ordered
      <4> QED
        BY <1>1, <3>1, <4>1, <4>2
    <3>2. CASE p \in 1..L /\ q \in (L + 1)..(L + n)
      <4>1. wire'[p] = wire[p] /\ wire'[q] = <<c, o + (q - L)>>
            /\ o + (q - L) >= o + 1
        BY <1>1, <1>2, <1>8, <2>1, <3>2, SMTT(30)
      <4> QED
        BY <1>2, <1>9, <1>11, <3>2, <4>1 DEF Before
    <3>3. CASE p \in (L + 1)..(L + n)
      <4>1. q \in (L + 1)..(L + n)
        BY <1>1, <1>2, <2>1, <3>3
      <4>2. wire'[p] = <<c, o + (p - L)>> /\ wire'[q] = <<c, o + (q - L)>>
        BY <1>8, <2>1, <3>3, <4>1
      <4>3. o + (p - L) < o + (q - L)
        BY <1>2, <2>1
      <4> QED
        BY <4>2, <4>3 DEF Before
    <3> QED
      BY <1>1, <1>2, <3>1, <3>2, <3>3
  <2>2. ASSUME NEW p \in 1..(L + n), wire'[p] # Junk
        PROVE  Before(wire'[p], <<Current', nSendOffset' + 1>>)
    <3> DEFINE c2 == Current'
               o2 == nSendOffset'
    <3>0. c2 = c + 1 \/ (c2 = c /\ o2 = o + n)
      BY <1>6 DEF c
    <3> HIDE DEF c2, o2
    <3>1. CASE p \in 1..L
      <4>1. wire'[p] = wire[p]
        BY <1>1, <3>1
      <4>2. wire[p][1] \in Nat /\ wire[p][2] \in Nat
            /\ (wire[p][1] < c \/ (wire[p][1] = c /\ wire[p][2] < o + 1))
        BY <1>11, <3>1 DEF Before
      <4>3. Before(wire[p], <<c2, o2 + 1>>)
        BY <1>1, <1>2, <1>9, <3>0, <4>2, SMTT(30) DEF Before
      <4> QED
        BY <4>1, <4>3 DEF c2, o2
    <3>2. CASE p \in (L + 1)..(L + n)
      <4>1. wire'[p] = <<c, o + (p - L)>> /\ o + (p - L) <= o + n
        BY <1>1, <1>2, <1>8, <2>2, <3>2, SMTT(30)
      <4>2. Before(wire'[p], <<c2, o2 + 1>>)
        BY <1>1, <1>2, <1>9, <3>0, <3>2, <4>1 DEF Before
      <4> QED
        BY <4>2 DEF c2, o2
    <3> QED
      BY <1>1, <1>2, <3>1, <3>2
  <2> QED
    BY <1>1, <2>1, <2>2 DEF Ordered
<1>13. ASSUME NEW p \in 0..L
       PROVE  NextByte(p)' = NextByte(p)
  <2>1. p # 0 => wire'[p] = wire[p]
    BY <1>1
  <2> QED
    BY <1>3, <2>1 DEF NextByte
<1>14. ASSUME NEW p \in (L + 1)..(L + n), o + (p - L) <= data.size
       PROVE  NextByte(p)' = IF o + (p - L) < data.size
                             THEN <<c, o + (p - L) + 1>> ELSE <<c + 1, 1>>
  <2>1. wire'[p] = <<c, o + (p - L)>> /\ p # 0
    <3>1. wire'[p] = <<data.id, o + (p - L)>>
      BY <1>1, <1>14
    <3>2. p # 0
      BY <1>2
    <3> QED
      BY <1>4, <3>1, <3>2 DEF c
  <2>2. pushed'[c] = data
    BY <1>3, <1>4 DEF c
  <2>3. NextByte(p)' = IF wire'[p][2] < pushed'[wire'[p][1]].size
                       THEN <<wire'[p][1], wire'[p][2] + 1>>
                       ELSE <<wire'[p][1] + 1, 1>>
    BY <2>1 DEF NextByte
  <2>4. wire'[p][1] = c /\ wire'[p][2] = o + (p - L)
    BY <2>1
  <2> QED
    BY <2>2, <2>3, <2>4
<1>15. NextByte(L) = <<c, o + 1>>
  BY <1>0, <1>5 DEF Gapless, c
<1>16. ASSUME NEW p \in 1..(L + n), wire'[p] # Junk
       PROVE  wire'[p][1] \in 1..Len(pushed') /\ wire'[p] = NextByte(p - 1)'
  <2>1. CASE p \in 1..L
    <3>1. wire[p][1] \in 1..Len(pushed) /\ wire[p] = NextByte(p - 1)
      BY <1>0, <1>10, <2>1 DEF Gapless
    <3>2. p - 1 \in 0..L
      BY <1>2, <2>1
    <3>3. wire'[p] = wire[p]
      BY <1>1, <2>1
    <3> QED
      BY <1>3, <1>13, <3>1, <3>2, <3>3
  <2>2. CASE p \in (L + 1)..(L + n)
    <3>1. wire'[p] = <<c, o + (p - L)>> /\ o + (p - L) <= data.size
      BY <1>8, <1>16, <2>2
    <3>2. wire'[p][1] \in 1..Len(pushed')
      BY <1>3, <1>9, <3>1
    <3>3. CASE p = L + 1
      <4>1. p - 1 = L /\ p - L = 1 /\ L \in 0..L
        BY <1>2, <3>3
      <4>2. NextByte(p - 1)' = NextByte(L)
        BY <1>13, <4>1
      <4> QED
        BY <1>15, <3>1, <3>2, <4>1, <4>2
    <3>4. CASE p # L + 1
      <4> DEFINE q == p - 1
      <4>1. /\ q \in (L + 1)..(L + n) /\ o + (q - L) < data.size
            /\ o + (q - L) <= data.size
            /\ o + (q - L) + 1 = o + (p - L)
        <5>1. n \in Nat /\ o \in Nat /\ L \in Nat /\ data.size \in Nat
          BY <1>1, <1>2
        <5>2. p \in (L + 1)..(L + n) /\ o + (p - L) <= data.size
          BY <2>2, <3>1
        <5> HIDE DEF data, o, L
        <5> QED
          BY <3>4, <5>1, <5>2
      <4> HIDE DEF q
      <4>2. NextByte(q)' = <<c, o + (q - L) + 1>>
        BY <1>14, <4>1
      <4> QED
        BY <3>1, <3>2, <4>1, <4>2 DEF q
    <3> QED
      BY <3>3, <3>4
  <2> QED
    BY <1>1, <1>2, <2>1, <2>2
<1>17. ASSUME NEW p, p = L + n, Clean'
       PROVE  NextByte(p)' = <<Current', nSendOffset' + 1>>
  <2>1. p \in (L + 1)..(L + n) /\ p - L = n /\ p \in 1..(L + n)
    BY <1>1, <1>2, <1>17
  <2>2. wire'[p] # Junk
    BY <1>1, <1>17, <2>1 DEF Clean
  <2>3. o + n <= data.size
    BY <1>8, <2>1, <2>2
  <2>4. NextByte(p)' = IF o + n < data.size
                       THEN <<c, o + n + 1>> ELSE <<c + 1, 1>>
    <3> DEFINE k == p - L
    <3>1. k = n
      BY <2>1
    <3>2. o + k <= data.size
      BY <2>3, <3>1
    <3>3. NextByte(p)' = IF o + k < data.size
                         THEN <<c, o + k + 1>> ELSE <<c + 1, 1>>
      BY <1>14, <2>1, <3>2
    <3> HIDE DEF k
    <3> QED
      BY <3>1, <3>3
  <2>5. CASE o + n = data.size
    <3>1. Current' = c + 1 /\ nSendOffset' = 0
      BY <1>6, <2>5 DEF c
    <3> QED
      BY <1>2, <2>4, <2>5, <3>1
  <2>6. CASE o + n # data.size
    <3>1. Current' = c /\ nSendOffset' = o + n
      BY <1>6, <2>6 DEF c
    <3>2. o + n < data.size
      <4> HIDE DEF o, data
      <4> QED
        BY <1>1, <1>2, <2>3, <2>6, SMTT(30)
    <3> QED
      BY <2>4, <3>1, <3>2
  <2> QED
    BY <2>5, <2>6
<1>18. Gapless'
  <2>1. Len(wire') = L + n
    BY <1>1
  <2>2. \A p \in 1..Len(wire') :
          wire'[p] # Junk => /\ wire'[p][1] \in 1..Len(pushed')
                             /\ wire'[p] = NextByte(p - 1)'
    BY <1>16, <2>1
  <2>3. (Clean => NextByte(Len(wire)) = <<Current, nSendOffset + 1>>)'
    <3>1. PICK p : p = L + n
      OBVIOUS
    <3>2. Clean' => NextByte(p)' = <<Current', nSendOffset' + 1>>
      BY <1>17, <3>1
    <3>3. p = Len(wire')
      BY <2>1, <3>1
    <3> QED
      BY <3>2, <3>3 DEF NextByte
  <2> QED
    BY <2>2, <2>3 DEF Gapless
<1> QED
  BY <1>7, <1>12, <1>18 DEF StreamInv

\* So the order of the wire is an invariant of the sender.
LEMMA StreamInvStep ==
  ASSUME QueueInv, StreamInv, [Next]_vars
  PROVE  StreamInv'
<1>0. /\ Typed /\ Numbered /\ Len(pushed) \in Nat /\ Len(vSendMsg) \in Nat
      /\ vSendMsg \in Seq(MessageType) /\ pushed \in Seq(MessageType)
  BY DEF QueueInv, Typed, StreamInv
<1>1. ASSUME NEW size \in Size, PushMessage(size)
      PROVE  StreamInv'
  <2> DEFINE m == [id |-> Len(pushed) + 1, size |-> size]
  <2>1. m \in MessageType
    BY <1>0, SendAssumption DEF MessageType
  <2>2. /\ vSendMsg' = Append(vSendMsg, m) /\ pushed' = Append(pushed, m)
        /\ UNCHANGED <<wire, nSendOffset>> /\ it = 0 /\ it' = 0
    BY <1>1 DEF PushMessage
  <2>3. m.id = Len(pushed) + 1
    OBVIOUS
  <2> HIDE DEF m
  <2>4. /\ Len(vSendMsg') = Len(vSendMsg) + 1
        /\ Len(pushed') = Len(pushed) + 1
        /\ \A i \in 1..Len(vSendMsg) : vSendMsg'[i] = vSendMsg[i]
        /\ vSendMsg'[Len(vSendMsg) + 1] = m
        /\ \A i \in 1..Len(pushed) : pushed'[i] = pushed[i]
        /\ pushed'[Len(pushed) + 1] = m
    BY <1>0, <2>1, <2>2, AppendProperties
  <2>5. ASSUME NEW i \in 1..Len(vSendMsg')
        PROVE  vSendMsg'[i] = pushed'[Len(pushed') - Len(vSendMsg') + i]
    <3>1. CASE i \in 1..Len(vSendMsg)
      <4> DEFINE k == Len(pushed) - Len(vSendMsg) + i
      <4>1. k \in 1..Len(pushed) /\ Len(pushed') - Len(vSendMsg') + i = k
        BY <1>0, <2>4, <3>1 DEF Numbered
      <4>2. vSendMsg[i] = pushed[k]
        BY <1>0, <3>1 DEF Numbered
      <4> HIDE DEF k
      <4> QED
        BY <2>4, <3>1, <4>1, <4>2
    <3>2. CASE i = Len(vSendMsg) + 1
      <4>1. Len(pushed') - Len(vSendMsg') + i = Len(pushed) + 1
        BY <1>0, <2>4, <3>2
      <4> QED
        BY <2>4, <3>2, <4>1
    <3> QED
      BY <1>0, <2>4, <3>1, <3>2
  <2>6. ASSUME NEW i \in 1..Len(pushed')
        PROVE  pushed'[i].id = i
    <3>1. CASE i \in 1..Len(pushed)
      BY <1>0, <2>4, <3>1 DEF Numbered
    <3>2. CASE i = Len(pushed) + 1
      BY <2>3, <2>4, <3>2
    <3> QED
      BY <1>0, <2>4, <3>1, <3>2
  <2>7. Len(vSendMsg') <= Len(pushed')
    BY <1>0, <2>4 DEF Numbered
  <2>8. Numbered'
    BY <2>5, <2>6, <2>7 DEF Numbered
  <2>9. Current' = Current
    BY <1>0, <2>2, <2>4 DEF Current
  <2> QED
    BY <2>1, <2>2, <2>8, <2>9, StreamInvQuiet
<1>2. ASSUME vSendMsg' = vSendMsg, pushed' = pushed,
             UNCHANGED <<wire, nSendOffset>>, it' = it \/ (it = 0 /\ it' = 1)
      PROVE  StreamInv'
  <2>1. Numbered'
    BY <1>0, <1>2 DEF Numbered
  <2>2. Current' = Current
    BY <1>2 DEF Current
  <2> QED
    BY <1>2, <2>1, <2>2, StreamInvQuiet
<1>3. CASE Call
  BY <1>2, <1>3 DEF Call
<1>4. ASSUME NEW n, Send(n)
      PROVE  StreamInv'
  BY <1>4, StreamInvSend
<1>5. CASE Abort
  BY <1>2, <1>5 DEF Abort
<1>6. CASE EndCall
  <2>1. /\ it = Len(vSendMsg) + 1 /\ it' = 0 /\ pushed' = pushed
        /\ vSendMsg' = SubSeq(vSendMsg, it, Len(vSendMsg))
        /\ UNCHANGED <<wire, nSendOffset>>
    BY <1>6 DEF EndCall, Return
  <2>2. Len(vSendMsg') = 0
    BY <1>0, <2>1
  <2>3. Numbered'
    BY <1>0, <2>1, <2>2 DEF Numbered
  <2>4. Current' = Current
    BY <1>0, <2>1, <2>2 DEF Current
  <2> QED
    BY <2>1, <2>3, <2>4, StreamInvQuiet
<1>7. CASE UNCHANGED vars
  BY <1>2, <1>7 DEF vars
<1> QED
  BY <1>1, <1>3, <1>4, <1>5, <1>6, <1>7 DEF Next

-----------------------------------------------------------------------------
(***************************************************************************)
(* The parser, on bytes of which it is only known that they are such.      *)
(***************************************************************************)
\* Every set of numbers has a least one.
LEMMA LeastNumber ==
  ASSUME NEW S \in SUBSET Nat, S # {}
  PROVE  \E x \in S : \A y \in S : x <= y
<1>1. \E x \in S : \A y \in S : ~ (<<y, x>> \in OpToRel(<, Nat))
  BY WFMin, NatLessThanWellFounded
<1>2. PICK x \in S : \A y \in S : ~ (<<y, x>> \in OpToRel(<, Nat))
  BY <1>1
<1>3. \A y \in S : ~ (y < x)
  BY <1>2 DEF OpToRel
<1> QED
  BY <1>3

\* Which Min chooses.
LEMMA MinIs ==
  ASSUME NEW S \in SUBSET Nat, S # {}
  PROVE  Min(S) \in S /\ \A y \in S : Min(S) <= y
  BY LeastNumber DEF Min

\* A set of numbers up to n has a greatest one, which Max chooses.
LEMMA MaxIs ==
  ASSUME NEW n \in Nat, NEW S \in SUBSET (0..n), S # {}
  PROVE  Max(S) \in S /\ \A y \in S : y <= Max(S)
<1> DEFINE T == {m \in Nat : \A y \in S : y <= m}
<1>1. T \in SUBSET Nat /\ n \in T
  OBVIOUS
<1>2. PICK x \in T : \A y \in T : x <= y
  BY <1>1, LeastNumber
<1>3. x \in S
  <2> SUFFICES ASSUME x \notin S PROVE FALSE
    OBVIOUS
  <2>1. x \in Nat /\ \A y \in S : y < x
    OBVIOUS
  <2>2. x - 1 \in Nat
    <3>1. PICK y \in S : TRUE
      OBVIOUS
    <3>2. y \in Nat /\ y < x
      BY <2>1, <3>1
    <3> QED
      BY <2>1, <3>2
  <2>3. x - 1 \in T
    BY <2>1, <2>2
  <2> QED
    BY <1>2, <2>1, <2>3
<1>4. \A y \in S : x >= y
  BY <1>3
<1>5. \E z \in S : \A y \in S : z >= y
  BY <1>3, <1>4
<1> QED
  BY <1>5 DEF Max

\* The place of the last byte is one of the places, or 0.
LEMMA LastPlaceIs ==
  ASSUME NEW n \in Nat, NEW places \in SUBSET (1..n)
  PROVE  /\ places = {} => LastPlace(places) = 0
         /\ places # {} => /\ LastPlace(places) \in places
                           /\ LastPlace(places) # 0
                           /\ \A i \in places : i <= LastPlace(places)
<1> DEFINE S == places \cup {0}
<1>1. S \in SUBSET (0..n) /\ S # {}
  OBVIOUS
<1>2. Max(S) \in S /\ \A y \in S : y <= Max(S)
  BY <1>1, MaxIs
<1>3. LastPlace(places) = Max(S)
  BY DEF LastPlace
<1> HIDE DEF S
<1>4. 0 \in S /\ (\A i \in places : i \in S /\ i \in Nat /\ i > 0)
      /\ \A i \in S : i \in places \/ i = 0
  BY DEF S
<1>5. CASE places = {}
  BY <1>2, <1>3, <1>4, <1>5
<1>6. CASE places # {}
  <2>1. PICK i \in places : TRUE
    BY <1>6
  <2>2. i <= Max(S) /\ i > 0 /\ i \in Nat
    BY <1>2, <1>4
  <2>3. Max(S) # 0
    BY <2>2
  <2> QED
    BY <1>2, <1>3, <1>4, <1>6, <2>3
<1> QED
  BY <1>5, <1>6

\* What a message may hold once it is parsed.
Parsed == [command : Nat, data : SUBSET (Nat \X Nat)]

\* Its command, if it has one, is one in bytes, and its data come from them.
FromHeader(msg, bytes) ==
  /\ msg \in Parsed
  /\ \/ msg.command = NoCommand
     \/ \E j \in 1..Len(bytes) : bytes[j] = <<msg.command, 1>>
  /\ \A b \in msg.data : \E j \in 1..Len(bytes) : bytes[j] = b

\* The parser sees the first bytes of the chunk, and no junk.
LEMMA ParsableIs ==
  ASSUME NEW chunk \in Seq(Byte)
  PROVE  /\ Parsable(chunk) \in Seq(Nat \X Nat)
         /\ Len(Parsable(chunk)) <= Len(chunk)
         /\ \A j \in 1..Len(Parsable(chunk)) : Parsable(chunk)[j] = chunk[j]
         /\ (\A j \in 1..Len(chunk) : chunk[j] # Junk)
              => Parsable(chunk) = chunk
<1> DEFINE S == {j \in DOMAIN chunk : chunk[j] = Junk} \cup {Len(chunk) + 1}
           n == Min(S) - 1
           bytes == SubSeq(chunk, 1, n)
<1>1. Len(chunk) \in Nat /\ DOMAIN chunk = 1..Len(chunk)
  OBVIOUS
<1>2. S \in SUBSET Nat /\ S # {}
  BY <1>1
<1>3. Min(S) \in S /\ \A y \in S : Min(S) <= y
  BY <1>2, MinIs
<1>4. n \in 0..Len(chunk)
  <2>1. \A y \in S : y \in 1..(Len(chunk) + 1)
    BY <1>1
  <2> HIDE DEF S
  <2> QED
    BY <1>1, <1>3, <2>1
<1>5. \A j \in 1..n : chunk[j] # Junk
  <2> SUFFICES ASSUME NEW j \in 1..n, chunk[j] = Junk PROVE FALSE
    OBVIOUS
  <2>1. j \in S
    BY <1>1, <1>4
  <2>2. Min(S) <= j /\ Min(S) \in Nat
    BY <1>2, <1>3, <2>1
  <2> HIDE DEF S
  <2> QED
    BY <2>2
<1>6. Parsable(chunk) = bytes
  BY DEF Parsable
<1> HIDE DEF n, S
<1>7. /\ bytes \in Seq(Byte) /\ Len(bytes) = n
      /\ \A j \in 1..n : bytes[j] = chunk[j]
  BY <1>1, <1>4
<1>8. \A j \in 1..n : bytes[j] \in Nat \X Nat
  BY <1>1, <1>4, <1>5, <1>7 DEF Byte
<1>9. bytes \in Seq(Nat \X Nat)
  <2>1. bytes = [j \in 1..n |-> bytes[j]]
    BY <1>7
  <2> HIDE DEF bytes
  <2> QED
    BY <1>4, <1>8, <2>1, SMTT(30)
<1>10. ASSUME \A j \in 1..Len(chunk) : chunk[j] # Junk
       PROVE  bytes = chunk
  <2>1. S = {Len(chunk) + 1}
    BY <1>1, <1>10 DEF S
  <2>2. n = Len(chunk)
    BY <1>1, <1>3, <2>1 DEF n
  <2> QED
    BY <1>1, <2>2
<1> HIDE DEF bytes
<1>11. Len(bytes) <= Len(chunk) /\ \A j \in 1..Len(bytes) : bytes[j] = chunk[j]
  BY <1>1, <1>4, <1>7
<1> QED
  BY <1>6, <1>9, <1>10, <1>11

\* The command in the fields is that of the last header in bytes.
LEMMA FieldsFromHeader ==
  ASSUME NEW bytes \in Seq(Nat \X Nat)
  PROVE  FromHeader(Fields(bytes), bytes)
<1> DEFINE headers == {j \in DOMAIN bytes : HasCommand(bytes[j])}
           header == LastPlace(headers)
           start == LastPlace({j \in DOMAIN bytes : StartsData(bytes[j])})
           data == {bytes[j] : j \in {i \in DOMAIN bytes :
                                        i > start /\ IsContent(bytes[i])}}
           command == IF header = 0 THEN NoCommand ELSE Message(bytes[header])
<1>1. Len(bytes) \in Nat /\ DOMAIN bytes = 1..Len(bytes)
      /\ \A j \in 1..Len(bytes) : bytes[j] \in Nat \X Nat
  OBVIOUS
<1>2. Fields(bytes) = [command |-> command, data |-> data]
  BY DEF Fields
<1> HIDE DEF start
<1>3. /\ data \in SUBSET (Nat \X Nat)
      /\ \A b \in data : \E j \in 1..Len(bytes) : bytes[j] = b
  BY <1>1
<1>4. command \in Nat
      /\ \/ command = NoCommand
         \/ \E j \in 1..Len(bytes) : bytes[j] = <<command, 1>>
  <2>1. CASE header = 0
    BY <2>1 DEF NoCommand
  <2>2. CASE header # 0
    <3>1. headers \in SUBSET (1..Len(bytes))
      BY <1>1
    <3>2. header \in headers
      <4> HIDE DEF headers
      <4> QED
        BY <1>1, <2>2, <3>1, LastPlaceIs
    <3>3. header \in 1..Len(bytes) /\ HasCommand(bytes[header])
      BY <1>1, <3>2
    <3>4. bytes[header] \in Nat \X Nat /\ bytes[header][2] = 1
      BY <1>1, <3>3 DEF HasCommand
    <3>5. command = bytes[header][1]
      BY <2>2 DEF Message
    <3>6. bytes[header] = <<command, 1>> /\ command \in Nat
      <4> HIDE DEF header, command
      <4> QED
        BY <3>4, <3>5
    <3> QED
      BY <3>3, <3>6
  <2> QED
    BY <2>1, <2>2
<1> HIDE DEF command, data
<1>5. Fields(bytes).command = command /\ Fields(bytes).data = data
  BY <1>2
<1>6. Fields(bytes) \in Parsed
  BY <1>2, <1>3, <1>4 DEF Parsed
<1> QED
  BY <1>3, <1>4, <1>5, <1>6 DEF FromHeader

\* Nor do the fields in a part of bytes invent one.
LEMMA PartFromHeader ==
  ASSUME NEW bytes \in Seq(Nat \X Nat), NEW i \in 1..Len(bytes),
         NEW n \in {Len(bytes) - 1, Len(bytes)}
  PROVE  FromHeader(Fields(SubSeq(bytes, i, n)), bytes)
<1> DEFINE part == SubSeq(bytes, i, n)
           msg == Fields(part)
<1>0. Len(bytes) \in Nat /\ n \in Nat /\ n <= Len(bytes) /\ i <= n + 1
  OBVIOUS
<1>1. /\ part \in Seq(Nat \X Nat) /\ Len(part) = n - i + 1
      /\ \A j \in 1..(n - i + 1) : part[j] = bytes[i + j - 1]
  <2>1. part \in Seq(Nat \X Nat)
    BY <1>0
  <2>2. Len(part) = n - i + 1
    BY <1>0
  <2>3. \A j \in 1..(n - i + 1) : part[j] = bytes[i + j - 1]
    BY <1>0
  <2> QED
    BY <2>1, <2>2, <2>3
<1> HIDE DEF part
<1>2. FromHeader(msg, part)
  BY <1>1, FieldsFromHeader
<1> HIDE DEF msg
<1>3. \A j \in 1..Len(part) :
        i + j - 1 \in 1..Len(bytes) /\ bytes[i + j - 1] = part[j]
  <2> HIDE DEF part
  <2> SUFFICES ASSUME NEW j \in 1..Len(part)
               PROVE  /\ i + j - 1 \in 1..Len(bytes)
                      /\ bytes[i + j - 1] = part[j]
    OBVIOUS
  <2>1. j \in 1..(n - i + 1)
    BY <1>1
  <2>2. i \in Nat /\ i >= 1 /\ j \in Nat /\ j >= 1 /\ j <= n - i + 1
    BY <1>0, <2>1
  <2>3. i + j - 1 \in 1..Len(bytes)
    BY <1>0, <2>2
  <2> QED
    BY <1>1, <2>1, <2>3
<1>4. \A b : (\E j \in 1..Len(part) : part[j] = b)
              => \E l \in 1..Len(bytes) : bytes[l] = b
  BY <1>3
<1>5. FromHeader(msg, bytes)
  BY <1>2, <1>4 DEF FromHeader
<1> QED
  BY <1>5 DEF msg, part

\* Nor does a field that is cut.
LEMMA ParsedFromHeader ==
  ASSUME NEW bytes \in Seq(Nat \X Nat), NEW i \in 1..Len(bytes),
         NEW msg \in ParsedFrom(bytes, i)
  PROVE  FromHeader(msg, bytes)
<1> DEFINE whole == Fields(SubSeq(bytes, i, Len(bytes)))
           short == Fields(SubSeq(bytes, i, Len(bytes) - 1))
<1>1. FromHeader(whole, bytes) /\ FromHeader(short, bytes)
  BY PartFromHeader
<1>2. \/ msg = whole \/ msg = short
      \/ msg = [short EXCEPT !.command = NoCommand]
  BY DEF ParsedFrom
<1> HIDE DEF whole, short
<1>3. CASE msg = [short EXCEPT !.command = NoCommand]
  BY <1>1, <1>3 DEF FromHeader, Parsed, NoCommand
<1> QED
  BY <1>1, <1>2, <1>3

\* So it is with what unserializer leaves in the message.
LEMMA UnserializedFromHeader ==
  ASSUME NEW chunk \in Seq(Byte), NEW msg \in unserializer(chunk)
  PROVE  FromHeader(msg, chunk)
<1> DEFINE bytes == Parsable(chunk)
           starts == {j \in DOMAIN bytes : StartsField(bytes[j])}
<1>1. /\ bytes \in Seq(Nat \X Nat) /\ Len(bytes) <= Len(chunk)
      /\ \A j \in 1..Len(bytes) : bytes[j] = chunk[j]
  BY ParsableIs
<1>2. msg = Nothing \/ \E i \in starts : msg \in ParsedFrom(bytes, i)
  BY DEF unserializer
<1>3. starts \subseteq 1..Len(bytes)
  <2> HIDE DEF bytes
  <2> QED
    BY <1>1
<1> HIDE DEF bytes, starts
<1>4. CASE msg = Nothing
  BY <1>4 DEF Nothing, FromHeader, Parsed, NoCommand
<1>5. ASSUME NEW i \in starts, msg \in ParsedFrom(bytes, i)
      PROVE  FromHeader(msg, chunk)
  <2>1. FromHeader(msg, bytes)
    BY <1>1, <1>3, <1>5, ParsedFromHeader
  <2>2. \A j \in 1..Len(bytes) : j \in 1..Len(chunk)
    BY <1>1
  <2> QED
    BY <1>1, <2>1, <2>2 DEF FromHeader
<1> QED
  BY <1>2, <1>4, <1>5

-----------------------------------------------------------------------------
(***************************************************************************)
(* ProcessMessages: f[i] is what it acts on among the first i messages.    *)
(***************************************************************************)
Acts(f, msgs, n) ==
  f = [i \in 0..n |-> IF i = 0 THEN << >>
                      ELSE IF msgs[i].command = NoCommand THEN f[i - 1]
                      ELSE Append(f[i - 1], msgs[i])]

\* The recursion has a solution,
LEMMA ActsExists ==
  ASSUME NEW S, NEW msgs \in Seq(S)
  PROVE  \E f : Acts(f, msgs, Len(msgs)) /\ f \in [0..Len(msgs) -> Seq(S)]
<1> DEFINE n == Len(msgs)
           G == [p \in (1..n) \X Seq(S) |->
                   IF msgs[p[1]].command = NoCommand THEN p[2]
                   ELSE Append(p[2], msgs[p[1]])]
<1>1. n \in Nat /\ << >> \in Seq(S)
  OBVIOUS
<1>2. G \in [(1..n) \X Seq(S) -> Seq(S)]
  <2>1. ASSUME NEW p \in (1..n) \X Seq(S)
        PROVE  (IF msgs[p[1]].command = NoCommand THEN p[2]
                ELSE Append(p[2], msgs[p[1]])) \in Seq(S)
    <3>1. msgs[p[1]] \in S /\ p[2] \in Seq(S)
      OBVIOUS
    <3> QED
      BY <3>1, AppendProperties
  <2> QED
    BY <2>1
<1>3. \A i \in 1..n : \A x \in Seq(S) :
        G[<<i, x>>] = IF msgs[i].command = NoCommand THEN x
                      ELSE Append(x, msgs[i])
  OBVIOUS
<1> HIDE DEF G, n
<1>4. PICK f : Recurs(f, << >>, G, Seq(S), n)
  BY <1>1, <1>2, Recursion
<1> DEFINE h == [i \in 0..n |-> IF i = 0 THEN << >>
                      ELSE IF msgs[i].command = NoCommand THEN f[i - 1]
                      ELSE Append(f[i - 1], msgs[i])]
<1>5. ASSUME NEW i \in 0..n
      PROVE  f[i] = h[i]
  <2>1. CASE i = 0
    BY <1>4, <2>1 DEF Recurs
  <2>2. CASE i # 0
    <3>1. i \in 1..n /\ i - 1 \in 0..n
      BY <1>1, <2>2
    <3>2. f[i - 1] \in Seq(S) /\ f[i] = G[<<i, f[i - 1]>>]
      BY <1>4, <3>1 DEF Recurs
    <3>3. f[i] = IF msgs[i].command = NoCommand THEN f[i - 1]
                 ELSE Append(f[i - 1], msgs[i])
      BY <1>3, <3>1, <3>2
    <3> QED
      BY <2>2, <3>3
  <2> QED
    BY <2>1, <2>2
<1>6. f \in [0..n -> Seq(S)]
  BY <1>4 DEF Recurs
<1>7. f = h
  BY <1>5, <1>6
<1> QED
  BY <1>6, <1>7 DEF Acts, n

\* and only one, whose first n values depend on the first n messages.
LEMMA ActsUnique ==
  ASSUME NEW msgs, NEW other, NEW n \in Nat, NEW m \in Nat, n <= m,
         NEW f, NEW g, Acts(f, msgs, n), Acts(g, other, m),
         \A i \in 1..n : msgs[i] = other[i]
  PROVE  \A i \in 0..n : f[i] = g[i]
<1> DEFINE S == {k \in Nat : k <= n => f[k] = g[k]}
<1>1. 0 \in S
  BY DEF Acts
<1>2. \A k \in Nat : k \in S => k + 1 \in S
  <2> SUFFICES ASSUME NEW k \in Nat, k \in S, k + 1 <= n
               PROVE  f[k + 1] = g[k + 1]
    OBVIOUS
  <2>1. f[k] = g[k]
    OBVIOUS
  <2>2. k + 1 \in 1..n /\ k + 1 # 0 /\ (k + 1) - 1 = k
        /\ k + 1 \in 0..n /\ k + 1 \in 0..m
    OBVIOUS
  <2>3. f[k + 1] = IF msgs[k + 1].command = NoCommand THEN f[k]
                   ELSE Append(f[k], msgs[k + 1])
    BY <2>2 DEF Acts
  <2>4. g[k + 1] = IF other[k + 1].command = NoCommand THEN g[k]
                   ELSE Append(g[k], other[k + 1])
    BY <2>2 DEF Acts
  <2> QED
    BY <2>1, <2>2, <2>3, <2>4
<1>3. Nat \subseteq S
  <2> HIDE DEF S
  <2> QED
    BY <1>1, <1>2, SetInduction
<1> QED
  BY <1>3

\* Acted is its last value.
LEMMA ActedIs ==
  ASSUME NEW S, NEW msgs \in Seq(S)
  PROVE  \E f : /\ Acts(f, msgs, Len(msgs))
                /\ f \in [0..Len(msgs) -> Seq(S)]
                /\ Acted(msgs) = f[Len(msgs)]
<1> DEFINE n == Len(msgs)
           g == CHOOSE f :
                  f = [i \in 0..n |->
                         IF i = 0 THEN << >>
                         ELSE IF msgs[i].command = NoCommand THEN f[i - 1]
                         ELSE Append(f[i - 1], msgs[i])]
<1>1. PICK f : Acts(f, msgs, n) /\ f \in [0..n -> Seq(S)]
  BY ActsExists
<1>2. Acts(g, msgs, n)
  BY <1>1, Zenon DEF Acts
<1>3. Acted(msgs) = g[n]
  BY Zenon DEF Acted
<1> HIDE DEF g
<1>4. n \in Nat /\ n <= n
  OBVIOUS
<1>5. \A i \in 0..n : f[i] = g[i]
  BY <1>1, <1>2, <1>4, ActsUnique
<1>6. f[n] = g[n]
  BY <1>4, <1>5
<1> QED
  BY <1>1, <1>3, <1>6

\* It acts on messages,
LEMMA ActedType ==
  ASSUME NEW S, NEW msgs \in Seq(S)
  PROVE  Acted(msgs) \in Seq(S)
<1>1. PICK f : /\ f \in [0..Len(msgs) -> Seq(S)]
               /\ Acted(msgs) = f[Len(msgs)]
  BY ActedIs
<1>2. Len(msgs) \in 0..Len(msgs)
  OBVIOUS
<1> QED
  BY <1>1, <1>2

\* on none if there is none,
LEMMA ActedNothing == Acted(<< >>) = << >>
<1> DEFINE none == << >>
<1>1. none \in Seq({}) /\ Len(none) = 0
  OBVIOUS
<1> HIDE DEF none
<1>2. PICK f : Acts(f, none, Len(none)) /\ Acted(none) = f[Len(none)]
  BY <1>1, ActedIs
<1>3. f[0] = << >>
  BY <1>1, <1>2 DEF Acts
<1> QED
  BY <1>1, <1>2, <1>3 DEF none

\* and on one more at the end if it knows the command.
LEMMA ActedAppend ==
  ASSUME NEW S, NEW msgs \in Seq(S), NEW msg \in S
  PROVE  Acted(Append(msgs, msg)) =
           IF msg.command = NoCommand THEN Acted(msgs)
           ELSE Append(Acted(msgs), msg)
<1> DEFINE n == Len(msgs)
           longer == Append(msgs, msg)
           m == n + 1
<1>1. /\ n \in Nat /\ m \in Nat /\ n <= m /\ m # 0 /\ m - 1 = n
      /\ longer \in Seq(S) /\ Len(longer) = m
      /\ \A i \in 1..n : msgs[i] = longer[i]
      /\ longer[m] = msg
  BY AppendProperties
<1> HIDE DEF longer
<1>2. PICK f : Acts(f, msgs, n) /\ Acted(msgs) = f[n]
  BY ActedIs
<1>3. PICK g : Acts(g, longer, Len(longer)) /\ Acted(longer) = g[Len(longer)]
  BY <1>1, ActedIs
<1>4. Acts(g, longer, m) /\ Acted(longer) = g[m]
  BY <1>1, <1>3
<1> HIDE DEF n, m
<1>5. f[n] = g[n]
  <2>1. \A i \in 0..n : f[i] = g[i]
    BY <1>1, <1>2, <1>4, ActsUnique
  <2> QED
    BY <1>1, <2>1
<1>6. g[m] = IF longer[m].command = NoCommand THEN g[m - 1]
             ELSE Append(g[m - 1], longer[m])
  <2>1. m \in 0..m /\ m # 0
    BY <1>1
  <2> QED
    BY <1>4, <2>1 DEF Acts
<1> QED
  BY <1>1, <1>2, <1>4, <1>5, <1>6 DEF longer

-----------------------------------------------------------------------------
(***************************************************************************)
(* The receiver: what it was delivered comes from the bytes it has taken,  *)
(* in their order.                                                         *)
(***************************************************************************)
RecvTyped ==
  /\ received \in 0..Len(wire)
  /\ vRecvMsg \in Seq(Parsed)
  /\ handled \in Seq(Parsed)

\* Each command, and the data acted on with it, are bytes that were taken.
Behind ==
  \A i \in 1..Len(Delivered) :
    /\ \E k \in 1..received : wire[k] = <<Delivered[i].command, 1>>
    /\ \A b \in Delivered[i].data : \E k \in 1..received : wire[k] = b

OrderInv == RecvTyped /\ Behind /\ InOrder

\* What is delivered are messages.
LEMMA DeliveredType ==
  ASSUME RecvTyped
  PROVE  Delivered \in Seq(Parsed)
<1>1. handled \in Seq(Parsed) /\ Acted(vRecvMsg) \in Seq(Parsed)
  BY ActedType DEF RecvTyped
<1> QED
  BY <1>1 DEF Delivered

\* The sender takes nothing back.
LEMMA SenderGrows ==
  ASSUME Typed, [Next]_vars
  PROVE  /\ Len(wire) <= Len(wire') /\ Len(wire') \in Nat
         /\ \A p \in 1..Len(wire) : wire'[p] = wire[p]
         /\ \/ pushed' = pushed
            \/ \E m \in MessageType :
                 m.size \in Size /\ pushed' = Append(pushed, m)
<1>0. Len(wire) \in Nat /\ Len(pushed) \in Nat
  BY DEF Typed
<1>1. ASSUME NEW n, Send(n)
      PROVE  /\ Len(wire) <= Len(wire') /\ Len(wire') \in Nat
             /\ \A p \in 1..Len(wire) : wire'[p] = wire[p]
             /\ pushed' = pushed
  <2>1. /\ n \in Nat \ {0} /\ Len(wire') = Len(wire) + n
        /\ \A p \in 1..Len(wire) : wire'[p] = wire[p]
    BY <1>1, SendWrites
  <2> QED
    BY <1>0, <1>1, <2>1 DEF Send
<1>2. ASSUME NEW size \in Size, PushMessage(size)
      PROVE  /\ wire' = wire
             /\ \E m \in MessageType :
                  m.size \in Size /\ pushed' = Append(pushed, m)
  <2> DEFINE m == [id |-> Len(pushed) + 1, size |-> size]
  <2>1. m \in MessageType /\ m.size \in Size
    BY <1>0, SendAssumption DEF MessageType
  <2>2. wire' = wire /\ pushed' = Append(pushed, m)
    BY <1>2 DEF PushMessage
  <2> HIDE DEF m
  <2> QED
    BY <2>1, <2>2
<1>3. CASE Call \/ Abort \/ EndCall \/ UNCHANGED vars
  BY <1>0, <1>3 DEF Call, Abort, EndCall, Return, vars
<1> QED
  BY <1>0, <1>1, <1>2, <1>3 DEF Next

\* A chunk that is a message does not begin with '{'.
LEMMA MessageIsNotBrace ==
  ASSUME Typed, Numbered, NEW chunk, IsMessage(chunk)
  PROVE  ~ MayBeBrace(chunk)
<1>1. PICK i \in DOMAIN pushed :
        chunk = Bytes(pushed[i], 0, pushed[i].size)
  BY DEF IsMessage
<1>2. /\ pushed[i] \in MessageType /\ 1 \in 1..pushed[i].size
      /\ 0 + 1 <= pushed[i].size
  <2>1. pushed[i] \in MessageType
    BY DEF Typed
  <2>2. pushed[i].size \in Nat \ {0}
    BY <2>1 DEF MessageType
  <2> QED
    BY <2>1, <2>2
<1>3. chunk[1] = <<pushed[i].id, 1>>
  <2>1. chunk[1] = IF 0 + 1 <= pushed[i].size
                   THEN <<pushed[i].id, 0 + 1>> ELSE Junk
    BY <1>1, <1>2, ByteAt
  <2> QED
    BY <1>2, <2>1
<1>4. chunk[1] # Junk
  BY <1>2, <1>3, SendAssumption DEF MessageType
<1> QED
  BY <1>3, <1>4 DEF MayBeBrace, StartsField, HasCommand

\* A recv takes the bytes behind those taken, and delivers what it makes of
\* them if that has a command.
LEMMA RecvDelivers ==
  ASSUME Typed, Numbered, RecvTyped, NEW n \in 1..MaxRecv, SocketRecvData(n)
  PROVE  \E chunk \in Seq(Byte) : \E msg \in Parsed :
           /\ chunk = SubSeq(wire, received + 1, received + n)
           /\ Len(chunk) = n
           /\ \A j \in 1..n : chunk[j] = wire[received + j]
           /\ n \in Nat \ {0} /\ received + n <= Len(wire)
           /\ received' = received + n /\ wire' = wire /\ pushed' = pushed
           /\ paced' = (paced /\ IsMessage(chunk))
           /\ vRecvMsg' \in Seq(Parsed) /\ handled' = handled
           /\ FromHeader(msg, chunk)
           /\ IsMessage(chunk) => msg \in unserializer(chunk)
           /\ Delivered' = IF msg.command = NoCommand THEN Delivered
                           ELSE Append(Delivered, msg)
<1> DEFINE chunk == SubSeq(wire, received + 1, received + n)
<1>1. /\ n \in Nat \ {0} /\ received \in Nat /\ received + n <= Len(wire)
      /\ wire \in Seq(Byte) /\ Len(wire) \in Nat
  BY ChannelAssumption DEF RecvTyped, Typed, SocketRecvData
<1>2. /\ chunk \in Seq(Byte) /\ Len(chunk) = n
      /\ \A j \in 1..n : chunk[j] = wire[received + j]
  BY <1>1
<1>3. /\ \/ \E msg \in unserializer(chunk) : vRecvMsg' = Append(vRecvMsg, msg)
         \/ MayBeBrace(chunk) /\ vRecvMsg' = vRecvMsg
      /\ received' = received + n /\ wire' = wire /\ pushed' = pushed
      /\ paced' = (paced /\ IsMessage(chunk)) /\ handled' = handled
  BY DEF SocketRecvData, Taken, vars
<1> HIDE DEF chunk
<1>4. ASSUME NEW msg \in unserializer(chunk),
             vRecvMsg' = Append(vRecvMsg, msg)
      PROVE  /\ FromHeader(msg, chunk) /\ vRecvMsg' \in Seq(Parsed)
             /\ Delivered' = IF msg.command = NoCommand THEN Delivered
                             ELSE Append(Delivered, msg)
  <2>0. FromHeader(msg, chunk)
    BY <1>2, UnserializedFromHeader
  <2>1. /\ msg \in Parsed /\ vRecvMsg \in Seq(Parsed)
        /\ handled \in Seq(Parsed)
    BY <2>0 DEF FromHeader, RecvTyped
  <2> DEFINE acted == Acted(vRecvMsg)
  <2>2. acted \in Seq(Parsed)
    BY <2>1, ActedType
  <2>3. Acted(Append(vRecvMsg, msg)) = IF msg.command = NoCommand THEN acted
                                       ELSE Append(acted, msg)
    BY <2>1, ActedAppend
  <2>4. Delivered' = handled \o Acted(Append(vRecvMsg, msg))
    BY <1>3, <1>4 DEF Delivered
  <2>5. Delivered = handled \o acted
    BY DEF Delivered
  <2> HIDE DEF acted
  <2>6. handled \o Append(acted, msg) = Append(handled \o acted, msg)
    BY <2>1, <2>2
  <2>7. vRecvMsg' \in Seq(Parsed)
    BY <1>4, <2>1
  <2> QED
    BY <2>0, <2>3, <2>4, <2>5, <2>6, <2>7
<1>5. CASE MayBeBrace(chunk) /\ vRecvMsg' = vRecvMsg
  <2>1. ~ IsMessage(chunk)
    BY <1>5, MessageIsNotBrace
  <2>2. FromHeader(Nothing, chunk) /\ Nothing \in Parsed
        /\ Nothing.command = NoCommand
    BY DEF Nothing, FromHeader, Parsed, NoCommand
  <2>3. Delivered' = Delivered /\ vRecvMsg' \in Seq(Parsed)
    BY <1>3, <1>5 DEF Delivered, RecvTyped
  <2>4. chunk = SubSeq(wire, received + 1, received + n)
    BY DEF chunk
  <2> HIDE DEF Nothing
  <2> QED
    BY <1>1, <1>2, <1>3, <2>1, <2>2, <2>3, <2>4
<1>6. chunk = SubSeq(wire, received + 1, received + n)
  BY DEF chunk
<1>7. ASSUME NEW msg \in unserializer(chunk),
             vRecvMsg' = Append(vRecvMsg, msg)
      PROVE  msg \in Parsed
  BY <1>4, <1>7 DEF FromHeader
<1> QED
  BY <1>1, <1>2, <1>3, <1>4, <1>5, <1>6, <1>7

\* Each step of the channel keeps what is delivered in order.
LEMMA OrderInvStep ==
  ASSUME QueueInv, StreamInv, OrderInv, [ChannelNext]_cvars
  PROVE  OrderInv'
<1>0. /\ Typed /\ Numbered /\ RecvTyped /\ Behind /\ InOrder
      /\ received \in Nat /\ Len(wire) \in Nat /\ received <= Len(wire)
      /\ Delivered \in Seq(Parsed)
  BY DeliveredType DEF QueueInv, StreamInv, OrderInv, RecvTyped, Typed
<1>1. ASSUME [Next]_vars, UNCHANGED receiverVars
      PROVE  OrderInv'
  <2>1. /\ Len(wire) <= Len(wire') /\ Len(wire') \in Nat
        /\ \A p \in 1..Len(wire) : wire'[p] = wire[p]
    BY <1>0, <1>1, SenderGrows
  <2>2. /\ received' = received /\ vRecvMsg' = vRecvMsg /\ handled' = handled
        /\ Delivered' = Delivered
    BY <1>1 DEF receiverVars, Delivered
  <2>3. RecvTyped'
    BY <1>0, <2>1, <2>2 DEF RecvTyped
  <2>4. Behind'
    <3>1. \A k \in 1..received : wire'[k] = wire[k]
      BY <1>0, <2>1
    <3> QED
      BY <1>0, <2>2, <3>1 DEF Behind
  <2>5. InOrder'
    BY <1>0, <2>2 DEF InOrder
  <2> QED
    BY <2>3, <2>4, <2>5 DEF OrderInv
<1>2. ASSUME NEW n \in 1..MaxRecv, SocketRecvData(n)
      PROVE  OrderInv'
  <2>1. PICK chunk \in Seq(Byte) : \E msg \in Parsed :
          /\ Len(chunk) = n
          /\ \A j \in 1..n : chunk[j] = wire[received + j]
          /\ n \in Nat \ {0} /\ received + n <= Len(wire)
          /\ received' = received + n /\ wire' = wire
          /\ vRecvMsg' \in Seq(Parsed) /\ handled' = handled
          /\ FromHeader(msg, chunk)
          /\ Delivered' = IF msg.command = NoCommand THEN Delivered
                          ELSE Append(Delivered, msg)
    BY <1>0, <1>2, RecvDelivers, Zenon
  <2>2. PICK msg \in Parsed :
          /\ Len(chunk) = n
          /\ \A j \in 1..n : chunk[j] = wire[received + j]
          /\ n \in Nat \ {0} /\ received + n <= Len(wire)
          /\ received' = received + n /\ wire' = wire
          /\ vRecvMsg' \in Seq(Parsed) /\ handled' = handled
          /\ FromHeader(msg, chunk)
          /\ Delivered' = IF msg.command = NoCommand THEN Delivered
                          ELSE Append(Delivered, msg)
    BY <2>1
  <2>3. msg \in Parsed
    BY <2>2 DEF FromHeader
  <2>4. RecvTyped'
    BY <1>0, <2>2, <2>3 DEF RecvTyped
  <2>5. \A i \in 1..Len(Delivered) :
          /\ \E k \in 1..received : wire'[k] = <<Delivered[i].command, 1>>
          /\ \A b \in Delivered[i].data :
               \E k \in 1..received : wire'[k] = b
    BY <1>0, <2>2 DEF Behind
  <2>6. 1..received \subseteq 1..received'
    BY <1>0, <2>2
  <2>7. CASE msg.command = NoCommand
    <3>1. Delivered' = Delivered
      BY <2>2, <2>7
    <3>2. Behind'
      BY <2>5, <2>6, <3>1 DEF Behind
    <3>3. InOrder'
      BY <1>0, <3>1 DEF InOrder
    <3> QED
      BY <2>4, <3>2, <3>3 DEF OrderInv
  <2>8. CASE msg.command # NoCommand
    <3> DEFINE D == Delivered
               m == Len(D) + 1
    <3>0. Len(D) \in Nat
      BY <1>0
    <3>1. /\ Delivered' = Append(D, msg) /\ Len(Delivered') = m
          /\ DOMAIN Delivered' = 1..m
          /\ \A i \in 1..Len(D) : Delivered'[i] = D[i]
          /\ Delivered'[m] = msg
      <4>1. Delivered' = Append(D, msg) /\ D \in Seq(Parsed)
        BY <1>0, <2>2, <2>8
      <4> HIDE DEF D
      <4> QED
        BY <2>3, <4>1
    <3>2. PICK j \in 1..n : chunk[j] = <<msg.command, 1>>
      BY <2>2, <2>8 DEF FromHeader
    <3>b. \A b \in msg.data : \E l \in 1..n : chunk[l] = b
      BY <2>2 DEF FromHeader
    <3>c. ASSUME NEW b \in msg.data
          PROVE  \E l \in 1..received' : l > received /\ wire[l] = b
      <4>1. PICK l \in 1..n : chunk[l] = b
        BY <3>b
      <4>2. received + l \in 1..received' /\ received + l > received
            /\ wire[received + l] = b
        BY <1>0, <2>2, <4>1
      <4> QED
        BY <4>2
    <3> DEFINE k == received + j
    <3>3. /\ wire[k] = <<msg.command, 1>> /\ k \in 1..received'
          /\ k \in 1..Len(wire) /\ received < k /\ k \in Nat
      BY <1>0, <2>2, <3>2
    <3> HIDE DEF D, k
    <3>4. Behind'
      <4> SUFFICES ASSUME NEW i \in 1..m
                   PROVE  /\ \E l \in 1..received' :
                               wire'[l] = <<Delivered'[i].command, 1>>
                          /\ \A b \in Delivered'[i].data :
                               \E l \in 1..received' : wire'[l] = b
        BY <3>1 DEF Behind
      <4>1. CASE i \in 1..Len(D)
        BY <2>5, <2>6, <3>1, <4>1 DEF D
      <4>2. CASE i = m
        BY <2>2, <3>1, <3>3, <3>c, <4>2
      <4> QED
        BY <3>0, <4>1, <4>2
    <3>5. ASSUME NEW i \in 1..Len(D)
          PROVE  D[i].command < msg.command
      <4>1. PICK l \in 1..received : wire[l] = <<D[i].command, 1>>
        BY <1>0 DEF Behind, D
      <4>2. l \in 1..Len(wire) /\ l < k
        BY <1>0, <3>3
      <4>3. D[i].command \in Nat /\ msg.command \in Nat
        <5>1. D \in Seq(Parsed)
          BY <1>0 DEF D
        <5>2. D[i] \in Parsed
          BY <5>1
        <5> QED
          BY <2>3, <5>2 DEF Parsed
      <4>4. wire[l] # Junk /\ wire[k] # Junk
        BY <3>3, <4>1, <4>3, SendAssumption
      <4>5. Before(wire[l], wire[k])
        BY <3>3, <4>2, <4>4 DEF StreamInv, Ordered
      <4>6. D[i].command < msg.command
            \/ (D[i].command = msg.command /\ 1 < 1)
        BY <3>3, <4>1, <4>5 DEF Before
      <4> QED
        BY <4>6
    <3>d. ASSUME NEW i \in 1..Len(D)
          PROVE  D[i].data \cap msg.data = {}
      <4> SUFFICES ASSUME NEW b \in D[i].data, b \in msg.data
                   PROVE  FALSE
        OBVIOUS
      <4>1. PICK l \in 1..received : wire[l] = b
        BY <1>0 DEF Behind, D
      <4>2. PICK q \in 1..received' : q > received /\ wire[q] = b
        BY <3>c
      <4>3. l \in 1..Len(wire) /\ q \in 1..Len(wire) /\ l < q
        <5>1. l \in Nat /\ l >= 1 /\ l <= received /\ q \in Nat /\ q >= 1
              /\ q <= received + n /\ q > received
          BY <1>0, <2>2, <4>2
        <5> QED
          BY <1>0, <2>2, <5>1
      <4>4. b \in Nat \X Nat /\ b # Junk
        BY <2>3, SendAssumption DEF Parsed
      <4>5. Before(b, b)
        BY <4>1, <4>2, <4>3, <4>4 DEF StreamInv, Ordered
      <4> QED
        BY <4>4, <4>5 DEF Before
    <3>6. InOrder'
      <4> SUFFICES ASSUME NEW i \in 1..m, NEW l \in 1..m, i < l
                   PROVE  /\ Delivered'[i].command < Delivered'[l].command
                          /\ Delivered'[i].data \cap Delivered'[l].data = {}
        BY <3>1 DEF InOrder
      <4>1. CASE l \in 1..Len(D)
        <5>1. i \in 1..Len(D)
          BY <3>0, <4>1
        <5>2. /\ D[i].command < D[l].command
              /\ D[i].data \cap D[l].data = {}
          BY <1>0, <4>1, <5>1 DEF InOrder, D
        <5> QED
          BY <3>1, <4>1, <5>1, <5>2
      <4>2. CASE l = m
        <5>1. i \in 1..Len(D)
          BY <3>0, <4>2
        <5> QED
          BY <3>1, <3>5, <3>d, <4>2, <5>1
      <4> QED
        BY <3>0, <4>1, <4>2
    <3> QED
      BY <2>4, <3>4, <3>6 DEF OrderInv
  <2> QED
    BY <2>7, <2>8
<1>3. CASE ProcessMessages
  <2>1. /\ received' = received /\ wire' = wire /\ vRecvMsg' = << >>
        /\ handled' = Delivered
    BY <1>3 DEF ProcessMessages, vars, Delivered
  <2>2. Delivered' = Delivered
    <3>1. Delivered' = Delivered \o << >>
      BY <2>1, ActedNothing DEF Delivered
    <3> QED
      BY <1>0, <3>1
  <2>3. RecvTyped'
    BY <1>0, <2>1 DEF RecvTyped
  <2>4. Behind'
    BY <1>0, <2>1, <2>2 DEF Behind
  <2>5. InOrder'
    BY <1>0, <2>2 DEF InOrder
  <2> QED
    BY <2>3, <2>4, <2>5 DEF OrderInv
<1>4. CASE UNCHANGED cvars
  BY <1>1, <1>4 DEF cvars, vars
<1> QED
  BY <1>1, <1>2, <1>3, <1>4 DEF ChannelNext

\* Nothing is delivered at the start.
LEMMA OrderInvInit == ChannelInit => OrderInv
<1> SUFFICES ASSUME ChannelInit PROVE OrderInv
  OBVIOUS
<1>1. /\ received = 0 /\ vRecvMsg = << >> /\ handled = << >>
      /\ wire = << >>
  BY DEF ChannelInit, Init
<1>2. Delivered = << >>
  BY <1>1, ActedNothing DEF Delivered
<1>3. RecvTyped
  BY <1>1 DEF RecvTyped
<1>4. Behind /\ InOrder
  BY <1>2 DEF Behind, InOrder
<1> QED
  BY <1>3, <1>4 DEF OrderInv

\* The sender's order is one of the channel's invariants.
LEMMA ChannelStreamInvariant == ChannelSpec => []StreamInv
<1>1. Init => StreamInv
  BY StreamInvInit
<1>2. QueueInv /\ StreamInv /\ [Next]_vars => StreamInv'
  BY StreamInvStep
<1>3. ChannelSpec => Init /\ [][Next]_vars
  BY QueueSteps, PTL DEF ChannelSpec
<1> QED
  BY <1>1, <1>2, <1>3, ChannelQueueInvariant, PTL

\* And so is that of what is delivered.
LEMMA ChannelOrderInvariant == ChannelSpec => []OrderInv
<1>1. ChannelInit => OrderInv
  BY OrderInvInit
<1>2. QueueInv /\ StreamInv /\ OrderInv /\ [ChannelNext]_cvars => OrderInv'
  BY OrderInvStep
<1> QED
  BY <1>1, <1>2, ChannelQueueInvariant, ChannelStreamInvariant, PTL
  DEF ChannelSpec

(***************************************************************************)
(* However many bytes a recv returns, and whatever the parser makes of a   *)
(* chunk that is cut inside a field, begins inside one, even with '{',     *)
(* holds several messages or ends in junk (net.cpp:391, 401, 501), no      *)
(* command is acted on twice or behind a later one, and no data twice.     *)
(***************************************************************************)
THEOREM DeliveredInOrder == ChannelSpec => []InOrder
<1>1. OrderInv => InOrder
  BY DEF OrderInv
<1> QED
  BY <1>1, ChannelOrderInvariant, PTL

-----------------------------------------------------------------------------
(***************************************************************************)
(* A receiver that gets one message with each recv.                        *)
(***************************************************************************)

\* A chunk that is a message is parsed into that message and nothing else.
LEMMA MessageParsed ==
  ASSUME NEW m \in MessageType, m.size \notin {1, 2},
         NEW msg \in unserializer(Bytes(m, 0, m.size))
  PROVE  msg = [command |-> m.id, data |-> {<<m.id, j>> : j \in 4..m.size}]
<1> DEFINE bytes == Bytes(m, 0, m.size)
           n == m.size
<1>1. m.id \in Nat /\ n \in Nat /\ n >= 3
  BY DEF MessageType
<1>2. bytes \in Seq(Byte) /\ Len(bytes) = n /\ DOMAIN bytes = 1..n
  BY AllBytes
<1>3. \A j \in 1..n : bytes[j] = <<m.id, j>>
  <2> SUFFICES ASSUME NEW j \in 1..n PROVE bytes[j] = <<m.id, j>>
    OBVIOUS
  <2>1. bytes[j] = IF 0 + j <= m.size THEN <<m.id, 0 + j>> ELSE Junk
    BY ByteAt
  <2> HIDE DEF bytes
  <2> QED
    BY <1>1, <2>1
<1> HIDE DEF n, bytes
<1>4. bytes \in Seq(Nat \X Nat) /\ Parsable(bytes) = bytes
  <2>1. \A j \in 1..n : bytes[j] # Junk
    BY <1>1, <1>3, SendAssumption
  <2>2. Parsable(bytes) = bytes
    BY <1>2, <2>1, ParsableIs
  <2> QED
    BY <1>2, <2>2, ParsableIs
<1>5. \A j \in 1..n : bytes[j][1] = m.id /\ bytes[j][2] = j
  BY <1>3
<1>6. msg \in ParsedFrom(bytes, 1)
  <2>1. bytes # << >>
    BY <1>1, <1>2
  <2>2. 1 \in {j \in DOMAIN bytes : StartsField(bytes[j])}
    BY <1>1, <1>2, <1>5 DEF StartsField, HasCommand
  <2>3. msg \in unserializer(bytes)
    BY DEF bytes, n
  <2> QED
    BY <1>4, <2>1, <2>2, <2>3 DEF unserializer
<1>7. ASSUME NEW k \in 2..n, NEW part, part = SubSeq(bytes, 1, k)
      PROVE  Fields(part) =
               [command |-> m.id, data |-> {<<m.id, j>> : j \in 4..k}]
  <2>0. /\ k \in Nat /\ k >= 2 /\ k <= n
        /\ DOMAIN part = 1..k /\ Len(part) = k
        /\ \A j \in 1..k : part[j] = bytes[j]
    BY <1>1, <1>2, <1>7
  <2>5. \A j \in 1..k : part[j][1] = m.id /\ part[j][2] = j
                        /\ part[j] = <<m.id, j>>
    <3> SUFFICES ASSUME NEW j \in 1..k
                 PROVE  /\ part[j][1] = m.id /\ part[j][2] = j
                        /\ part[j] = <<m.id, j>>
      OBVIOUS
    <3>1. j \in 1..n
      BY <1>1, <2>0
    <3> QED
      BY <1>3, <2>0, <3>1
  <2> DEFINE headers == {j \in DOMAIN part : HasCommand(part[j])}
             starts == {j \in DOMAIN part : StartsData(part[j])}
             content == {i \in DOMAIN part :
                           i > LastPlace(starts) /\ IsContent(part[i])}
  <2>1. LastPlace(headers) = 1
    <3>1. headers = {1}
      BY <2>0, <2>5 DEF HasCommand
    <3>2. headers \in SUBSET (1..k) /\ headers # {}
      BY <2>0, <3>1
    <3>3. LastPlace(headers) \in headers
      <4> HIDE DEF headers
      <4> QED
        BY <2>0, <3>2, LastPlaceIs
    <3> QED
      BY <3>1, <3>3
  <2>2. LastPlace(starts) \in 0..3
    <3>1. starts \in SUBSET (1..k) /\ \A j \in starts : j = 3
      BY <2>0, <2>5 DEF StartsData
    <3>2. LastPlace(starts) = 0 \/ LastPlace(starts) \in starts
      <4> HIDE DEF starts
      <4> QED
        BY <2>0, <3>1, LastPlaceIs
    <3>3. LastPlace(starts) = 0 \/ LastPlace(starts) = 3
      BY <3>1, <3>2, Zenon
    <3> QED
      BY <3>3
  <2>3. content = 4..k
    <3> HIDE DEF starts
    <3> QED
      BY <2>0, <2>2, <2>5 DEF IsContent
  <2>4. {part[j] : j \in 4..k} = {<<m.id, j>> : j \in 4..k}
    <3>1. \A j \in 4..k : j \in 1..k
      BY <2>0
    <3>2. \A j \in 4..k : part[j] = <<m.id, j>>
      BY <2>5, <3>1
    <3> QED
      BY <3>2
  <2>6. Message(part[1]) = m.id
    BY <2>0, <2>5 DEF Message
  <2>7. Fields(part) =
          [command |-> IF LastPlace(headers) = 0 THEN NoCommand
                       ELSE Message(part[LastPlace(headers)]),
           data |-> {part[j] : j \in content}]
    BY DEF Fields
  <2>8. {part[j] : j \in content} = {part[j] : j \in 4..k}
    BY <2>3
  <2> HIDE DEF headers, content
  <2>9. (IF LastPlace(headers) = 0 THEN NoCommand
         ELSE Message(part[LastPlace(headers)])) = m.id
    BY <2>1, <2>6
  <2> QED
    BY <2>4, <2>7, <2>8, <2>9, Zenon
<1> DEFINE whole == Fields(SubSeq(bytes, 1, Len(bytes)))
           short == Fields(SubSeq(bytes, 1, Len(bytes) - 1))
<1>8. whole = [command |-> m.id, data |-> {<<m.id, j>> : j \in 4..n}]
  <2>1. n \in 2..n /\ Len(bytes) = n
    BY <1>1, <1>2
  <2> QED
    BY <1>7, <2>1
<1>9. short = [command |-> m.id, data |-> {<<m.id, j>> : j \in 4..(n - 1)}]
  <2>1. n - 1 \in 2..n /\ Len(bytes) - 1 = n - 1
    BY <1>1, <1>2
  <2> QED
    BY <1>7, <2>1
<1>10. bytes[Len(bytes)][2] = n
  BY <1>1, <1>2, <1>5
<1>11. ~ HasCommand(bytes[Len(bytes)])
  BY <1>1, <1>10 DEF HasCommand
<1>12. StartsField(bytes[Len(bytes)]) => n = 3
  BY <1>10, <1>11 DEF StartsField, StartsData
<1>13. n = 3 => short = whole
  <2> SUFFICES ASSUME n = 3 PROVE short = whole
    OBVIOUS
  <2>1. 4..n = {} /\ 4..(n - 1) = {}
    OBVIOUS
  <2> HIDE DEF short, whole
  <2> QED
    BY <1>8, <1>9, <2>1
<1>14. msg = whole
  <2>1. \/ msg = whole
        \/ msg = short /\ StartsField(bytes[Len(bytes)])
        \/ HasCommand(bytes[Len(bytes)])
    BY <1>6 DEF ParsedFrom
  <2> HIDE DEF short, whole
  <2> QED
    BY <1>11, <1>12, <1>13, <2>1
<1> QED
  BY <1>8, <1>14 DEF n

\* A part of a sequence continued by the next.
LEMMA SubSeqSplit ==
  ASSUME NEW S, NEW s \in Seq(S), NEW a \in Nat, NEW n \in Nat,
         a + n <= Len(s)
  PROVE  SubSeq(s, 1, a + n) = SubSeq(s, 1, a) \o SubSeq(s, a + 1, a + n)
<1> DEFINE x == SubSeq(s, 1, a)
           y == SubSeq(s, a + 1, a + n)
           z == SubSeq(s, 1, a + n)
<1>1. x \in Seq(S) /\ Len(x) = a /\ \A i \in 1..a : x[i] = s[i]
  OBVIOUS
<1>2. y \in Seq(S) /\ Len(y) = n /\ \A i \in 1..n : y[i] = s[a + i]
  OBVIOUS
<1>3. z \in Seq(S) /\ Len(z) = a + n /\ \A i \in 1..(a + n) : z[i] = s[i]
  OBVIOUS
<1> HIDE DEF x, y, z
<1>4. /\ x \o y \in Seq(S) /\ Len(x \o y) = a + n
      /\ \A i \in 1..(a + n) : (x \o y)[i] = IF i <= a THEN x[i] ELSE y[i - a]
  <2>1. /\ x \o y \in Seq(S) /\ Len(x \o y) = Len(x) + Len(y)
        /\ \A i \in 1..(Len(x) + Len(y)) :
             (x \o y)[i] = IF i <= Len(x) THEN x[i] ELSE y[i - Len(x)]
    BY <1>1, <1>2, ConcatProperties
  <2> QED
    BY <1>1, <1>2, <2>1
<1>5. ASSUME NEW i \in 1..(a + n)
      PROVE  (x \o y)[i] = z[i]
  <2>1. CASE i \in 1..a
    BY <1>1, <1>3, <1>4, <2>1
  <2>2. CASE i \in (a + 1)..(a + n)
    <3>1. i - a \in 1..n /\ a + (i - a) = i /\ ~ (i <= a)
      BY <2>2
    <3>2. (x \o y)[i] = y[i - a] /\ z[i] = s[i]
      BY <1>3, <1>4, <3>1
    <3>3. y[i - a] = s[a + (i - a)]
      BY <1>2, <3>1
    <3> QED
      BY <3>1, <3>2, <3>3
  <2>3. i \in 1..a \/ i \in (a + 1)..(a + n)
    OBVIOUS
  <2> QED
    BY <2>1, <2>2, <2>3
<1>6. z = x \o y
  BY <1>3, <1>4, <1>5, SeqEqual
<1> QED
  BY <1>6 DEF x, y, z

\* Only the first n elements count for the first n elements.
LEMMA SubSeqSame ==
  ASSUME NEW S, NEW s \in Seq(S), NEW t \in Seq(S), NEW n \in Nat,
         n <= Len(s), n <= Len(t), \A i \in 1..n : s[i] = t[i]
  PROVE  SubSeq(s, 1, n) = SubSeq(t, 1, n)
<1> DEFINE x == SubSeq(s, 1, n)
           y == SubSeq(t, 1, n)
<1>1. x \in Seq(S) /\ Len(x) = n /\ \A i \in 1..n : x[i] = s[i]
  OBVIOUS
<1>2. y \in Seq(S) /\ Len(y) = n /\ \A i \in 1..n : y[i] = t[i]
  OBVIOUS
<1> HIDE DEF x, y
<1>3. x = y
  BY <1>1, <1>2, SeqEqual
<1> QED
  BY <1>3 DEF x, y

\* A part of one element.
LEMMA SubSeqOne ==
  ASSUME NEW S, NEW s \in Seq(S), NEW i \in 1..Len(s)
  PROVE  SubSeq(s, i, i) = <<s[i]>>
<1> DEFINE x == SubSeq(s, i, i)
           y == <<s[i]>>
<1>1. x \in Seq(S) /\ Len(x) = 1 /\ x[1] = s[i]
  OBVIOUS
<1>2. y \in Seq(S) /\ Len(y) = 1 /\ y[1] = s[i]
  OBVIOUS
<1> HIDE DEF x, y
<1>3. \A j \in 1..Len(x) : x[j] = y[j]
  BY <1>1, <1>2
<1>4. x = y
  BY <1>1, <1>2, <1>3, SeqEqual
<1> QED
  BY <1>4 DEF x, y

\* As many messages are delivered as were taken, and the next to come is the
\* one behind them.
InStep ==
  paced => /\ Len(Delivered) <= Len(pushed)
           /\ received # 0 => wire[received] # Junk
           /\ NextByte(received) = <<Len(Delivered) + 1, 1>>

PaceInv ==
  /\ \A i \in 1..Len(pushed) : pushed[i].size \notin {1, 2}
  /\ InStep
  /\ LosslessIfPaced

\* The sender changes nothing of what was taken.
LEMMA PaceInvSender ==
  ASSUME QueueInv, StreamInv, OrderInv, PaceInv,
         [Next]_vars, UNCHANGED receiverVars
  PROVE  PaceInv'
<1> DEFINE k == Len(Delivered)
<1>0. /\ Typed /\ RecvTyped /\ Gapless
      /\ received \in Nat /\ Len(wire) \in Nat /\ received <= Len(wire)
      /\ Delivered \in Seq(Parsed) /\ k \in Nat /\ Len(pushed) \in Nat
      /\ wire \in Seq(Byte) /\ pushed \in Seq(MessageType)
  BY DeliveredType DEF QueueInv, OrderInv, RecvTyped, Typed, StreamInv
<1>1. /\ Len(wire) <= Len(wire') /\ Len(wire') \in Nat
      /\ \A p \in 1..Len(wire) : wire'[p] = wire[p]
      /\ \/ pushed' = pushed
         \/ \E m \in MessageType :
              m.size \in Size /\ pushed' = Append(pushed, m)
  BY <1>0, SenderGrows
<1>2. /\ received' = received /\ paced' = paced /\ Delivered' = Delivered
  BY DEF receiverVars, Delivered
<1>3. wire' \in Seq(Byte)
  BY <1>0, TypedStep DEF Typed
<1>4. /\ pushed' \in Seq(MessageType) /\ Len(pushed) <= Len(pushed')
      /\ \A i \in 1..Len(pushed) : pushed'[i] = pushed[i]
      /\ \A i \in 1..Len(pushed') : pushed'[i].size \notin {1, 2}
  <2>1. CASE pushed' = pushed
    BY <1>0, <2>1 DEF PaceInv
  <2>2. ASSUME NEW m \in MessageType, m.size \in Size,
               pushed' = Append(pushed, m)
        PROVE  /\ pushed' \in Seq(MessageType) /\ Len(pushed) <= Len(pushed')
               /\ \A i \in 1..Len(pushed) : pushed'[i] = pushed[i]
               /\ \A i \in 1..Len(pushed') : pushed'[i].size \notin {1, 2}
    <3>1. /\ pushed' \in Seq(MessageType) /\ Len(pushed') = Len(pushed) + 1
          /\ \A i \in 1..Len(pushed) : pushed'[i] = pushed[i]
          /\ pushed'[Len(pushed) + 1] = m
      BY <1>0, <2>2, AppendProperties
    <3>2. m.size \notin {1, 2}
      BY <2>2, ChannelAssumption
    <3>3. \A i \in 1..Len(pushed) : pushed[i].size \notin {1, 2}
      BY DEF PaceInv
    <3>4. \A i \in 1..Len(pushed') : i \in 1..Len(pushed)
                                     \/ i = Len(pushed) + 1
      BY <1>0, <3>1
    <3> QED
      BY <1>0, <3>1, <3>2, <3>3, <3>4
  <2> QED
    BY <1>1, <2>1, <2>2
<1>5. InStep'
  <2> SUFFICES ASSUME paced
               PROVE  /\ k <= Len(pushed')
                      /\ received # 0 => wire'[received] # Junk
                      /\ NextByte(received)' = <<k + 1, 1>>
    BY <1>2 DEF InStep
  <2>1. /\ k <= Len(pushed)
        /\ received # 0 => wire[received] # Junk
        /\ NextByte(received) = <<k + 1, 1>>
    BY DEF PaceInv, InStep
  <2>2. CASE received = 0
    BY <1>0, <1>2, <1>4, <2>1, <2>2 DEF NextByte
  <2>3. CASE received # 0
    <3>1. received \in 1..Len(wire) /\ wire'[received] = wire[received]
      BY <1>0, <1>1, <2>3
    <3>2. wire[received][1] \in 1..Len(pushed)
      BY <1>0, <2>1, <2>3, <3>1 DEF Gapless
    <3>3. pushed'[wire[received][1]] = pushed[wire[received][1]]
      BY <1>4, <3>2
    <3>4. NextByte(received)' = NextByte(received)
      BY <1>2, <2>3, <3>1, <3>3 DEF NextByte
    <3>5. k <= Len(pushed')
      <4> HIDE DEF k
      <4>1. Len(pushed') \in Nat
        BY <1>4
      <4> QED
        BY <1>0, <1>4, <2>1, <4>1
    <3> QED
      BY <2>1, <3>1, <3>4, <3>5
  <2> QED
    BY <2>2, <2>3
<1>6. LosslessIfPaced'
  <2> SUFFICES ASSUME paced
               PROVE  LosslessIfPaced'
    BY <1>2 DEF LosslessIfPaced
  <2>1. /\ \A i \in DOMAIN Delivered :
             Delivered[i] = [command |-> i,
                             data |-> {<<i, j>> : j \in 4..pushed[i].size}]
        /\ SubSeq(wire, 1, received) = Stream(SubSeq(pushed, 1, k))
        /\ k <= Len(pushed) /\ DOMAIN Delivered = 1..k
    BY <1>0 DEF PaceInv, LosslessIfPaced, InStep
  <2>2. SubSeq(wire', 1, received) = SubSeq(wire, 1, received)
    BY <1>0, <1>1, <1>3, SubSeqSame
  <2>3. SubSeq(pushed', 1, k) = SubSeq(pushed, 1, k)
    <3> HIDE DEF k
    <3>1. /\ k <= Len(pushed') /\ Len(pushed') \in Nat
          /\ \A i \in 1..k : pushed'[i] = pushed[i]
      BY <1>0, <1>4, <2>1
    <3> QED
      BY <1>0, <1>4, <2>1, <3>1, SubSeqSame
  <2>4. \A i \in DOMAIN Delivered : pushed'[i] = pushed[i]
    BY <1>0, <1>4, <2>1, SMTT(30)
  <2>5. /\ Delivered' = Delivered /\ received' = received
        /\ Stream(SubSeq(pushed', 1, Len(Delivered')))
             = Stream(SubSeq(pushed, 1, k))
    BY <1>2, <2>3
  <2> QED
    BY <2>1, <2>2, <2>4, <2>5 DEF LosslessIfPaced
<1> QED
  BY <1>4, <1>5, <1>6 DEF PaceInv

\* A recv that returns a message returns the next one, whole.
LEMMA PaceInvRecv ==
  ASSUME QueueInv, StreamInv, OrderInv, PaceInv,
         NEW n \in 1..MaxRecv, SocketRecvData(n)
  PROVE  PaceInv'
<1> DEFINE k == Len(Delivered)
           R == received
<1>0. /\ Typed /\ RecvTyped /\ Gapless /\ Numbered
      /\ R \in Nat /\ Len(wire) \in Nat /\ R <= Len(wire)
      /\ Delivered \in Seq(Parsed) /\ k \in Nat /\ Len(pushed) \in Nat
      /\ DOMAIN Delivered = 1..k
      /\ wire \in Seq(Byte) /\ pushed \in Seq(MessageType)
      /\ \A i \in 1..Len(pushed) : pushed[i].size \notin {1, 2}
  BY DeliveredType DEF QueueInv, OrderInv, RecvTyped, Typed, StreamInv, PaceInv
<1>1. PICK chunk \in Seq(Byte) : \E msg \in Parsed :
        /\ chunk = SubSeq(wire, R + 1, R + n)
        /\ Len(chunk) = n
        /\ \A j \in 1..n : chunk[j] = wire[R + j]
        /\ n \in Nat \ {0} /\ R + n <= Len(wire)
        /\ received' = R + n /\ wire' = wire /\ pushed' = pushed
        /\ paced' = (paced /\ IsMessage(chunk))
        /\ Delivered' = IF msg.command = NoCommand THEN Delivered
                        ELSE Append(Delivered, msg)
        /\ FromHeader(msg, chunk)
        /\ IsMessage(chunk) => msg \in unserializer(chunk)
  BY <1>0, RecvDelivers, Zenon
<1>2. PICK msg \in Parsed :
        /\ chunk = SubSeq(wire, R + 1, R + n)
        /\ Len(chunk) = n
        /\ \A j \in 1..n : chunk[j] = wire[R + j]
        /\ n \in Nat \ {0} /\ R + n <= Len(wire)
        /\ received' = R + n /\ wire' = wire /\ pushed' = pushed
        /\ paced' = (paced /\ IsMessage(chunk))
        /\ Delivered' = IF msg.command = NoCommand THEN Delivered
                        ELSE Append(Delivered, msg)
        /\ FromHeader(msg, chunk)
        /\ IsMessage(chunk) => msg \in unserializer(chunk)
  BY <1>1
<1>3. CASE ~ paced'
  BY <1>0, <1>2, <1>3 DEF PaceInv, InStep, LosslessIfPaced
<1>4. CASE paced'
  <2>1. paced /\ IsMessage(chunk)
    BY <1>2, <1>4
  <2>2. /\ k <= Len(pushed)
        /\ R # 0 => wire[R] # Junk
        /\ NextByte(R) = <<k + 1, 1>>
        /\ \A i \in 1..k :
             Delivered[i] = [command |-> i,
                             data |-> {<<i, j>> : j \in 4..pushed[i].size}]
        /\ SubSeq(wire, 1, R) = Stream(SubSeq(pushed, 1, k))
    BY <1>0, <2>1 DEF PaceInv, InStep, LosslessIfPaced
  <2>3. PICK i \in 1..Len(pushed) :
          chunk = Bytes(pushed[i], 0, pushed[i].size)
    <3>1. DOMAIN pushed = 1..Len(pushed)
      BY <1>0
    <3> QED
      BY <2>1, <3>1 DEF IsMessage
  <2> DEFINE m == pushed[i]
  <2>4. m \in MessageType /\ m.id = i /\ m.size \notin {1, 2} /\ m.size \in Nat
        /\ m.size >= 3
    <3>1. m \in MessageType /\ m.id = i /\ m.size \notin {1, 2}
      BY <1>0, <2>3 DEF Numbered
    <3> QED
      BY <3>1 DEF MessageType
  <2>5. n = m.size
    BY <1>2, <2>3, <2>4, AllBytes
  <2> HIDE DEF k, R
  <2>6. \A j \in 1..n : wire[R + j] = <<i, j>>
    <3> SUFFICES ASSUME NEW j \in 1..n PROVE wire[R + j] = <<i, j>>
      OBVIOUS
    <3>1. chunk[j] = IF 0 + j <= m.size THEN <<m.id, 0 + j>> ELSE Junk
      BY <2>3, <2>5, ByteAt
    <3>2. chunk[j] = <<i, j>>
      <4>1. 0 + j = j /\ j <= m.size
        BY <2>4, <2>5
      <4> HIDE DEF m
      <4> QED
        BY <2>4, <3>1, <4>1
    <3>3. chunk[j] = wire[R + j]
      BY <1>2
    <3> QED
      BY <3>2, <3>3
  <2>7. i = k + 1
    <3> DEFINE p == R + 1
    <3>1. p \in 1..Len(wire) /\ p - 1 = R /\ 1 \in 1..n
      BY <1>0, <1>2
    <3>2. wire[p] = <<i, 1>>
      BY <2>6, <3>1
    <3> HIDE DEF p
    <3>3. wire[p] # Junk
      BY <3>2, SendAssumption
    <3>4. wire[p] = NextByte(R)
      BY <1>0, <3>1, <3>3 DEF Gapless
    <3> QED
      BY <2>2, <3>2, <3>4
  <2>8. msg = [command |-> i, data |-> {<<i, j>> : j \in 4..m.size}]
    <3>1. msg \in unserializer(Bytes(m, 0, m.size))
      BY <1>2, <2>1, <2>3
    <3> HIDE DEF m
    <3>2. msg = [command |-> m.id, data |-> {<<m.id, j>> : j \in 4..m.size}]
      BY <2>4, <3>1, MessageParsed
    <3> QED
      BY <2>4, <3>2
  <2>9. /\ Delivered' = Append(Delivered, msg) /\ msg \in Parsed
        /\ msg.command = i
    <3>1. msg.command = i
      BY <2>8
    <3>2. msg.command # NoCommand
      BY <2>3, <3>1 DEF NoCommand
    <3> QED
      BY <1>2, <3>1, <3>2 DEF FromHeader
  <2>10. /\ Len(Delivered') = i /\ DOMAIN Delivered' = 1..i
         /\ Delivered'[i] = msg
         /\ \A j \in 1..k : Delivered'[j] = Delivered[j]
    <3> DEFINE D == Delivered
    <3>1. D \in Seq(Parsed) /\ Len(D) = k /\ Delivered' = Append(D, msg)
      BY <1>0, <2>9 DEF k
    <3> HIDE DEF D
    <3>2. /\ Len(Delivered') = k + 1 /\ DOMAIN Delivered' = 1..(k + 1)
          /\ Delivered'[k + 1] = msg
          /\ \A j \in 1..k : Delivered'[j] = D[j]
      BY <2>9, <3>1
    <3> QED
      BY <2>7, <3>2 DEF D
  <2>11. \A j \in 1..i :
           Delivered'[j] = [command |-> j,
                            data |-> {<<j, l>> : l \in 4..pushed[j].size}]
    <3> SUFFICES ASSUME NEW j \in 1..i
                 PROVE  Delivered'[j] =
                          [command |-> j,
                           data |-> {<<j, l>> : l \in 4..pushed[j].size}]
      OBVIOUS
    <3>1. CASE j = i
      BY <2>8, <2>10, <3>1
    <3>2. CASE j \in 1..k
      BY <2>2, <2>10, <3>2
    <3> QED
      BY <1>0, <2>7, <3>1, <3>2
  <2>12. SubSeq(wire, 1, R + n) = Stream(SubSeq(pushed, 1, i))
    <3> DEFINE old == SubSeq(pushed, 1, k)
    <3>1. SubSeq(wire, 1, R + n) = SubSeq(wire, 1, R) \o chunk
      BY <1>0, <1>2, SubSeqSplit
    <3>2. SubSeq(pushed, 1, i) = Append(old, m)
      <4>1. SubSeq(pushed, 1, k + 1) = old \o SubSeq(pushed, k + 1, k + 1)
        <5>1. k + 1 <= Len(pushed) /\ 1 \in Nat
          BY <2>3, <2>7
        <5> QED
          BY <1>0, <5>1, SubSeqSplit
      <4>2. SubSeq(pushed, k + 1, k + 1) = <<m>>
        <5>1. SubSeq(pushed, i, i) = <<pushed[i]>>
          BY <1>0, <2>3, SubSeqOne
        <5> QED
          BY <2>7, <5>1
      <4>3. old \in Seq(MessageType)
        BY <1>0, <2>2
      <4> HIDE DEF old, m
      <4>4. old \o <<m>> = Append(old, m)
        BY <2>4, <4>3
      <4> QED
        BY <2>7, <4>1, <4>2, <4>4
    <3>3. old \in Seq(MessageType)
      BY <1>0, <2>2
    <3> HIDE DEF old, m
    <3>4. CASE old = << >>
      <4>1. Append(old, m) = <<m>>
        BY <3>4
      <4>2. Stream(<<m>>) = chunk
        BY <2>3, <2>4, StreamOne DEF m
      <4>3. SubSeq(wire, 1, R) = << >>
        BY <2>2, <3>4, StreamEmpty DEF old
      <4>4. << >> \o chunk = chunk
        OBVIOUS
      <4> QED
        BY <3>1, <3>2, <4>1, <4>2, <4>3, <4>4
    <3>5. CASE old # << >>
      <4>1. Stream(Append(old, m)) = Stream(old) \o Bytes(m, 0, m.size)
        BY <2>4, <3>3, <3>5, StreamAppend
      <4>2. Bytes(m, 0, m.size) = chunk
        BY <2>3 DEF m
      <4>3. SubSeq(wire, 1, R) = Stream(old)
        BY <2>2 DEF old
      <4> QED
        BY <3>1, <3>2, <4>1, <4>2, <4>3
    <3> QED
      BY <3>4, <3>5
  <2>13. LosslessIfPaced'
    <3>1. received' = R + n /\ wire' = wire /\ pushed' = pushed
      BY <1>2
    <3> QED
      BY <2>10, <2>11, <2>12, <3>1 DEF LosslessIfPaced
  <2>14. InStep'
    <3>1. received' = R + n /\ wire' = wire /\ pushed' = pushed
      BY <1>2
    <3>2. wire[R + n] = <<i, n>> /\ R + n # 0
      <4>1. n \in Nat \ {0} /\ R \in Nat
        BY <1>0, <1>2
      <4>2. n \in 1..n
        BY <4>1
      <4> QED
        BY <2>6, <4>1, <4>2
    <3>3. wire[R + n] # Junk
      <4>1. <<i, n>> \in Nat \X Nat
        BY <1>2, <2>3, SMTT(30)
      <4> QED
        BY <3>2, <4>1, SendAssumption
    <3>4. NextByte(received)' = <<i + 1, 1>>
      <4>1. wire[R + n][1] = i /\ wire[R + n][2] = n
        BY <3>2
      <4>2. ~ (n < pushed[i].size)
        BY <2>4, <2>5
      <4>3. NextByte(received)' =
              IF wire[R + n][2] < pushed[wire[R + n][1]].size
              THEN <<wire[R + n][1], wire[R + n][2] + 1>>
              ELSE <<wire[R + n][1] + 1, 1>>
        BY <3>1, <3>2 DEF NextByte
      <4> QED
        BY <4>1, <4>2, <4>3
    <3>5. i <= Len(pushed)
      BY <1>0, <2>3
    <3> QED
      BY <2>10, <3>1, <3>3, <3>4, <3>5 DEF InStep
  <2> QED
    BY <1>0, <1>2, <2>13, <2>14 DEF PaceInv
<1> QED
  BY <1>3, <1>4

\* At the start nothing is taken.
LEMMA PaceInvInit == ChannelInit => PaceInv
<1> SUFFICES ASSUME ChannelInit PROVE PaceInv
  OBVIOUS
<1>1. /\ received = 0 /\ vRecvMsg = << >> /\ handled = << >>
      /\ wire = << >> /\ pushed = << >>
  BY DEF ChannelInit, Init
<1>2. Delivered = << >>
  BY <1>1, ActedNothing DEF Delivered
<1>3. Len(Delivered) = 0 /\ Len(pushed) = 0
  BY <1>1, <1>2
<1>4. SubSeq(wire, 1, received) = << >>
      /\ SubSeq(pushed, 1, Len(Delivered)) = << >>
  BY <1>1, <1>3
<1>5. LosslessIfPaced
  <2>1. DOMAIN Delivered = {}
    BY <1>2
  <2>2. SubSeq(wire, 1, received) = Stream(SubSeq(pushed, 1, Len(Delivered)))
    BY <1>4, StreamEmpty
  <2> QED
    BY <2>1, <2>2 DEF LosslessIfPaced
<1>6. InStep
  BY <1>1, <1>3 DEF InStep, NextByte
<1> QED
  BY <1>3, <1>5, <1>6 DEF PaceInv

\* Each step keeps the pace.
LEMMA PaceInvStep ==
  ASSUME QueueInv, StreamInv, OrderInv, PaceInv, [ChannelNext]_cvars
  PROVE  PaceInv'
<1>1. ASSUME [Next]_vars, UNCHANGED receiverVars
      PROVE  PaceInv'
  BY <1>1, PaceInvSender
<1>2. ASSUME NEW n \in 1..MaxRecv, SocketRecvData(n)
      PROVE  PaceInv'
  BY <1>2, PaceInvRecv
<1>3. CASE ProcessMessages
  <2>1. /\ received' = received /\ wire' = wire /\ pushed' = pushed
        /\ paced' = paced /\ vRecvMsg' = << >> /\ handled' = Delivered
    BY <1>3 DEF ProcessMessages, vars, Delivered
  <2>2. Delivered' = Delivered
    <3>1. Delivered' = Delivered \o << >>
      BY <2>1, ActedNothing DEF Delivered
    <3>2. Delivered \in Seq(Parsed)
      BY DeliveredType DEF OrderInv
    <3> QED
      BY <3>1, <3>2
  <2>3. InStep'
    BY <2>1, <2>2 DEF PaceInv, InStep, NextByte
  <2>4. LosslessIfPaced'
    BY <2>1, <2>2 DEF PaceInv, LosslessIfPaced
  <2> QED
    BY <2>1, <2>3, <2>4 DEF PaceInv
<1>4. CASE UNCHANGED cvars
  BY <1>1, <1>4 DEF cvars, vars
<1> QED
  BY <1>1, <1>2, <1>3, <1>4 DEF ChannelNext

(***************************************************************************)
(* As long as each recv returns exactly one message (net.cpp:391), the     *)
(* receiver is delivered each message taken, in order and with all of its  *)
(* data, and has taken no byte of another: framing by recv is enough for a *)
(* sender that is slow, whatever the number and sizes of its messages.     *)
(***************************************************************************)
THEOREM PacedIsLossless == ChannelSpec => []LosslessIfPaced
<1>1. ChannelInit => PaceInv
  BY PaceInvInit
<1>2. QueueInv /\ StreamInv /\ OrderInv /\ PaceInv /\ [ChannelNext]_cvars
        => PaceInv'
  BY PaceInvStep
<1>3. PaceInv => LosslessIfPaced
  BY DEF PaceInv
<1> QED
  BY <1>1, <1>2, <1>3, ChannelQueueInvariant, ChannelStreamInvariant,
     ChannelOrderInvariant, PTL
  DEF ChannelSpec
==============================================================================
