-------------------------- MODULE PeerThreadsProofs --------------------------
(***************************************************************************)
(* The safety of the peer threads for every set of nodes and peers and for *)
(* every limit: who holds which lock, what the locks and the unlocked      *)
(* tests keep apart, and how many connections there are.                   *)
(***************************************************************************)
EXTENDS PeerThreads, FiniteSetTheorems, TLAPS

NodeType ==
  [state : {"none", "live", "deleted"}, inbound : BOOLEAN,
   service : Service \cup {NoService}, disconnect : BOOLEAN,
   send : Nat, recv : Nat]

SocketType ==
  [pc : {"disconnect", "reap", "reap2", "accept", "fdset", "watch", "select",
         "service", "recv", "json", "send"},
   todo : SUBSET Node, cur : Node \cup {NoNode}]

OpenerType ==
  [pc : {"find", "ref", "connect", "done"}, next : Nat,
   cur : Node \cup Service \cup {NoNode}]

HandlerType ==
  [pc : {"copy", "node", "process", "lock", "push", "trysend"},
   todo : SUBSET Node, cur : Node \cup {NoNode}, left : Nat]

Typed ==
  /\ vNodes \subseteq Node
  /\ node \in [Node -> NodeType]
  /\ mu_vNodes \in {Free, "socket"}
  /\ mu_vSendMsg \in [Node -> {Free, "socket", "handler"}]
  /\ mu_vRecvMsg \in [Node -> {Free, "socket", "handler"}]
  /\ fdset \in [recv : SUBSET Node, send : SUBSET Node]
  /\ socket \in SocketType
  /\ opener \in OpenerType
  /\ handler \in HandlerType
  /\ dead \in BOOLEAN

\* A thread that works on a node has one, and one that pushes an answer has a
\* request left to answer.
Placed ==
  /\ socket.pc \in {"reap2", "recv", "json", "send"} => socket.cur \in Node
  /\ handler.pc \in {"process", "lock", "push", "trysend"} =>
       handler.cur \in Node
  /\ handler.pc \in {"lock", "push"} => handler.left > 0

\* Who holds which lock.
Locked ==
  /\ mu_vNodes = "socket" <=> socket.pc \in {"reap", "reap2", "watch"}
  /\ \A n \in Node :
       /\ mu_vSendMsg[n] = "socket" <=> socket.pc = "send" /\ socket.cur = n
       /\ mu_vRecvMsg[n] = "socket" <=>
            socket.pc \in {"recv", "json"} /\ socket.cur = n
       /\ mu_vRecvMsg[n] = "handler" <=>
            handler.pc \in {"process", "lock", "push"} /\ handler.cur = n
       /\ mu_vSendMsg[n] = "handler" <=>
            handler.pc = "push" /\ handler.cur = n

\* A node that select watches for reading, until it is served in this turn,
\* has room in its receive queue.
Watched ==
  \/ socket.pc \in {"watch", "select"}
  \/ socket.pc \in {"service", "recv", "json", "send"}
HasRoom ==
  /\ \A n \in Node : node[n].recv <= MAXRECVSIZE + 1
  /\ ~ Watched => fdset.recv = {}
  /\ socket.pc \in {"recv", "json"} =>
       socket.cur \in fdset.recv \cap socket.todo
  /\ \A n \in fdset.recv :
       socket.pc \in {"watch", "select"} \/ n \in socket.todo
         => node[n].recv <= MAXRECVSIZE

\* vNodes and what the nodes in it are; nodes the handler knows have been in
\* it.
Listed ==
  /\ vNodes = {n \in Node : node[n].state = "live"}
  /\ \A n \in vNodes :
       IF node[n].inbound THEN node[n].service = NoService
                          ELSE node[n].service \in Service
  /\ \A n \in handler.todo : node[n].state # "none"
  /\ handler.pc \in {"process", "lock", "push", "trysend"} =>
       node[handler.cur].state # "none"

\* While ConnectNode is about to insert a node for a peer there is no other.
Alone ==
  /\ opener.pc = "connect" =>
       /\ opener.cur \in Service
       /\ FindNode(opener.cur) = {}
  /\ OneNodePerPeer

PInv == Typed /\ Placed /\ Locked /\ HasRoom /\ Listed /\ Alone

-----------------------------------------------------------------------------
\* What most steps need of the constants.
LEMMA ConstantFacts ==
  /\ MAXINBOUND \in Nat /\ MAXRECVSIZE \in Nat /\ MaxSend \in Nat
  /\ NoService \notin Service
  /\ Free \notin {"socket", "handler"}
  BY PeerAssumption

LEMMA Entries ==
  ASSUME NEW i \in 1..Len(vAddrToConnect)
  PROVE  vAddrToConnect[i] \in Service /\ i + 1 \in Nat
  BY PeerAssumption DEF Service

\* Three fields of a record assigned at once.
LEMMA RecordFields ==
  ASSUME NEW State, NEW Inb, NEW Srv, NEW Dis, NEW Cnt,
         NEW r \in [state : State, inbound : Inb, service : Srv,
                    disconnect : Dis, send : Cnt, recv : Cnt],
         NEW a \in State, NEW b \in Inb, NEW c \in Srv
  PROVE  [r EXCEPT !.state = a, !.inbound = b, !.service = c]
           \in [state : State, inbound : Inb, service : Srv,
                disconnect : Dis, send : Cnt, recv : Cnt]
  OBVIOUS

\* What the threads do to the fields of a node.
LEMMA NodeFields ==
  ASSUME PInv, NEW n \in Node
  PROVE  /\ [node EXCEPT ![n].disconnect = TRUE] \in [Node -> NodeType]
         /\ [node EXCEPT ![n].recv = @ + 1] \in [Node -> NodeType]
         /\ \A inbound \in BOOLEAN, service \in Service \cup {NoService} :
              [node EXCEPT ![n].state = "live", ![n].inbound = inbound,
                           ![n].service = service] \in [Node -> NodeType]
<1> USE DEF PInv, Typed, NodeType
<1>1. [node EXCEPT ![n].disconnect = TRUE] \in [Node -> NodeType]
  BY ZenonT(30)
<1>2. [node EXCEPT ![n].recv = @ + 1] \in [Node -> NodeType]
  OBVIOUS
<1>3. ASSUME NEW inbound \in BOOLEAN,
             NEW service \in Service \cup {NoService}
      PROVE  [node EXCEPT ![n].state = "live", ![n].inbound = inbound,
                          ![n].service = service] \in [Node -> NodeType]
  <2> DEFINE x == [node[n] EXCEPT !.state = "live", !.inbound = inbound,
                                  !.service = service]
  <2>1. x \in NodeType
    <3>1. node[n] \in NodeType /\ "live" \in {"none", "live", "deleted"}
      OBVIOUS
    <3> HIDE DEF PInv, Typed
    <3> QED
      BY <3>1, RecordFields, Zenon
  <2>2. [node EXCEPT ![n] = x] \in [Node -> NodeType]
    BY <2>1
  <2> QED
    BY <2>2
<1> QED
  BY <1>1, <1>2, <1>3

\* A step that changes nothing keeps the invariant.
LEMMA PInvStutters ==
  ASSUME PInv, UNCHANGED vars
  PROVE  PInv'
<1> USE DEF vars, locks
<1>1. Typed' /\ Placed'
  BY DEF PInv, Typed, Placed
<1>2. Locked' /\ HasRoom'
  BY DEF PInv, Locked, HasRoom, Watched
<1>3. Listed' /\ Alone'
  BY DEF PInv, Listed, Alone, OneNodePerPeer, Outbound, Inbound, FindNode
<1> QED
  BY <1>1, <1>2, <1>3 DEF PInv

\* The steps of ThreadSocketHandler keep the invariant.
LEMMA SocketStep ==
  ASSUME PInv, ThreadSocketHandler
  PROVE  PInv'
<1> USE ConstantFacts
        DEF PInv, Typed, NodeType, SocketType, OpenerType, HandlerType,
            Placed, locks, SocketAt
<1>1. ASSUME BeginReap
      PROVE  PInv'
  <2>1. Typed' /\ Placed'
    BY <1>1 DEF BeginReap
  <2>2. Locked' /\ HasRoom'
    BY <1>1 DEF BeginReap, Locked, HasRoom, Watched
  <2>3. Listed' /\ Alone'
    BY <1>1 DEF BeginReap, Listed, Alone, OneNodePerPeer, Outbound, Inbound,
           FindNode
  <2> QED
    BY <2>1, <2>2, <2>3
<1>2. ASSUME NEW n \in Node, TestSendQueue(n)
      PROVE  PInv'
  <2>1. Typed' /\ Placed'
    BY <1>2 DEF TestSendQueue, At, Skipped
  <2>2. Locked' /\ HasRoom'
    BY <1>2 DEF TestSendQueue, At, Skipped, Locked, HasRoom, Watched
  <2>3. Listed' /\ Alone'
    BY <1>2 DEF TestSendQueue, At, Skipped, Listed, Alone, OneNodePerPeer,
           Outbound, Inbound, FindNode
  <2> QED
    BY <2>1, <2>2, <2>3
<1>3. ASSUME TestRecvQueue
      PROVE  PInv'
  <2>1. node' \in [Node -> NodeType]
    BY <1>3, SMTT(30) DEF TestRecvQueue, Reapable
  <2>2. Typed' /\ Placed'
    BY <1>3, <2>1 DEF TestRecvQueue, Served, Reapable
  <2>3. Locked' /\ HasRoom'
    BY <1>3 DEF TestRecvQueue, Served, Reapable, Locked, HasRoom, Watched
  <2>4. Listed' /\ Alone'
    BY <1>3, SMTT(30) DEF TestRecvQueue, Served, Reapable, Listed, Alone,
           OneNodePerPeer, Outbound, Inbound, FindNode
  <2> QED
    BY <2>2, <2>3, <2>4
<1>4. ASSUME EndReap
      PROVE  PInv'
  <2>1. Typed' /\ Placed'
    BY <1>4 DEF EndReap
  <2>2. Locked' /\ HasRoom'
    BY <1>4 DEF EndReap, Locked, HasRoom, Watched
  <2>3. Listed' /\ Alone'
    BY <1>4 DEF EndReap, Listed, Alone, OneNodePerPeer, Outbound, Inbound,
           FindNode
  <2> QED
    BY <2>1, <2>2, <2>3
<1>5. ASSUME AcceptNothing
      PROVE  PInv'
  <2>1. Typed' /\ Placed'
    BY <1>5 DEF AcceptNothing
  <2>2. Locked' /\ HasRoom'
    BY <1>5 DEF AcceptNothing, Locked, HasRoom, Watched
  <2>3. Listed' /\ Alone'
    BY <1>5 DEF AcceptNothing, Listed, Alone, OneNodePerPeer, Outbound,
           Inbound, FindNode
  <2> QED
    BY <2>1, <2>2, <2>3
<1>6. ASSUME NEW n \in Node, AcceptSocket(n)
      PROVE  PInv'
  <2>1. node' \in [Node -> NodeType]
    <3>1. NoService \in Service \cup {NoService} /\ TRUE \in BOOLEAN
      OBVIOUS
    <3> QED
      BY <1>6, <3>1, NodeFields DEF AcceptSocket, NewNode
  <2>2. Typed' /\ Placed'
    BY <1>6, <2>1 DEF AcceptSocket, NewNode
  <2>3. Locked' /\ HasRoom'
    BY <1>6 DEF AcceptSocket, NewNode, Locked, HasRoom, Watched
  <2>4. Listed' /\ Alone'
    BY <1>6 DEF AcceptSocket, NewNode, Listed, Alone, OneNodePerPeer,
           Outbound, Inbound, FindNode
  <2> QED
    BY <2>2, <2>3, <2>4
<1>7. ASSUME BeginFdset
      PROVE  PInv'
  <2>1. Typed' /\ Placed'
    BY <1>7 DEF BeginFdset
  <2>2. Locked' /\ HasRoom'
    BY <1>7 DEF BeginFdset, Locked, HasRoom, Watched
  <2>3. Listed' /\ Alone'
    BY <1>7 DEF BeginFdset, Listed, Alone, OneNodePerPeer, Outbound, Inbound,
           FindNode
  <2> QED
    BY <2>1, <2>2, <2>3
<1>8. ASSUME NEW n \in Node, Watch(n)
      PROVE  PInv'
  <2>1. Typed' /\ Placed'
    BY <1>8 DEF Watch, Skipped, MayRecv, WantsSend, TryLock
  <2>2. Locked' /\ HasRoom'
    BY <1>8 DEF Watch, Skipped, MayRecv, WantsSend, TryLock, Locked, HasRoom,
           Watched
  <2>3. Listed' /\ Alone'
    BY <1>8 DEF Watch, Skipped, MayRecv, WantsSend, TryLock, Listed, Alone,
           OneNodePerPeer, Outbound, Inbound, FindNode
  <2> QED
    BY <2>1, <2>2, <2>3
<1>9. ASSUME EndFdset
      PROVE  PInv'
  <2>1. Typed' /\ Placed'
    BY <1>9 DEF EndFdset
  <2>2. Locked' /\ HasRoom'
    BY <1>9 DEF EndFdset, Locked, HasRoom, Watched
  <2>3. Listed' /\ Alone'
    BY <1>9 DEF EndFdset, Listed, Alone, OneNodePerPeer, Outbound, Inbound,
           FindNode
  <2> QED
    BY <2>1, <2>2, <2>3
<1>10. ASSUME NEW r \in SUBSET fdset.recv, NEW w \in SUBSET fdset.send,
             SelectSome(r, w)
      PROVE  PInv'
  <2>1. Typed' /\ Placed'
    BY <1>10 DEF SelectSome
  <2>2. Locked' /\ HasRoom'
    BY <1>10 DEF SelectSome, Locked, HasRoom, Watched
  <2>3. Listed' /\ Alone'
    BY <1>10 DEF SelectSome, Listed, Alone, OneNodePerPeer, Outbound, Inbound,
           FindNode
  <2> QED
    BY <2>1, <2>2, <2>3
<1>11. ASSUME SelectNone
      PROVE  PInv'
  <2>1. Typed' /\ Placed'
    BY <1>11 DEF SelectNone, NoSockets
  <2>2. Locked' /\ HasRoom'
    BY <1>11 DEF SelectNone, NoSockets, Locked, HasRoom, Watched
  <2>3. Listed' /\ Alone'
    BY <1>11 DEF SelectNone, NoSockets, Listed, Alone, OneNodePerPeer,
           Outbound, Inbound, FindNode
  <2> QED
    BY <2>1, <2>2, <2>3
<1>12. ASSUME NEW n \in Node, SkipNode(n)
      PROVE  PInv'
  <2>1. Typed' /\ Placed'
    BY <1>12 DEF SkipNode, Skipped
  <2>2. Locked' /\ HasRoom'
    BY <1>12 DEF SkipNode, Skipped, Locked, HasRoom, Watched
  <2>3. Listed' /\ Alone'
    BY <1>12 DEF SkipNode, Skipped, Listed, Alone, OneNodePerPeer, Outbound,
           Inbound, FindNode
  <2> QED
    BY <2>1, <2>2, <2>3
<1>13. ASSUME NEW n \in Node, BeginRecv(n)
      PROVE  PInv'
  <2>1. Typed' /\ Placed'
    BY <1>13 DEF BeginRecv, At, Ready, TryLock
  <2>2. Locked' /\ HasRoom'
    BY <1>13 DEF BeginRecv, At, Ready, TryLock, Locked, HasRoom, Watched
  <2>3. Listed' /\ Alone'
    BY <1>13 DEF BeginRecv, At, Ready, TryLock, Listed, Alone, OneNodePerPeer,
           Outbound, Inbound, FindNode
  <2> QED
    BY <2>1, <2>2, <2>3
<1>14. ASSUME NEW n \in Node, BeginSend(n)
      PROVE  PInv'
  <2>1. Typed' /\ Placed'
    BY <1>14 DEF BeginSend, At, Ready, TryLock
  <2>2. Locked' /\ HasRoom'
    BY <1>14 DEF BeginSend, At, Ready, TryLock, Locked, HasRoom, Watched
  <2>3. Listed' /\ Alone'
    BY <1>14 DEF BeginSend, At, Ready, TryLock, Listed, Alone, OneNodePerPeer,
           Outbound, Inbound, FindNode
  <2> QED
    BY <2>1, <2>2, <2>3
<1>15. ASSUME EndService
      PROVE  PInv'
  <2>1. Typed' /\ Placed'
    BY <1>15 DEF EndService, NoSockets
  <2>2. Locked' /\ HasRoom'
    BY <1>15 DEF EndService, NoSockets, Locked, HasRoom, Watched
  <2>3. Listed' /\ Alone'
    BY <1>15 DEF EndService, NoSockets, Listed, Alone, OneNodePerPeer,
           Outbound, Inbound, FindNode
  <2> QED
    BY <2>1, <2>2, <2>3
<1>16. ASSUME SocketRecvData
      PROVE  PInv'
  <2>1. socket.cur \in Node
    BY <1>16 DEF SocketRecvData
  <2>2. node' \in [Node -> NodeType]
    <3>1. CASE node' = [node EXCEPT ![socket.cur].recv = @ + 1]
      BY <2>1, <3>1, NodeFields
    <3>2. CASE node' = [node EXCEPT ![socket.cur].disconnect = TRUE]
      BY <2>1, <3>2, NodeFields
    <3>3. CASE node' = node
      BY <3>3
    <3> QED
      BY <1>16, <3>1, <3>2, <3>3 DEF SocketRecvData
  <2>3. Typed' /\ Placed'
    BY <1>16, <2>2 DEF SocketRecvData, Served
  <2>4. Locked' /\ HasRoom'
    BY <1>16 DEF SocketRecvData, Served, Locked, HasRoom, Watched
  <2>5. \A n \in Node : /\ node'[n].state = node[n].state
                       /\ node'[n].inbound = node[n].inbound
                       /\ node'[n].service = node[n].service
    BY <1>16 DEF SocketRecvData
  <2>6. UNCHANGED <<vNodes, opener, handler>>
    BY <1>16 DEF SocketRecvData
  <2>7. Listed'
    BY <2>5, <2>6 DEF Listed
  <2>8. Alone'
    BY <2>5, <2>6 DEF Listed, Alone, OneNodePerPeer, Outbound, Inbound,
                      FindNode
  <2> QED
    BY <2>3, <2>4, <2>7, <2>8
<1>17. ASSUME ReceiveJson
      PROVE  PInv'
  <2>1. Typed' /\ Placed'
    BY <1>17 DEF ReceiveJson
  <2>2. Locked' /\ HasRoom'
    BY <1>17 DEF ReceiveJson, Locked, HasRoom, Watched
  <2>3. Listed' /\ Alone'
    BY <1>17 DEF ReceiveJson, Listed, Alone, OneNodePerPeer, Outbound,
           Inbound, FindNode
  <2> QED
    BY <2>1, <2>2, <2>3
<1>18. ASSUME NEW broadcast \in BOOLEAN,
             ParseHandleJsonData(broadcast)
      PROVE  PInv'
  <2>1. node' \in [Node -> NodeType]
    <3>1. \A n \in Node : [node[n] EXCEPT !.send = @ + 1] \in NodeType
      BY SMTT(30)
    <3> QED
      BY <1>18, <3>1 DEF ParseHandleJsonData
  <2>d. dead' \in BOOLEAN
    BY <1>18 DEF ParseHandleJsonData
  <2>2. Typed' /\ Placed'
    BY <1>18, <2>1, <2>d DEF ParseHandleJsonData, Served, Audience, Outbound,
           Inbound
  <2>5. \A n \in Node : /\ node'[n].state = node[n].state
                       /\ node'[n].inbound = node[n].inbound
                       /\ node'[n].service = node[n].service
                       /\ node'[n].recv = node[n].recv
    BY <1>18 DEF ParseHandleJsonData
  <2>6. UNCHANGED <<vNodes, opener, handler>>
    BY <1>18 DEF ParseHandleJsonData
  <2>3. Locked' /\ HasRoom'
    BY <1>18, <2>5 DEF ParseHandleJsonData, Served, Locked, HasRoom, Watched
  <2>7. Listed'
    BY <2>5, <2>6 DEF Listed
  <2>8. Alone'
    BY <2>5, <2>6 DEF Listed, Alone, OneNodePerPeer, Outbound, Inbound,
                      FindNode
  <2> QED
    BY <2>2, <2>3, <2>7, <2>8
<1>19. ASSUME SendMessage
      PROVE  PInv'
  <2>1. node' \in [Node -> NodeType]
    BY <1>19 DEF SendMessage
  <2>2. Typed' /\ Placed'
    BY <1>19, <2>1 DEF SendMessage
  <2>3. Locked' /\ HasRoom'
    BY <1>19 DEF SendMessage, Locked, HasRoom, Watched
  <2>4. Listed' /\ Alone'
    BY <1>19 DEF SendMessage, Listed, Alone, OneNodePerPeer, Outbound,
           Inbound, FindNode
  <2> QED
    BY <2>2, <2>3, <2>4
<1>20. ASSUME EndSend
      PROVE  PInv'
  <2>1. Typed' /\ Placed'
    BY <1>20 DEF EndSend, Served, Unlocked
  <2>2. Locked' /\ HasRoom'
    BY <1>20 DEF EndSend, Served, Unlocked, Locked, HasRoom, Watched
  <2>3. Listed' /\ Alone'
    BY <1>20 DEF EndSend, Served, Unlocked, Listed, Alone, OneNodePerPeer,
           Outbound, Inbound, FindNode
  <2> QED
    BY <2>1, <2>2, <2>3
<1>21. ASSUME SendError
      PROVE  PInv'
  <2>1. node' \in [Node -> NodeType]
    <3>1. socket.cur \in Node
      BY <1>21 DEF SendError
    <3> QED
      BY <1>21, <3>1, NodeFields DEF SendError
  <2>2. Typed' /\ Placed'
    BY <1>21, <2>1 DEF SendError
  <2>3. Locked' /\ HasRoom'
    BY <1>21 DEF SendError, Locked, HasRoom, Watched
  <2>4. Listed' /\ Alone'
    BY <1>21 DEF SendError, Listed, Alone, OneNodePerPeer, Outbound, Inbound,
           FindNode
  <2> QED
    BY <2>2, <2>3, <2>4
<1>22. ASSUME JsonFallsOff
      PROVE  PInv'
  <2>1. Typed' /\ Placed'
    BY <1>22 DEF JsonFallsOff
  <2>2. Locked' /\ HasRoom'
    BY <1>22 DEF JsonFallsOff, Locked, HasRoom, Watched
  <2>3. Listed' /\ Alone'
    BY <1>22 DEF JsonFallsOff, Listed, Alone, OneNodePerPeer, Outbound,
           Inbound, FindNode
  <2> QED
    BY <2>1, <2>2, <2>3
<1>23. ASSUME SendRetry
      PROVE  PInv'
  BY <1>23, PInvStutters DEF SendRetry
<1> HIDE DEF PInv
<1> QED
  BY <1>1, <1>2, <1>3, <1>4, <1>5, <1>6, <1>7, <1>8, <1>9, <1>10, <1>11,
     <1>12, <1>13, <1>14, <1>15, <1>16, <1>17, <1>18, <1>19, <1>20, <1>21,
     <1>22, <1>23
  DEF ThreadSocketHandler, SocketWork, SocketSendData

\* The steps of ThreadOpenConnections keep the invariant.
LEMMA OpenerStep ==
  ASSUME PInv, ThreadOpenConnections
  PROVE  PInv'
<1> USE ConstantFacts
        DEF PInv, Typed, NodeType, SocketType, OpenerType, HandlerType,
            Placed, locks, OpenerAt, Visits
<1>1. ASSUME NEW i \in 1..Len(vAddrToConnect), FoundNode(i)
      PROVE  PInv'
  <2>1. Typed' /\ Placed'
    BY <1>1, Entries DEF FoundNode, FindNode
  <2>2. Locked' /\ HasRoom'
    BY <1>1, Entries DEF FoundNode, FindNode, Locked, HasRoom, Watched
  <2>3. Listed' /\ Alone'
    BY <1>1, Entries DEF FoundNode, FindNode, Listed, Alone, OneNodePerPeer,
           Outbound, Inbound
  <2> QED
    BY <2>1, <2>2, <2>3
<1>2. ASSUME CountReference
      PROVE  PInv'
  <2>1. Typed' /\ Placed'
    BY <1>2, ZenonT(30) DEF CountReference, At, Use
  <2>2. Locked' /\ HasRoom'
    BY <1>2 DEF CountReference, At, Use, Locked, HasRoom, Watched
  <2>3. Listed' /\ Alone'
    BY <1>2 DEF CountReference, At, Use, Listed, Alone, OneNodePerPeer,
           Outbound, Inbound, FindNode
  <2> QED
    BY <2>1, <2>2, <2>3
<1>3. ASSUME NEW i \in 1..Len(vAddrToConnect), ConnectNode(i)
      PROVE  PInv'
  <2>1. Typed' /\ Placed'
    BY <1>3, Entries DEF ConnectNode, FindNode
  <2>2. Locked' /\ HasRoom'
    BY <1>3, Entries DEF ConnectNode, FindNode, Locked, HasRoom, Watched
  <2>3. Listed' /\ Alone'
    BY <1>3, Entries DEF ConnectNode, FindNode, Listed, Alone, OneNodePerPeer,
           Outbound, Inbound
  <2> QED
    BY <2>1, <2>2, <2>3
<1>4. ASSUME ConnectFails
      PROVE  PInv'
  <2>1. Typed' /\ Placed'
    BY <1>4 DEF ConnectFails, At
  <2>2. Locked' /\ HasRoom'
    BY <1>4 DEF ConnectFails, At, Locked, HasRoom, Watched
  <2>3. Listed' /\ Alone'
    BY <1>4 DEF ConnectFails, At, Listed, Alone, OneNodePerPeer, Outbound,
           Inbound, FindNode
  <2> QED
    BY <2>1, <2>2, <2>3
<1>5. ASSUME NEW n \in Node, Connected(n)
      PROVE  PInv'
  <2>1. node' \in [Node -> NodeType]
    <3>1. opener.cur \in Service \cup {NoService} /\ FALSE \in BOOLEAN
      BY <1>5 DEF Connected, Alone
    <3> QED
      BY <1>5, <3>1, NodeFields DEF Connected, NewNode
  <2>2. Typed' /\ Placed'
    BY <1>5, <2>1 DEF Connected, At, NewNode
  <2>3. Locked' /\ HasRoom'
    BY <1>5 DEF Connected, At, NewNode, Locked, HasRoom, Watched
  <2>4. Listed' /\ Alone'
    BY <1>5 DEF Connected, At, NewNode, Listed, Alone, OneNodePerPeer,
           Outbound, Inbound, FindNode
  <2> QED
    BY <2>2, <2>3, <2>4
<1>6. ASSUME EndRound
      PROVE  PInv'
  <2>1. Typed' /\ Placed'
    BY <1>6 DEF EndRound
  <2>2. Locked' /\ HasRoom'
    BY <1>6 DEF EndRound, Locked, HasRoom, Watched
  <2>3. Listed' /\ Alone'
    BY <1>6 DEF EndRound, Listed, Alone, OneNodePerPeer, Outbound, Inbound,
           FindNode
  <2> QED
    BY <2>1, <2>2, <2>3
<1> QED
  BY <1>1, <1>2, <1>3, <1>4, <1>5, <1>6
  DEF ThreadOpenConnections

\* The steps of ThreadMessageHandler keep the invariant.
LEMMA HandlerStep ==
  ASSUME PInv, ThreadMessageHandler
  PROVE  PInv'
<1> USE ConstantFacts
        DEF PInv, Typed, NodeType, SocketType, OpenerType, HandlerType,
            Placed, locks, HandlerAt
<1>1. ASSUME CopyNodes
      PROVE  PInv'
  <2>1. Typed' /\ Placed'
    BY <1>1 DEF CopyNodes
  <2>2. Locked' /\ HasRoom'
    BY <1>1 DEF CopyNodes, Locked, HasRoom, Watched
  <2>3. Listed' /\ Alone'
    BY <1>1 DEF CopyNodes, Listed, Alone, OneNodePerPeer, Outbound, Inbound,
           FindNode
  <2> QED
    BY <2>1, <2>2, <2>3
<1>2. ASSUME NEW n \in Node, TryRecvLock(n)
      PROVE  PInv'
  <2>1. dead' \in BOOLEAN
    BY <1>2 DEF TryRecvLock, Use
  <2>2. UNCHANGED <<vNodes, node, mu_vNodes, mu_vSendMsg, fdset, socket,
                    opener>>
    BY <1>2 DEF TryRecvLock
  <2>3. handler.pc = "node" /\ n \in handler.todo
    BY <1>2 DEF TryRecvLock
  <2>4. HasRoom' /\ Alone'
    BY <2>2 DEF HasRoom, Watched, Alone, OneNodePerPeer, Outbound, Inbound,
                FindNode
  <2>5. CASE /\ mu_vRecvMsg[n] = Free
             /\ mu_vRecvMsg' = [mu_vRecvMsg EXCEPT ![n] = "handler"]
             /\ handler' = [At(handler, "process", n) EXCEPT
                              !.left = node[n].recv]
    <3>1. handler' = [pc |-> "process", todo |-> handler.todo, cur |-> n,
                      left |-> node[n].recv]
      BY <2>5 DEF At
    <3>2. Typed' /\ Placed'
      BY <2>1, <2>2, <2>3, <2>5, <3>1
    <3>3. Locked' /\ Listed'
      BY <2>2, <2>3, <2>5, <3>1 DEF Locked, Listed
    <3> QED
      BY <2>4, <3>2, <3>3
  <2>6. CASE handler' = At(handler, "trysend", n) /\ UNCHANGED mu_vRecvMsg
    <3>1. Typed' /\ Placed'
      BY <2>1, <2>2, <2>3, <2>6 DEF At
    <3>2. Locked' /\ Listed'
      BY <2>2, <2>3, <2>6 DEF At, Locked, Listed
    <3> QED
      BY <2>4, <3>1, <3>2
  <2> QED
    BY <1>2, <2>5, <2>6 DEF TryRecvLock, TryLock
<1>3. ASSUME LockSendQueue
      PROVE  PInv'
  <2>1. dead' \in BOOLEAN
    BY <1>3 DEF LockSendQueue, Use
  <2>2. Typed' /\ Placed'
    BY <1>3, <2>1 DEF LockSendQueue, Use
  <2>3. Locked' /\ HasRoom'
    BY <1>3 DEF LockSendQueue, Use, Locked, HasRoom, Watched
  <2>4. Listed' /\ Alone'
    BY <1>3 DEF LockSendQueue, Use, Listed, Alone, OneNodePerPeer, Outbound,
           Inbound, FindNode
  <2> QED
    BY <2>2, <2>3, <2>4
<1>4. ASSUME PushMessage
      PROVE  PInv'
  <2>1. node' \in [Node -> NodeType]
    BY <1>4 DEF PushMessage
  <2>2. dead' \in BOOLEAN
    BY <1>4 DEF PushMessage, Use
  <2>3. Typed' /\ Placed'
    <3>1. handler' \in HandlerType
      <4>1. handler.left \in Nat /\ handler.left - 1 \in Nat
        BY <1>4 DEF PushMessage
      <4>2. handler' = [pc |-> "process", todo |-> handler.todo,
                        cur |-> handler.cur, left |-> handler.left - 1]
        BY <1>4 DEF PushMessage
      <4> QED
        BY <4>1, <4>2
    <3>2. UNCHANGED <<vNodes, mu_vNodes, mu_vRecvMsg, fdset, socket, opener>>
      BY <1>4 DEF PushMessage
    <3>3. mu_vSendMsg' \in [Node -> {Free, "socket", "handler"}]
      BY <1>4 DEF PushMessage
    <3>4. Placed'
      BY <1>4 DEF PushMessage
    <3> QED
      BY <2>1, <2>2, <3>1, <3>2, <3>3, <3>4
  <2>4. Locked' /\ HasRoom'
    BY <1>4 DEF PushMessage, Use, Locked, HasRoom, Watched
  <2>5. Listed' /\ Alone'
    BY <1>4 DEF PushMessage, Use, Listed, Alone, OneNodePerPeer, Outbound,
           Inbound, FindNode
  <2> QED
    BY <2>3, <2>4, <2>5
<1>5. ASSUME PassOver
      PROVE  PInv'
  <2>1. dead' \in BOOLEAN
    BY <1>5 DEF PassOver, Use
  <2>2. Typed' /\ Placed'
    BY <1>5, <2>1 DEF PassOver, Use
  <2>3. Locked' /\ HasRoom'
    BY <1>5 DEF PassOver, Use, Locked, HasRoom, Watched
  <2>4. Listed' /\ Alone'
    BY <1>5 DEF PassOver, Use, Listed, Alone, OneNodePerPeer, Outbound,
           Inbound, FindNode
  <2> QED
    BY <2>2, <2>3, <2>4
<1>6. ASSUME EndProcess
      PROVE  PInv'
  <2>1. node' \in [Node -> NodeType]
    BY <1>6 DEF EndProcess
  <2>2. dead' \in BOOLEAN
    BY <1>6 DEF EndProcess, Use
  <2>3. Typed' /\ Placed'
    BY <1>6, <2>1, <2>2 DEF EndProcess, Use
  <2>4. Locked' /\ HasRoom'
    BY <1>6 DEF EndProcess, Use, Locked, HasRoom, Watched
  <2>5. Listed' /\ Alone'
    BY <1>6 DEF EndProcess, Use, Listed, Alone, OneNodePerPeer, Outbound,
           Inbound, FindNode
  <2> QED
    BY <2>3, <2>4, <2>5
<1>7. ASSUME TrySendLock
      PROVE  PInv'
  <2>1. dead' \in BOOLEAN
    BY <1>7 DEF TrySendLock, Use
  <2>2. Typed' /\ Placed'
    BY <1>7, <2>1, ZenonT(30) DEF TrySendLock, Served, Use
  <2>3. Locked' /\ HasRoom'
    BY <1>7 DEF TrySendLock, Served, Use, Locked, HasRoom, Watched
  <2>4. Listed' /\ Alone'
    BY <1>7 DEF TrySendLock, Served, Use, Listed, Alone, OneNodePerPeer,
           Outbound, Inbound, FindNode
  <2> QED
    BY <2>2, <2>3, <2>4
<1>8. ASSUME EndPass
      PROVE  PInv'
  <2>1. Typed' /\ Placed'
    BY <1>8 DEF EndPass
  <2>2. Locked' /\ HasRoom'
    BY <1>8 DEF EndPass, Locked, HasRoom, Watched
  <2>3. Listed' /\ Alone'
    BY <1>8 DEF EndPass, Listed, Alone, OneNodePerPeer, Outbound, Inbound,
           FindNode
  <2> QED
    BY <2>1, <2>2, <2>3
<1>9. ASSUME CarryOut
      PROVE  PInv'
  <2>1. dead' \in BOOLEAN
    BY <1>9 DEF CarryOut, Use
  <2>2. Typed' /\ Placed'
    BY <1>9, <2>1 DEF CarryOut, Use
  <2>3. Locked' /\ HasRoom'
    BY <1>9 DEF CarryOut, Use, Locked, HasRoom, Watched
  <2>4. Listed' /\ Alone'
    BY <1>9 DEF CarryOut, Use, Listed, Alone, OneNodePerPeer, Outbound,
           Inbound, FindNode
  <2> QED
    BY <2>2, <2>3, <2>4
<1> QED
  BY <1>1, <1>2, <1>3, <1>4, <1>5, <1>6, <1>7, <1>8, <1>9
  DEF ThreadMessageHandler

-----------------------------------------------------------------------------
\* The invariant holds at the start and every step keeps it.
LEMMA PInvInit ==
  ASSUME Init
  PROVE  PInv
<1> USE ConstantFacts DEF Init, PInv, NoSockets
<1>1. Typed /\ Placed
  BY DEF Typed, NodeType, SocketType, OpenerType, HandlerType, Placed
<1>2. Locked /\ HasRoom
  BY DEF Locked, HasRoom, Watched
<1>3. Listed /\ Alone
  BY DEF Listed, Alone, OneNodePerPeer, Outbound, FindNode
<1> QED
  BY <1>1, <1>2, <1>3

LEMMA PInvStep ==
  ASSUME PInv, [Next]_vars
  PROVE  PInv'
  BY SocketStep, OpenerStep, HandlerStep, PInvStutters DEF Next, Dead

(***************************************************************************)
(* The peer threads keep their invariant, whatever the order of their      *)
(* steps.                                                                  *)
(***************************************************************************)
THEOREM PeerInvariant == Spec => []PInv
<1>1. Init => PInv
  BY PInvInit
<1>2. PInv /\ [Next]_vars => PInv'
  BY PInvStep
<1> QED
  BY <1>1, <1>2, PTL DEF Spec

(***************************************************************************)
(* The locks of vNodes and of the queues are held exactly where the code   *)
(* says, vNodes lists the live nodes, and a receive queue, whose length is *)
(* tested when select is prepared and which grows after select has         *)
(* returned, is at most one message over its limit.                        *)
(***************************************************************************)
THEOREM PeerTypeCorrect == Spec => []TypeOK
<1>1. PInv => TypeOK
  <2> SUFFICES ASSUME PInv PROVE TypeOK
    OBVIOUS
  <2>1. vNodes = {n \in Node : node[n].state = "live"}
    BY DEF PInv, Listed
  <2>2. \A n \in Node : node[n].recv \in 0..(MAXRECVSIZE + 1)
    BY PeerAssumption DEF PInv, Typed, NodeType, HasRoom
  <2>3. \A n \in Node :
          /\ (mu_vSendMsg[n] = "socket") =
               (socket.pc = "send" /\ socket.cur = n)
          /\ (mu_vRecvMsg[n] = "socket") =
               (socket.pc \in {"recv", "json"} /\ socket.cur = n)
          /\ (mu_vRecvMsg[n] = "handler") =
               (handler.pc \in {"process", "lock", "push"} /\ handler.cur = n)
          /\ (mu_vSendMsg[n] = "handler") =
               (handler.pc = "push" /\ handler.cur = n)
    BY DEF PInv, Locked
  <2>4. (mu_vNodes = "socket") = (socket.pc \in {"reap", "reap2", "watch"})
    BY DEF PInv, Locked
  <2> QED
    BY <2>1, <2>2, <2>3, <2>4 DEF TypeOK
<1> QED
  BY <1>1, PeerInvariant, PTL

(***************************************************************************)
(* There is never more than one connection to a configured peer.           *)
(***************************************************************************)
THEOREM OneConnectionPerPeer == Spec => []OneNodePerPeer
<1>1. PInv => OneNodePerPeer
  BY DEF PInv, Alone
<1> QED
  BY <1>1, PeerInvariant, PTL

(***************************************************************************)
(* What ProcessMessages iterates over is not changed by another thread.    *)
(***************************************************************************)
THEOREM ProcessedQueueStable == Spec => ProcessedQueueIsStable
<1> DEFINE Stable ==
      Processing /\ Processing'
        => node'[handler.cur].recv = node[handler.cur].recv
<1>1. ASSUME PInv, Next, handler.pc \in {"process", "lock", "push"},
             handler'.pc \in {"process", "lock", "push"}
      PROVE  node'[handler.cur].recv = node[handler.cur].recv
  <2> USE DEF PInv, Typed, NodeType, Placed
  <2>1. handler.cur \in Node /\ node[handler.cur].state # "none"
    BY <1>1 DEF Listed
  <2>2. CASE ThreadSocketHandler
    <3>1. socket.pc = "recv" => socket.cur # handler.cur
      BY <1>1, <2>1, ConstantFacts DEF Locked
    <3>2. CASE UNCHANGED node
      BY <3>2
    <3>3. CASE TestRecvQueue
      BY <1>1, <2>1, <3>3 DEF TestRecvQueue
    <3>4. ASSUME NEW n \in Node, AcceptSocket(n)
          PROVE  node'[handler.cur].recv = node[handler.cur].recv
      BY <1>1, <2>1, <3>4 DEF AcceptSocket, NewNode
    <3>5. CASE SocketRecvData
      BY <1>1, <2>1, <3>1, <3>5 DEF SocketRecvData, SocketAt
    <3>6. ASSUME NEW broadcast \in BOOLEAN, ParseHandleJsonData(broadcast)
          PROVE  node'[handler.cur].recv = node[handler.cur].recv
      BY <1>1, <2>1, <3>6 DEF ParseHandleJsonData
    <3>7. CASE SendMessage \/ SendError
      BY <1>1, <2>1, <3>7 DEF SendMessage, SendError
    <3> QED
      BY <2>2, <3>2, <3>3, <3>4, <3>5, <3>6, <3>7
      DEF ThreadSocketHandler, SocketWork, SocketSendData, SendRetry,
          JsonFallsOff, vars, BeginReap, EndReap, TestSendQueue,
          AcceptNothing, BeginFdset, EndFdset, SelectNone, Watch, SelectSome,
          SkipNode, BeginRecv, BeginSend, EndService, ReceiveJson, EndSend
  <2>3. CASE ThreadOpenConnections
    BY <1>1, <2>1, <2>3 DEF ThreadOpenConnections, FoundNode, CountReference,
       ConnectNode, ConnectFails, Connected, NewNode, EndRound
  <2>4. CASE ThreadMessageHandler
    <3>1. CASE PushMessage
      BY <1>1, <2>1, <3>1 DEF PushMessage
    <3>2. CASE EndProcess
      BY <1>1, <3>2 DEF EndProcess, HandlerType
    <3> QED
      BY <1>1, <2>4, <3>1, <3>2
      DEF ThreadMessageHandler, CopyNodes, TryRecvLock, CarryOut,
          LockSendQueue, PassOver, TrySendLock, EndPass
  <2>5. CASE Dead
    BY <2>5 DEF Dead, vars
  <2> QED
    BY <1>1, <2>2, <2>3, <2>4, <2>5 DEF Next
<1>2. PInv /\ [Next]_vars => [Stable]_vars
  BY <1>1 DEF Processing
<1> QED
  BY <1>2, PeerInvariant, PTL DEF Spec, ProcessedQueueIsStable

-----------------------------------------------------------------------------
\* How a step changes the set of inbound connections: only AcceptSocket adds
\* one, while there are at most MAXINBOUND.
LEMMA InboundStep ==
  ASSUME PInv, Next
  PROVE  \/ Inbound' = Inbound
         \/ \E n : ~ TooManyInbound /\ Inbound' = Inbound \cup {n}
         \/ \E n : Inbound' = Inbound \ {n}
<1> USE DEF PInv, Typed, NodeType, Placed, Listed
<1>1. CASE TestRecvQueue
  <2>1. CASE UNCHANGED <<vNodes, node>>
    BY <2>1 DEF Inbound
  <2>2. ASSUME NEW c \in Node, vNodes' = vNodes \ {c},
               node' = [node EXCEPT ![c].state = "deleted"]
        PROVE  Inbound' = Inbound \ {c}
    BY <2>2 DEF Inbound
  <2> QED
    BY <1>1, <2>1, <2>2 DEF TestRecvQueue, SocketAt
<1>2. ASSUME NEW n \in Node, AcceptSocket(n)
      PROVE  ~ TooManyInbound /\ Inbound' = Inbound \cup {n}
  BY <1>2 DEF AcceptSocket, NewNode, Inbound
<1>3. ASSUME NEW n \in Node, Connected(n)
      PROVE  Inbound' = Inbound
  BY <1>3 DEF Connected, NewNode, Inbound
<1>4. CASE SocketRecvData
  BY <1>4 DEF SocketRecvData, Inbound
<1>5. ASSUME NEW broadcast \in BOOLEAN, ParseHandleJsonData(broadcast)
      PROVE  Inbound' = Inbound
  BY <1>5 DEF ParseHandleJsonData, Inbound
<1>6. CASE SendMessage \/ SendError
  BY <1>6 DEF SendMessage, SendError, Inbound
<1>7. CASE PushMessage \/ EndProcess
  BY <1>7, SMTT(30) DEF PushMessage, EndProcess, Inbound
<1>8. CASE UNCHANGED <<vNodes, node>>
  BY <1>8 DEF Inbound
<1>9. CASE ThreadSocketHandler
  BY <1>1, <1>2, <1>4, <1>5, <1>6, <1>8, <1>9
  DEF ThreadSocketHandler, SocketWork, SocketSendData, SendRetry, JsonFallsOff,
      vars, BeginReap, EndReap, TestSendQueue,
      AcceptNothing, BeginFdset, EndFdset, SelectNone, Watch, SelectSome,
      SkipNode, BeginRecv, BeginSend, EndService, ReceiveJson, EndSend
<1>10. CASE ThreadOpenConnections
  BY <1>3, <1>8, <1>10 DEF ThreadOpenConnections, FoundNode, CountReference,
     ConnectNode, ConnectFails, EndRound
<1>11. CASE ThreadMessageHandler
  BY <1>7, <1>8, <1>11 DEF ThreadMessageHandler, CopyNodes, TryRecvLock,
     CarryOut, LockSendQueue, PassOver, TrySendLock, EndPass
<1> QED
  BY <1>8, <1>9, <1>10, <1>11 DEF Next, Dead, vars

(***************************************************************************)
(* Whatever connects and disconnects, there are at most MAXINBOUND + 1     *)
(* inbound connections: one more than netbase.h:22 says, since             *)
(* AcceptSocket tests with > before it lets another one in, and never two. *)
(***************************************************************************)
InboundAtMostOneOver == Cardinality(Inbound) <= MAXINBOUND + 1

THEOREM InboundNeverExceeds == Spec => []InboundAtMostOneOver
<1> DEFINE Bounded == IsFiniteSet(Inbound) /\ InboundAtMostOneOver
<1>1. Init => Bounded
  <2> SUFFICES ASSUME Init PROVE Bounded
    OBVIOUS
  <2>1. Inbound = {}
    BY DEF Init, Inbound
  <2> QED
    BY <2>1, FS_EmptySet, PeerAssumption DEF InboundAtMostOneOver
<1>2. PInv /\ Bounded /\ [Next]_vars => Bounded'
  <2> SUFFICES ASSUME PInv, Bounded, [Next]_vars PROVE Bounded'
    OBVIOUS
  <2> DEFINE inbound == Inbound
             inbound_ == Inbound'
  <2>1. IsFiniteSet(inbound) /\ Cardinality(inbound) \in Nat
    BY FS_CardinalityType
  <2>2. \/ inbound_ = inbound
        \/ \E n : /\ Cardinality(inbound) <= MAXINBOUND
                  /\ inbound_ = inbound \cup {n}
        \/ \E n : inbound_ = inbound \ {n}
    <3>1. UNCHANGED vars => Inbound' = Inbound
      BY DEF vars, Inbound
    <3>2. ~ TooManyInbound => Cardinality(inbound) <= MAXINBOUND
      BY <2>1, PeerAssumption DEF TooManyInbound
    <3> QED
      BY <3>1, <3>2, InboundStep, Zenon
  <2>3. Cardinality(inbound) <= MAXINBOUND + 1
    BY DEF InboundAtMostOneOver
  <2> HIDE DEF inbound, inbound_
  <2>4. IsFiniteSet(inbound_) /\ Cardinality(inbound_) <= MAXINBOUND + 1
    <3>1. CASE inbound_ = inbound
      BY <2>1, <2>3, <3>1
    <3>2. ASSUME NEW n, Cardinality(inbound) <= MAXINBOUND,
                 inbound_ = inbound \cup {n}
          PROVE  /\ IsFiniteSet(inbound_)
                 /\ Cardinality(inbound_) <= MAXINBOUND + 1
      <4>1. /\ IsFiniteSet(inbound_)
            /\ \/ Cardinality(inbound_) = Cardinality(inbound)
               \/ Cardinality(inbound_) = Cardinality(inbound) + 1
        BY <2>1, <3>2, FS_AddElement, Zenon
      <4> QED
        BY <2>1, <3>2, <4>1, PeerAssumption
    <3>3. ASSUME NEW n, inbound_ = inbound \ {n}
          PROVE  /\ IsFiniteSet(inbound_)
                 /\ Cardinality(inbound_) <= MAXINBOUND + 1
      <4>1. /\ IsFiniteSet(inbound_)
            /\ \/ Cardinality(inbound_) = Cardinality(inbound)
               \/ Cardinality(inbound_) = Cardinality(inbound) - 1
        BY <2>1, <3>3, FS_RemoveElement, Zenon
      <4> QED
        BY <2>1, <2>3, <3>3, <4>1, PeerAssumption
    <3> QED
      BY <2>2, <3>1, <3>2, <3>3
  <2> QED
    BY <2>4 DEF InboundAtMostOneOver, inbound_
<1> QED
  BY <1>1, <1>2, PeerInvariant, PTL DEF Spec

(***************************************************************************)
(* When ThreadOpenConnections ends for good, each configured peer has its  *)
(* node, although it only compares two counts: no two outbound nodes are   *)
(* of one peer, so that as many nodes as peers leave out no peer.          *)
(***************************************************************************)
THEOREM OpenerEndsConnected == Spec => EndsConnected
<1> DEFINE Ends ==
      opener.pc # "done" /\ opener'.pc = "done"
        => \A service \in Service : \E n \in vNodes :
             node[n].service = service
<1>1. ASSUME PInv, Next, opener.pc # "done", opener'.pc = "done"
      PROVE  \A service \in Service : \E n \in vNodes :
               node[n].service = service
  <2>1. EndRound /\ Cardinality(Outbound) = Len(vAddrToConnect)
    <3>1. ThreadOpenConnections
      <4>1. ThreadSocketHandler => opener' = opener
        BY DEF ThreadSocketHandler, SocketWork, SocketSendData, SendRetry,
            JsonFallsOff, vars, BeginReap, EndReap, TestSendQueue,
           TestRecvQueue, AcceptNothing, AcceptSocket, BeginFdset, EndFdset,
           SelectNone, Watch, SelectSome, SkipNode, BeginRecv, BeginSend,
           EndService, SocketRecvData, ReceiveJson, ParseHandleJsonData,
           SendMessage, EndSend, SendError
      <4>2. ThreadMessageHandler => opener' = opener
        BY DEF ThreadMessageHandler, CopyNodes, TryRecvLock, CarryOut,
           LockSendQueue, PushMessage, PassOver, EndProcess, TrySendLock,
           EndPass
      <4> QED
        BY <1>1, <4>1, <4>2 DEF Next, Dead, vars
    <3>2. EndRound
      <4>1. \A pc, n : opener \in OpenerType => At(opener, pc, n).pc = pc
        BY DEF At, OpenerType
      <4>2. opener \in OpenerType
        BY <1>1 DEF PInv, Typed
      <4>3. ~ \E i \in 1..Len(vAddrToConnect) : FoundNode(i)
        BY <1>1 DEF FoundNode
      <4>4. ~ \E i \in 1..Len(vAddrToConnect) : ConnectNode(i)
        BY <1>1 DEF ConnectNode
      <4>5. ~ CountReference /\ ~ ConnectFails
        BY <1>1, <4>1, <4>2 DEF CountReference, ConnectFails
      <4>6. ~ \E n \in Node : Connected(n)
        BY <1>1, <4>1, <4>2 DEF Connected
      <4> QED
        BY <3>1, <4>3, <4>4, <4>5, <4>6 DEF ThreadOpenConnections
    <3> QED
      BY <1>1, <3>2 DEF EndRound, PInv, Typed, OpenerType
  <2> DEFINE of == [n \in Outbound |-> node[n].service]
  <2>2. of \in Injection(Outbound, Service)
    <3>1. \A n \in Outbound : node[n].service \in Service
      BY <1>1 DEF PInv, Listed, Outbound, Inbound
    <3>2. of \in [Outbound -> Service]
      BY <3>1
    <3>3. \A m, n \in Outbound : of[m] = of[n] => m = n
      BY <1>1 DEF PInv, Alone, OneNodePerPeer
    <3> HIDE DEF of
    <3> QED
      BY <3>2, <3>3 DEF Injection, IsInjective
  <2>5. IsFiniteSet(Service) /\ Cardinality(Service) <= Len(vAddrToConnect)
    <3> DEFINE N == Len(vAddrToConnect)
    <3>1. N \in Nat /\ vAddrToConnect \in [1..N -> Service]
      BY PeerAssumption
    <3>2. vAddrToConnect \in Surjection(1..N, Service)
      BY <3>1 DEF Service, Surjection
    <3>3. IsFiniteSet(1..N) /\ Cardinality(1..N) = N
      BY <3>1, FS_Interval
    <3> QED
      BY <3>2, <3>3, FS_Surjection
  <2>3. of \in Surjection(Outbound, Service)
    <3> HIDE DEF of
    <3>1. /\ IsFiniteSet(Outbound)
          /\ Cardinality(Outbound) <= Cardinality(Service)
      BY <2>2, <2>5, FS_Injection
    <3>2. Cardinality(Outbound) = Cardinality(Service)
      <4>1. Cardinality(Outbound) \in Nat /\ Cardinality(Service) \in Nat
        BY <2>5, <3>1, FS_CardinalityType
      <4>2. Len(vAddrToConnect) \in Nat
        BY PeerAssumption
      <4> QED
        BY <2>1, <2>5, <3>1, <4>1, <4>2
    <3> QED
      BY <2>2, <2>5, <3>2, FS_Injection
  <2>4. \A service \in Service : \E n \in Outbound : of[n] = service
    BY <2>3 DEF Surjection
  <2> QED
    BY <2>4 DEF Outbound
<1>2. PInv /\ [Next]_vars => [Ends]_vars
  BY <1>1
<1> QED
  BY <1>2, PeerInvariant, PTL DEF Spec, EndsConnected
==============================================================================
