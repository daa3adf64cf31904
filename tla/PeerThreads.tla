----------------------------- MODULE PeerThreads -----------------------------
(***************************************************************************)
(* The peer connections of a server (src/src/p2p/net.cpp) under its three  *)
(* threads: ThreadSocketHandler accepts, receives, sends and deletes       *)
(* nodes, ThreadOpenConnections connects to the configured peers,          *)
(* ThreadMessageHandler processes what was received.  They share vNodes    *)
(* and the queues of each BNode, under mu_vNodes, mu_vSendMsg_ and         *)
(* mu_vRecvMsg_ where the code takes them.                                 *)
(*                                                                         *)
(* Abstractions.  A queue is the number of its messages; any message may   *)
(* arrive on any connection.  Loops over vNodes visit it in any order.  A  *)
(* critical section without a blocking call is one step where nobody tells *)
(* its middle apart.  A deleted BNode that a thread still uses, and a send *)
(* queue that two threads push to at once, are undefined behaviour: the    *)
(* process dies or goes on with the old memory, or with a message less.    *)
(* What a message does to the ledger is the subject of Ledger.             *)
(***************************************************************************)
EXTENDS Naturals, Sequences, FiniteSets

CONSTANTS
  Node,         \* BNode objects: a bound on the connections of a behaviour
  vAddrToConnect,  \* the peers of peers.dat, in order; some may be there
                   \* more than once
  MAXINBOUND,   \* limit on inbound connections
  MAXRECVSIZE,  \* limit on received messages, here in messages
  MaxSend,      \* bound on what waits in the queues of a node: no request
                \* arrives that would add to more
  Free, NoService

Service == {vAddrToConnect[i] : i \in 1..Len(vAddrToConnect)}

ASSUME PeerAssumption ==
  /\ MAXINBOUND \in Nat /\ MAXRECVSIZE \in Nat /\ MaxSend \in Nat
  /\ vAddrToConnect \in Seq(Service) /\ NoService \notin Service
  /\ Free \notin {"socket", "handler"}

VARIABLES
  vNodes,       \* the nodes in use
  node,         \* their fields
  mu_vNodes, mu_vSendMsg, mu_vRecvMsg,   \* who holds each lock
  fdset,        \* the sockets select watches, then those it reports; a
                \* local of the loop of ThreadSocketHandler
  socket,       \* ThreadSocketHandler
  opener,       \* ThreadOpenConnections
  handler,      \* ThreadMessageHandler
  dead          \* the process has died

locks == <<mu_vNodes, mu_vSendMsg, mu_vRecvMsg>>
vars == <<vNodes, node, locks, fdset, socket, opener, handler, dead>>

NoNode == "no node"
NoSockets == [recv |-> {}, send |-> {}]

Init ==
  /\ vNodes = {}
  /\ node = [n \in Node |->
               [state |-> "none", inbound |-> FALSE, service |-> NoService,
                disconnect |-> FALSE, send |-> 0, recv |-> 0]]
  /\ mu_vNodes = Free
  /\ mu_vSendMsg = [n \in Node |-> Free]
  /\ mu_vRecvMsg = [n \in Node |-> Free]
  /\ fdset = NoSockets
  /\ socket = [pc |-> "disconnect", todo |-> {}, cur |-> NoNode]
  /\ opener = [pc |-> "find", next |-> 1, cur |-> NoNode]
  /\ handler = [pc |-> "copy", todo |-> {}, cur |-> NoNode, left |-> 0]
  /\ dead = FALSE

\* BNode::BNode, and vNodes.push_back under mu_vNodes.
NewNode(n, inbound, service) ==
  /\ mu_vNodes = Free
  /\ node[n].state = "none"
  /\ node' = [node EXCEPT ![n].state = "live", ![n].inbound = inbound,
                          ![n].service = service]
  /\ vNodes' = vNodes \cup {n}

Inbound == {n \in vNodes : node[n].inbound}
\* Mutant of Outbound: fInbound_ is not looked at.
mutant_Outbound == vNodes
Outbound == vNodes \ Inbound

\* The thread is done with its current node.
Served(thread, pc) ==
  [thread EXCEPT !.pc = pc, !.todo = @ \ {thread.cur}, !.cur = NoNode]

Skipped(thread, n) == [thread EXCEPT !.todo = @ \ {n}]

At(thread, pc, n) == [thread EXCEPT !.pc = pc, !.cur = n]

\* When try_lock can succeed.  It may fail at any time: another thread holds
\* the lock for a moment that is not a step of its own here, or for no reason
\* (std::mutex allows it).  A mutant: as if it always could.
mutant_TryLock(lock) == TRUE
TryLock(lock) == lock = Free

\* Where each thread is, while the process lives.
SocketAt(pc) == ~ dead /\ socket.pc = pc
OpenerAt(pc) == ~ dead /\ opener.pc = pc
HandlerAt(pc) == ~ dead /\ handler.pc = pc

-----------------------------------------------------------------------------
\* ThreadSocketHandler, 1: delete what has disconnected.  The lock of vNodes
\* is held throughout, the locks of the queues are not.
BeginReap ==
  /\ SocketAt("disconnect")
  /\ mu_vNodes = Free
  /\ mu_vNodes' = "socket"
  /\ socket' = [socket EXCEPT !.pc = "reap", !.todo = vNodes]
  /\ UNCHANGED <<vNodes, node, mu_vSendMsg, mu_vRecvMsg, fdset, opener,
                 handler, dead>>

\* fDisconnect_ && vSendMsg_.empty() ...
TestSendQueue(n) ==
  /\ SocketAt("reap")
  /\ n \in socket.todo
  /\ socket' = IF node[n].disconnect /\ node[n].send = 0
               THEN At(socket, "reap2", n) ELSE Skipped(socket, n)
  /\ UNCHANGED <<vNodes, node, locks, fdset, opener, handler, dead>>

\* Mutant of Reapable: the test is the wrong way round.
mutant_Reapable(n) == node[n].recv # 0
Reapable(n) == node[n].recv = 0

\* ... && vRecvMsg_.empty(): out of vNodes, and deleted.
TestRecvQueue ==
  /\ SocketAt("reap2")
  /\ IF Reapable(socket.cur)
     THEN /\ vNodes' = vNodes \ {socket.cur}
          /\ node' = [node EXCEPT ![socket.cur].state = "deleted"]
     ELSE UNCHANGED <<vNodes, node>>
  /\ socket' = Served(socket, "reap")
  /\ UNCHANGED <<locks, fdset, opener, handler, dead>>

EndReap ==
  /\ SocketAt("reap")
  /\ socket.todo = {}
  /\ mu_vNodes' = Free
  /\ socket' = [socket EXCEPT !.pc = "accept"]
  /\ UNCHANGED <<vNodes, node, mu_vSendMsg, mu_vRecvMsg, fdset, opener,
                 handler, dead>>

TooManyInbound == Cardinality(Inbound) > MAXINBOUND

\* AcceptSocket: nothing to accept, an error, or too many already.
AcceptNothing ==
  /\ SocketAt("accept")
  /\ socket' = [socket EXCEPT !.pc = "fdset"]
  /\ UNCHANGED <<vNodes, node, locks, fdset, opener, handler, dead>>

\* AcceptSocket: the count and the insertion are two critical sections, but
\* only this thread adds or removes inbound nodes.
AcceptSocket(n) ==
  /\ SocketAt("accept")
  /\ ~ TooManyInbound
  /\ NewNode(n, TRUE, NoService)
  /\ socket' = [socket EXCEPT !.pc = "fdset"]
  /\ UNCHANGED <<locks, fdset, opener, handler, dead>>

-----------------------------------------------------------------------------
\* ThreadSocketHandler, 2: which sockets to watch.  A node whose send queue
\* can be locked and is not empty is not read from.  CloseSocketDisconnect
\* invalidates the socket.
BeginFdset ==
  /\ SocketAt("fdset")
  /\ mu_vNodes = Free
  /\ mu_vNodes' = "socket"
  /\ socket' = [socket EXCEPT !.pc = "watch", !.todo = vNodes]
  /\ UNCHANGED <<vNodes, node, mu_vSendMsg, mu_vRecvMsg, fdset, opener,
                 handler, dead>>

WantsSend(n) == TryLock(mu_vSendMsg[n]) /\ node[n].send > 0

MayRecv(n) == TryLock(mu_vRecvMsg[n]) /\ node[n].recv <= MAXRECVSIZE

Watch(n) ==
  /\ SocketAt("watch")
  /\ n \in socket.todo
  /\ \/ /\ ~ node[n].disconnect /\ WantsSend(n)
        /\ fdset' = [fdset EXCEPT !.send = @ \cup {n}]
     \/ /\ ~ node[n].disconnect /\ MayRecv(n)
        /\ fdset' = [fdset EXCEPT !.recv = @ \cup {n}]
     \/ fdset' = fdset
  /\ socket' = Skipped(socket, n)
  /\ UNCHANGED <<vNodes, node, locks, opener, handler, dead>>

EndFdset ==
  /\ SocketAt("watch")
  /\ socket.todo = {}
  /\ mu_vNodes' = Free
  /\ socket' = [socket EXCEPT !.pc = "select"]
  /\ UNCHANGED <<vNodes, node, mu_vSendMsg, mu_vRecvMsg, fdset, opener,
                 handler, dead>>

\* select reports some of them, or none when it times out or fails.
SelectSome(r, w) ==
  /\ SocketAt("select")
  /\ r \cup w # {}
  /\ mu_vNodes = Free
  /\ fdset' = [recv |-> r, send |-> w]
  /\ socket' = [socket EXCEPT !.pc = "service", !.todo = vNodes]
  /\ UNCHANGED <<vNodes, node, locks, opener, handler, dead>>

SelectNone ==
  /\ SocketAt("select")
  /\ socket' = [socket EXCEPT !.pc = "disconnect"]
  /\ fdset' = NoSockets
  /\ UNCHANGED <<vNodes, node, locks, opener, handler, dead>>

-----------------------------------------------------------------------------
\* ThreadSocketHandler, 3: serve what select reported, if the queue's lock
\* can be had at once.
Ready(n, queue) == n \in fdset[queue] /\ ~ node[n].disconnect

SkipNode(n) ==
  /\ SocketAt("service")
  /\ n \in socket.todo
  /\ socket' = Skipped(socket, n)
  /\ UNCHANGED <<vNodes, node, locks, fdset, opener, handler, dead>>

BeginRecv(n) ==
  /\ SocketAt("service")
  /\ n \in socket.todo
  /\ Ready(n, "recv") /\ TryLock(mu_vRecvMsg[n])
  /\ mu_vRecvMsg' = [mu_vRecvMsg EXCEPT ![n] = "socket"]
  /\ socket' = At(socket, "recv", n)
  /\ UNCHANGED <<vNodes, node, mu_vNodes, mu_vSendMsg, fdset, opener,
                 handler, dead>>

BeginSend(n) ==
  /\ SocketAt("service")
  /\ n \in socket.todo
  /\ Ready(n, "send") /\ TryLock(mu_vSendMsg[n])
  /\ mu_vSendMsg' = [mu_vSendMsg EXCEPT ![n] = "socket"]
  /\ socket' = At(socket, "send", n)
  /\ UNCHANGED <<vNodes, node, mu_vNodes, mu_vRecvMsg, fdset, opener,
                 handler, dead>>

EndService ==
  /\ SocketAt("service")
  /\ socket.todo = {}
  /\ socket' = [socket EXCEPT !.pc = "disconnect"]
  /\ fdset' = NoSockets
  /\ UNCHANGED <<vNodes, node, locks, opener, handler, dead>>

\* SocketRecvData: a message for the queue; the end of the connection or an
\* error; nothing to read after all.
SocketRecvData ==
  /\ SocketAt("recv")
  /\ \/ /\ node[socket.cur].recv + node[socket.cur].send <= MaxSend
        /\ node' = [node EXCEPT ![socket.cur].recv = @ + 1]
     \/ node' = [node EXCEPT ![socket.cur].disconnect = TRUE]
     \/ node' = node
  /\ mu_vRecvMsg' = [mu_vRecvMsg EXCEPT ![socket.cur] = Free]
  /\ socket' = Served(socket, "service")
  /\ UNCHANGED <<vNodes, mu_vNodes, mu_vSendMsg, fdset, opener, handler,
                 dead>>

\* SocketRecvData: data that begins with '{'.
ReceiveJson ==
  /\ SocketAt("recv")
  /\ socket' = [socket EXCEPT !.pc = "json"]
  /\ UNCHANGED <<vNodes, node, locks, fdset, opener, handler, dead>>

\* ParseHandleJsonData pushes to these, without their mu_vSendMsg_.
Audience == Outbound

\* The message handler is in the middle of a push to the send queue of n.
Pushing(n) == handler.pc = "push" /\ handler.cur = n

\* ParseHandleJsonData waits for mu_vNodes with the client's mu_vRecvMsg_
\* held; a payment or a new account goes to the audience, a balance request
\* to nobody.  A push that meets the message handler's may be lost, or kill
\* the process.
ParseHandleJsonData(broadcast) ==
  /\ SocketAt("json")
  /\ broadcast => /\ mu_vNodes = Free
                  /\ \A n \in Audience : node[n].send < MaxSend
  /\ \E lost \in SUBSET {n \in Audience : broadcast /\ Pushing(n)} :
       node' = [n \in Node |->
                  IF broadcast /\ n \in Audience \ lost
                  THEN [node[n] EXCEPT !.send = @ + 1] ELSE node[n]]
  /\ \/ dead' = FALSE
     \/ broadcast /\ (\E n \in Audience : Pushing(n)) /\ dead' = TRUE
  /\ mu_vRecvMsg' = [mu_vRecvMsg EXCEPT ![socket.cur] = Free]
  /\ socket' = Served(socket, "service")
  /\ UNCHANGED <<vNodes, mu_vNodes, mu_vSendMsg, fdset, opener, handler>>

\* ParseHandleJsonData falls off its end without a value (not JSON, another
\* version, an empty method); either SocketRecvData goes on with what it
\* finds, as after a balance request, or the process dies.
JsonFallsOff ==
  /\ SocketAt("json")
  /\ dead' = TRUE
  /\ UNCHANGED <<vNodes, node, locks, fdset, socket, opener, handler>>

\* SocketSendData: a message goes out whole.
SendMessage ==
  /\ SocketAt("send")
  /\ node[socket.cur].send > 0
  /\ ~ node[socket.cur].disconnect
  /\ node' = [node EXCEPT ![socket.cur].send = @ - 1]
  /\ UNCHANGED <<vNodes, locks, fdset, socket, opener, handler, dead>>

\* Mutant of Unlocked: the lock is kept.
mutant_Unlocked(lock, n) == lock
Unlocked(lock, n) == [lock EXCEPT ![n] = Free]

\* It returns when the queue is empty or a message went out in part.
EndSend ==
  /\ SocketAt("send")
  /\ ~ node[socket.cur].disconnect
  /\ mu_vSendMsg' = Unlocked(mu_vSendMsg, socket.cur)
  /\ socket' = Served(socket, "service")
  /\ UNCHANGED <<vNodes, node, mu_vNodes, mu_vRecvMsg, fdset, opener,
                 handler, dead>>

\* send would block, was interrupted, ...: the loop goes round at once, with
\* the lock held.
SendRetry ==
  /\ SocketAt("send")
  /\ node[socket.cur].send > 0
  /\ UNCHANGED vars

\* send failed otherwise: the socket is closed, and the loop goes round, now
\* for ever.
SendError ==
  /\ SocketAt("send")
  /\ node[socket.cur].send > 0
  /\ node' = [node EXCEPT ![socket.cur].disconnect = TRUE]
  /\ UNCHANGED <<vNodes, locks, fdset, socket, opener, handler, dead>>

SocketSendData == SendMessage \/ EndSend \/ SendRetry \/ SendError

\* All of ThreadSocketHandler but SocketSendData.
SocketWork ==
  \/ BeginReap \/ TestRecvQueue \/ EndReap
  \/ \E n \in Node : TestSendQueue(n)
  \/ AcceptNothing
  \/ \E n \in Node : AcceptSocket(n)
  \/ BeginFdset \/ EndFdset \/ SelectNone
  \/ \E n \in Node : Watch(n)
  \/ \E r \in SUBSET fdset.recv, w \in SUBSET fdset.send : SelectSome(r, w)
  \/ \E n \in Node : SkipNode(n)
  \/ \E n \in Node : BeginRecv(n)
  \/ \E n \in Node : BeginSend(n)
  \/ EndService
  \/ SocketRecvData
  \/ ReceiveJson
  \/ \E broadcast \in BOOLEAN : ParseHandleJsonData(broadcast)
  \/ JsonFallsOff

ThreadSocketHandler == SocketWork \/ SocketSendData

-----------------------------------------------------------------------------
\* A thread uses a node that another has deleted: what happens next.
Use(n) ==
  \/ dead' = FALSE
  \/ node[n].state = "deleted" /\ dead' = TRUE

\* Mutant of FindNode: it finds nothing.
mutant_FindNode(service) == {}

FindNode(service) == {n \in vNodes : node[n].service = service}

\* The loop over vAddrToConnect is at its i-th entry.
Visits(i) == OpenerAt("find") /\ opener.next = i

\* ConnectNode: the node FindNode returned is used after mu_vNodes is free.
FoundNode(i) ==
  /\ Visits(i)
  /\ mu_vNodes = Free
  /\ \E n \in FindNode(vAddrToConnect[i]) :
       opener' = [pc |-> "ref", next |-> i + 1, cur |-> n]
  /\ UNCHANGED <<vNodes, node, locks, fdset, socket, handler, dead>>

CountReference ==
  /\ OpenerAt("ref")
  /\ Use(opener.cur)
  /\ opener' = At(opener, "find", NoNode)
  /\ UNCHANGED <<vNodes, node, locks, fdset, socket, handler>>

\* ConnectNode: no such node, so connect; the insertion is a critical
\* section of its own.
ConnectNode(i) ==
  /\ Visits(i)
  /\ mu_vNodes = Free
  /\ FindNode(vAddrToConnect[i]) = {}
  /\ opener' = [pc |-> "connect", next |-> i + 1, cur |-> vAddrToConnect[i]]
  /\ UNCHANGED <<vNodes, node, locks, fdset, socket, handler, dead>>

ConnectFails ==
  /\ OpenerAt("connect")
  /\ opener' = At(opener, "find", NoNode)
  /\ UNCHANGED <<vNodes, node, locks, fdset, socket, handler, dead>>

Connected(n) ==
  /\ OpenerAt("connect")
  /\ NewNode(n, FALSE, opener.cur)
  /\ opener' = At(opener, "find", NoNode)
  /\ UNCHANGED <<locks, fdset, socket, handler, dead>>

\* After a round: done for good once there are as many outbound nodes as
\* entries, else again.
EndRound ==
  /\ Visits(Len(vAddrToConnect) + 1)
  /\ mu_vNodes = Free
  /\ opener' = IF Cardinality(Outbound) = Len(vAddrToConnect)
               THEN [opener EXCEPT !.pc = "done"]
               ELSE [opener EXCEPT !.next = 1]
  /\ UNCHANGED <<vNodes, node, locks, fdset, socket, handler, dead>>

ThreadOpenConnections ==
  \/ \E i \in 1..Len(vAddrToConnect) : FoundNode(i)
  \/ CountReference
  \/ \E i \in 1..Len(vAddrToConnect) : ConnectNode(i)
  \/ ConnectFails
  \/ \E n \in Node : Connected(n)
  \/ EndRound

-----------------------------------------------------------------------------
\* ThreadMessageHandler: a copy of vNodes, then each node of the copy
\* without any lock that would keep it alive.
CopyNodes ==
  /\ HandlerAt("copy")
  /\ mu_vNodes = Free
  /\ handler' = [handler EXCEPT !.pc = "node", !.todo = vNodes]
  /\ UNCHANGED <<vNodes, node, locks, fdset, socket, opener, dead>>

TryRecvLock(n) ==
  /\ HandlerAt("node")
  /\ n \in handler.todo
  /\ Use(n)
  /\ \/ /\ TryLock(mu_vRecvMsg[n])
        /\ mu_vRecvMsg' = [mu_vRecvMsg EXCEPT ![n] = "handler"]
        /\ handler' = [At(handler, "process", n) EXCEPT
                         !.left = node[n].recv]
     \/ /\ handler' = At(handler, "trysend", n)
        /\ UNCHANGED mu_vRecvMsg
  /\ UNCHANGED <<vNodes, node, mu_vNodes, mu_vSendMsg, fdset, socket, opener>>

\* ProcessMessages: a request is carried out, whoever sent it, and answered
\* with the lock of the send queue; another command is passed over.
CarryOut ==
  /\ HandlerAt("process")
  /\ handler.left > 0
  /\ Use(handler.cur)
  /\ handler' = [handler EXCEPT !.pc = "lock"]
  /\ UNCHANGED <<vNodes, node, locks, fdset, socket, opener>>

LockSendQueue ==
  /\ HandlerAt("lock")
  /\ mu_vSendMsg[handler.cur] = Free
  /\ Use(handler.cur)
  /\ mu_vSendMsg' = [mu_vSendMsg EXCEPT ![handler.cur] = "handler"]
  /\ handler' = [handler EXCEPT !.pc = "push"]
  /\ UNCHANGED <<vNodes, node, mu_vNodes, mu_vRecvMsg, fdset, socket, opener>>

PushMessage ==
  /\ HandlerAt("push")
  /\ Use(handler.cur)
  /\ node' = [node EXCEPT ![handler.cur].send = @ + 1]
  /\ mu_vSendMsg' = [mu_vSendMsg EXCEPT ![handler.cur] = Free]
  /\ handler' = [handler EXCEPT !.pc = "process", !.left = @ - 1]
  /\ UNCHANGED <<vNodes, mu_vNodes, mu_vRecvMsg, fdset, socket, opener>>

PassOver ==
  /\ HandlerAt("process")
  /\ handler.left > 0
  /\ Use(handler.cur)
  /\ handler' = [handler EXCEPT !.left = @ - 1]
  /\ UNCHANGED <<vNodes, node, locks, fdset, socket, opener>>

\* What was processed is erased and the queue unlocked.
EndProcess ==
  /\ HandlerAt("process")
  /\ handler.left = 0
  /\ Use(handler.cur)
  /\ node' = [node EXCEPT ![handler.cur].recv = 0]
  /\ mu_vRecvMsg' = [mu_vRecvMsg EXCEPT ![handler.cur] = Free]
  /\ handler' = [handler EXCEPT !.pc = "trysend"]
  /\ UNCHANGED <<vNodes, mu_vNodes, mu_vSendMsg, fdset, socket, opener>>

\* The send queue is locked and unlocked, if that can be done at once.
TrySendLock ==
  /\ HandlerAt("trysend")
  /\ Use(handler.cur)
  /\ handler' = Served(handler, "node")
  /\ UNCHANGED <<vNodes, node, locks, fdset, socket, opener>>

EndPass ==
  /\ HandlerAt("node")
  /\ handler.todo = {}
  /\ handler' = [handler EXCEPT !.pc = "copy"]
  /\ UNCHANGED <<vNodes, node, locks, fdset, socket, opener, dead>>

ThreadMessageHandler ==
  \/ CopyNodes
  \/ \E n \in Node : TryRecvLock(n)
  \/ CarryOut \/ LockSendQueue \/ PushMessage \/ PassOver
  \/ EndProcess \/ TrySendLock \/ EndPass

Dead == dead /\ UNCHANGED vars

Next ==
  \/ ThreadSocketHandler
  \/ ThreadOpenConnections
  \/ ThreadMessageHandler
  \/ Dead

Spec == Init /\ [][Next]_vars

\* Each thread goes on while it can, except that nothing is assumed of the
\* loop of SocketSendData: a peer that does not read keeps it going round.
\* The locks that ThreadMessageHandler waits for are free again and again
\* while ThreadSocketHandler, which holds them, blocks in the select of
\* AcceptSocket (up to a second) and in its own (up to 50 ms).
Fairness ==
  /\ WF_vars(SocketWork)
  /\ WF_vars(ThreadMessageHandler)
  /\ SF_vars(CopyNodes)
  /\ SF_vars(LockSendQueue)

FairSpec == Spec /\ Fairness

-----------------------------------------------------------------------------
(***************************************************************************)
(* Type invariant; the locks are held exactly where the code says.         *)
(***************************************************************************)
TypeOK ==
  /\ vNodes = {n \in Node : node[n].state = "live"}
  /\ \A n \in Node :
       /\ node[n].recv \in 0..(MAXRECVSIZE + 1)
       /\ (mu_vSendMsg[n] = "socket") =
            (socket.pc = "send" /\ socket.cur = n)
       /\ (mu_vRecvMsg[n] = "socket") =
            (socket.pc \in {"recv", "json"} /\ socket.cur = n)
       /\ (mu_vRecvMsg[n] = "handler") =
            (handler.pc \in {"process", "lock", "push"} /\ handler.cur = n)
       /\ (mu_vSendMsg[n] = "handler") =
            (handler.pc = "push" /\ handler.cur = n)
  /\ (mu_vNodes = "socket") = (socket.pc \in {"reap", "reap2", "watch"})

(***************************************************************************)
(* There is never more than one connection to a configured peer, although  *)
(* ConnectNode looks for one and inserts one in separate critical sections *)
(* and the socket thread removes nodes in between.                         *)
(***************************************************************************)
OneNodePerPeer ==
  \A m, n \in Outbound : node[m].service = node[n].service => m = n

(***************************************************************************)
(* ThreadOpenConnections only counts (net.cpp:476), and it never comes     *)
(* back once it has ended.  When it ends, each configured peer does have   *)
(* its node: none is missing that a second node of another, or an inbound  *)
(* one, made up for.                                                       *)
(***************************************************************************)
EndsConnected ==
  [][opener.pc # "done" /\ opener'.pc = "done"
       => \A service \in Service : \E n \in vNodes :
            node[n].service = service]_vars

\* The message handler is in ProcessMessages.
Processing == handler.pc \in {"process", "lock", "push"}

(***************************************************************************)
(* The receive queue that ProcessMessages iterates over does not change    *)
(* under it, so that what it erases in the end is what it has processed.   *)
(***************************************************************************)
ProcessedQueueIsStable ==
  [][Processing /\ Processing'
       => node'[handler.cur].recv = node[handler.cur].recv]_vars

\* The socket thread goes round in SocketSendData for ever, with the lock of
\* the send queue held.
SpinsForEver == <>[](socket.pc = "send")

(***************************************************************************)
(* The message handler, which waits for the locks of vNodes and of a send  *)
(* queue with the lock of a receive queue held, comes back to copy vNodes  *)
(* again and again, unless the socket thread spins in SocketSendData.      *)
(***************************************************************************)
HandlerComesBack ==
  SpinsForEver \/ []<>(handler.pc = "copy" \/ dead)

(***************************************************************************)
(* A node that has disconnected and has nothing queued any more does not   *)
(* stay in vNodes, where it would count against MAXINBOUND, unless the     *)
(* socket thread spins in SocketSendData.                                  *)
(***************************************************************************)
DisconnectedIsReaped ==
  \/ SpinsForEver
  \/ \A n \in Node :
       ~ <>[](/\ n \in vNodes /\ ~ dead
              /\ node[n].disconnect /\ node[n].send = 0 /\ node[n].recv = 0)

(***************************************************************************)
(* The comment in ThreadSocketHandler (net.cpp:576): a node that has       *)
(* disconnected is held "until all refs are released".  No thread uses a   *)
(* deleted node.                                                           *)
(***************************************************************************)
HeldUntilReleased ==
  /\ handler.cur # NoNode => node[handler.cur].state # "deleted"
  /\ opener.pc = "ref" => node[opener.cur].state # "deleted"
==============================================================================
