---------------------------- MODULE DurableStore ----------------------------
(***************************************************************************)
(* What one tree of the ledger promises its users: a map from indices to   *)
(* data.  While it is open a new index may be added and the data of an     *)
(* existing one replaced; nothing else changes it, and in particular not   *)
(* closing it and opening it again.  A process that ends without closing   *)
(* it (a crash, or a stop while it is being opened) empties it.            *)
(***************************************************************************)
EXTENDS Naturals

CONSTANTS Key, Data

VARIABLES
  store,
  open,
  losses  \* how often a process has ended without closing it

vars == <<store, open, losses>>

Init == store = [k \in {} |-> k] /\ open = FALSE /\ losses = 0

Open == ~ open /\ open' = TRUE /\ UNCHANGED <<store, losses>>

Close == open /\ open' = FALSE /\ UNCHANGED <<store, losses>>

Lose ==
  /\ losses' = losses + 1
  /\ open' = FALSE
  /\ store' = [k \in {} |-> k]

Add(k, data) ==
  /\ open
  /\ k \notin DOMAIN store
  /\ store' = [x \in DOMAIN store \cup {k} |->
                 IF x = k THEN data ELSE store[x]]
  /\ UNCHANGED <<open, losses>>

Update(k, data) ==
  /\ open
  /\ k \in DOMAIN store
  /\ store' = [store EXCEPT ![k] = data]
  /\ UNCHANGED <<open, losses>>

Next ==
  \/ Open
  \/ Close
  \/ Lose
  \/ \E k \in Key, data \in Data : Add(k, data) \/ Update(k, data)

Spec == Init /\ [][Next]_vars
=============================================================================
