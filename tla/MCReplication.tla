---------------------------- MODULE MCReplication ----------------------------
(* Two servers on two accounts. *)
EXTENDS Replication, TLC

CONSTANTS a1, a2

MCAddress == {a1, a2}
MCAmount == {-2, 1}
MCSymmetry == Permutations(MCAddress)
==============================================================================
