------------------------------- MODULE MCLedger -------------------------------
(* The ledger on a small instance: see README for the bounds. *)
EXTENDS LedgerHistory, TLC

CONSTANTS a1, a2, a3

MCAddress == {a1, a2, a3}
MCAmount == {-2, 0, 1, 2}
MCSymmetry == Permutations(MCAddress)
===============================================================================
