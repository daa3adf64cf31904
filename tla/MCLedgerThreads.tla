--------------------------- MODULE MCLedgerThreads ---------------------------
(* Two threads on a ledger of two accounts. *)
EXTENDS LedgerThreads, TLC

CONSTANTS a1, a2, t1, t2

MCAddress == {a1, a2}
MCAmount == {-2, 1}
MCOneAmount == {1}
MCTwoThreads == {t1, t2}
MCNoAlarm == {}
MCAlarm == {Main, t1}
MCSymmetry == Permutations(MCAddress) \cup Permutations(MCTwoThreads)
==============================================================================
