-------------------------- MODULE MCLedgerRecovery --------------------------
(* Two threads on three accounts, through stops, starts and faults. *)
EXTENDS LedgerRecovery, TLC

CONSTANTS a1, a2, a3, t1, t2

MCAddress == {a1, a2, a3}
MCAmount == {1}
MCThread == {t1, t2}
MCAlarm == {Main}
MCNoAlarm == {}
MCSymmetry == Permutations(MCAddress) \cup Permutations(MCThread)

\* The server is not followed beyond a first row that was not written, nor
\* beyond operations that overlap.
MCFollowed == ~ orphaned /\ ~ overlapped

\* No stop in fetch_from_db.
MCLoads == phase = "loading" => phase' # "leaving"
=============================================================================
