----------------------------- MODULE MCSendQueue -----------------------------
(* Up to four messages of one and of three bytes. *)
EXTENDS SendQueue

MCSize == {1, 3}
==============================================================================
