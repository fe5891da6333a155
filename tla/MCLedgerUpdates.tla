-------------------------- MODULE MCLedgerUpdates --------------------------
(* LedgerUpdates with its processes as model values. *)
EXTENDS LedgerUpdates

CONSTANTS p1, p2
=============================================================================
