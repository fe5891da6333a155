----------------------------- MODULE MCLockFile -----------------------------
(* LockFile with its processes as model values. *)
EXTENDS LockFile

CONSTANTS p1, p2, p3
=============================================================================
