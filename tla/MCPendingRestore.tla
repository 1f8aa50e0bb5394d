-------------------------- MODULE MCPendingRestore --------------------------
(***************************************************************************)
(* Instances of the pending-restore registry.  Three strings are enough    *)
(* for every collision between two calls: a call has two identifiers, and  *)
(* the third keeps an unrelated entry in the registry.                     *)
(***************************************************************************)
EXTENDS PendingRestore

CONSTANTS i1, i2, i3, s1, s2

MCId == {i1, i2, i3}
MCSnap == {s1, s2}
OneSnap == {s1}
=============================================================================
