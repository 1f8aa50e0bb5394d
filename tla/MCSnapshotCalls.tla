-------------------------- MODULE MCSnapshotCalls --------------------------
(***************************************************************************)
(* Three calls: with two in flight their answers can be exchanged, and the *)
(* third can meet what they have left.                                     *)
(***************************************************************************)
EXTENDS SnapshotCalls

CONSTANTS c1, c2, c3

=============================================================================
