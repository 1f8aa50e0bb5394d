--------------------------- MODULE MCSnapshotStore ---------------------------
(***************************************************************************)
(* Instances of SnapshotStore: two or three turns, a branch, one or both   *)
(* threads.                                                                *)
(***************************************************************************)
EXTENDS SnapshotStore

CONSTANT b1

MCTwoTurns == {1, 2}
MCThreeTurns == {1, 2, 3}
MCScheduler == {"scheduler"}
MCBoth == {"scheduler", "cleanup"}
MCAll == {"crash", "io", "manual"}
MCNone == {}
=============================================================================
