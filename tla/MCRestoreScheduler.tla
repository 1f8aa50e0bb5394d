------------------------- MODULE MCRestoreScheduler -------------------------
(***************************************************************************)
(* RestoreScheduler for TLC.                                               *)
(***************************************************************************)
EXTENDS RestoreScheduler, TLC

CONSTANTS r1, r2, n1, k1, k2, m1, m2

MCRid == {r1, r2}
MCNew == {n1}
MCNone == {}
MCConv1 == {k1}
MCConv2 == {k1, k2}
MCId == {r1, r2, n1, k1, k2}
MCSlot == {m1, m2}
Symmetry == Permutations(MCSlot) \cup Permutations(MCRid) \cup Permutations(MCConv2)

Faults == {"refuse", "retract", "timeout", "abort", "live", "new", "invalid"}
Squeeze == {"refuse", "retract"}
OnlyRefuse == {"refuse"}
=============================================================================
