---------------------------- MODULE MCTierManager ----------------------------
(***************************************************************************)
(* Instances of TierManager: two conversations and a pool of one or two    *)
(* entries, so that saves replace and evict, and timeouts of one and two   *)
(* ticks.                                                                  *)
(***************************************************************************)
EXTENDS TierManager

CONSTANTS c1, c2

MCConv == {c1, c2}
MCTurn == {1, 2}
MCAll == {"io", "crash", "delete"}
MCNone == {}
=============================================================================
