--------------------------- MODULE SnapshotCatalog ---------------------------
(***************************************************************************)
(* What the snapshots of a conversation look like to a reader, who sees a  *)
(* snapshot once its metadata is there: a new one appears whole, in one    *)
(* step; one that is saved again gets its state first and its metadata     *)
(* second; it loses its state only between these two; a removed one is     *)
(* gone in one step.                                                       *)
(***************************************************************************)
CONSTANTS
    Key,     \* turns and branches
    Version, \* what a save wrote
    None     \* no file

VARIABLE catalog

Absent == [state |-> None, meta |-> None]

Init == catalog = [k \in Key |-> Absent]

Visible(k) == catalog[k].meta # None

Publish(k, v) ==
    /\ ~Visible(k)
    /\ catalog' = [catalog EXCEPT ![k] = [state |-> v, meta |-> v]]

ReplaceState(k, v) ==
    /\ Visible(k)
    /\ catalog' = [catalog EXCEPT ![k] = [state |-> v, meta |-> catalog[k].meta]]

ReplaceMeta(k) ==
    /\ Visible(k) /\ catalog[k].state # None
    /\ catalog' = [catalog EXCEPT ![k] = [state |-> catalog[k].state, meta |-> catalog[k].state]]

\* Only a snapshot whose state is newer than its metadata can lose its state.
LoseState(k) ==
    /\ Visible(k) /\ catalog[k].state # catalog[k].meta
    /\ catalog' = [catalog EXCEPT ![k] = [state |-> None, meta |-> catalog[k].meta]]

Remove(k) ==
    /\ Visible(k)
    /\ catalog' = [catalog EXCEPT ![k] = Absent]

Next ==
    \E k \in Key :
        \/ \E v \in Version : Publish(k, v) \/ ReplaceState(k, v)
        \/ ReplaceMeta(k) \/ LoseState(k) \/ Remove(k)

Spec == Init /\ [][Next]_catalog
=============================================================================
