--------------------------- MODULE PendingRestore ---------------------------
(***************************************************************************)
(* The pending-restore registry of the scheduler: the place where a        *)
(* successful /restore_snapshot leaves its state when no live request can  *)
(* take it, until the next request of that rid or conversation arrives.    *)
(* Its operations run to completion on the scheduler's event loop, so each *)
(* one is a single step here.                                              *)
(***************************************************************************)
EXTENDS PendingRegistry

VARIABLES
    pending,  \* the registry and its alias map
    reply     \* the last call and its outcome

vars == <<pending, reply>>

-----------------------------------------------------------------------------
Init == /\ pending = Empty
        /\ reply = [op |-> "none"]

(***************************************************************************)
(* A restore that finds no live request and loads its snapshot: it is      *)
(* staged, and the client is told so.  Without a conversation id the rid   *)
(* stands in for it; a rid or a conversation id is always given.           *)
(***************************************************************************)
StagePendingRestore(rid, conv, snap) ==
    /\ pending' = Staged(pending, rid, conv, snap)
    /\ reply' = [op |-> "staged", rid |-> rid, conv |-> conv]

\* A restore into a live request succeeds and clears what was staged.
ClearPendingRestore(rid, conv) ==
    /\ pending' = Drop(pending, ClearTarget(pending, rid, conv))
    /\ reply' = [op |-> "live", rid |-> rid, conv |-> conv]

\* A new request arrives, hits the registry and is hydrated; the entry stays.
HydrateHit(rid, conv) ==
    \E k \in Lookup(pending, rid, conv) :
        /\ pending' = MoveToEnd(pending, k)
        /\ reply' = [op |-> "hydrated", rid |-> rid,
                     conv |-> HydratedConversation(pending, rid, conv, k), hit |-> k]

\* A new request arrives and nothing is staged for it: a fresh start.
HydrateMiss(rid, conv) ==
    /\ Lookup(pending, rid, conv) = {}
    /\ reply' = [op |-> "fresh", rid |-> rid, conv |-> conv]
    /\ UNCHANGED pending

Next == \/ \E rid \in Key, conv \in Id, snap \in Snap : StagePendingRestore(rid, conv, snap)
        \/ \E rid \in Id, conv \in Id : ClearPendingRestore(rid, conv)
        \/ \E rid \in Id, conv \in Key : HydrateHit(rid, conv)
        \/ \E rid \in Id, conv \in Key : HydrateMiss(rid, conv)

Spec == Init /\ [][Next]_vars
-----------------------------------------------------------------------------
Reply == [op : {"none"}]
         \cup [op : {"staged"}, rid : Key, conv : Id]
         \cup [op : {"live"}, rid : Id, conv : Id]
         \cup [op : {"hydrated"}, rid : Id, conv : Id, hit : Id]
         \cup [op : {"fresh"}, rid : Id, conv : Key]

\* The registry is an ordered dict of at most MaxEntries entries, and an alias
\* maps a string to a key.
TypeOK ==
    /\ reply \in Reply
    /\ WellTyped(pending)
    /\ Cardinality(Keys(pending)) <= MaxEntries

\* No alias outlives its entry, and none leads to another conversation's state:
\* each one leads to an entry of exactly that conversation, and is not itself a
\* canonical key (an entry is never stored under two keys).  Every pop in
\* _stage_pending_restore and _clear_pending_restore has to take its aliases
\* along for this to hold.
AliasesResolve == AliasesLead(pending)

\* An entry staged under a rid is never cut off from its conversation: until it
\* is evicted or cleared, a request that carries the conversation id under a rid
\* that has nothing staged is hydrated from it.
EntryStaysReachable ==
    \A k \in Keys(pending) \ {NoId} :
        LET c == pending.entry[k].conv
        IN  c # k => \A rid \in Id \ (Keys(pending) \cup {c}) : Lookup(pending, rid, c) = {k}

\* Two rids never hold state of the same conversation: a later restore of a
\* conversation replaces the earlier one, under whatever rid that was staged,
\* so no request can be hydrated from the superseded state.
OneEntryPerConversation ==
    \A j, k \in Keys(pending) \ {NoId} :
        pending.entry[j].conv = pending.entry[k].conv => j = k

\* A hydrated request carries the conversation id its state belongs to, also
\* when it was matched by an alias, where the code does not reconcile the two.
HydratedStateIsOwn ==
    reply.op = "hydrated" => /\ reply.hit \in Keys(pending)
                             /\ pending.entry[reply.hit].conv = reply.conv

Related(k, rid, conv) == {k, pending.entry[k].conv} \cap {rid, conv} # {}

\* Staging takes away only what shares an identifier with the new restore, or,
\* when the registry is full and nothing does, the least recently used entry;
\* every other staged restore survives unchanged.
StageEvictsOnlyRelated ==
    [][reply'.op = "staged" =>
        \A k \in Keys(pending) :
            \/ k \in Keys(pending') /\ pending'.entry[k] = pending.entry[k]
            \/ Related(k, reply'.rid, reply'.conv)
            \/ k \in Oldest(pending) /\ Cardinality(Keys(pending)) = MaxEntries]_vars

\* Consuming an entry renews it: the staging that follows a hydration does not
\* evict the entry just used for want of room (move_to_end after the hit).
HydratedSurvivesNextStaging ==
    [][reply.op = "hydrated" /\ reply'.op = "staged" /\ MaxEntries > 1 =>
        reply.hit \in Keys(pending') \/ Related(reply.hit, reply'.rid, reply'.conv)]_vars

-----------------------------------------------------------------------------
(***************************************************************************)
(* What a comment of handle_restore_snapshot promises, where the code does *)
(* something else.                                                         *)
(***************************************************************************)

\* "stage it in the pending-restore registry so the next incoming request with
\* this rid (or conversation_id) hydrates from it", for a restore that names
\* only the conversation.
ConversationRestoreIsServed ==
    reply.op = "staged" /\ reply.rid = NoId =>
        \A rid \in Id \ {reply.conv} : Lookup(pending, rid, reply.conv) # {}
=============================================================================
