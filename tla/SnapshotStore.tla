---------------------------- MODULE SnapshotStore ----------------------------
(***************************************************************************)
(* The snapshot files of one conversation (MambaSnapshotManager), file     *)
(* operation by file operation.  A snapshot is a state file and a metadata *)
(* file; each is written to a temporary file and renamed.  The scheduler   *)
(* thread saves after forward steps and prunes, saves and deletes on       *)
(* request; the cleanup thread of the tier manager demotes (saves) and     *)
(* archives (deletes every turn).  The process may crash between any two   *)
(* file operations, and any of them may fail.                              *)
(*                                                                         *)
(* The class is not thread-safe and asks its callers for exclusive access. *)
(* Exclusive says whether they provide it, snapshot by snapshot; the       *)
(* callers in the repository take no common lock.                          *)
(***************************************************************************)
EXTENDS Integers, FiniteSets

CONSTANTS
    Turn,          \* turn numbers
    Branch,        \* branch names
    Thread,        \* "scheduler", "cleanup"
    Exclusive,     \* no two threads are at work on one snapshot
    MaxSnapshots,  \* max_snapshots_per_conversation
    MaxSaves,      \* bound on the saves of a behaviour
    Feature        \* what can happen: "crash", "io", "manual"

ASSUME TurnAssumption == Turn \subseteq Nat \ {0} /\ IsFiniteSet(Turn)
ASSUME BranchAssumption == 0 \notin Branch
ASSUME ThreadAssumption == "scheduler" \in Thread
ASSUME MaxSnapshotsAssumption == MaxSnapshots \in Nat
ASSUME MaxSavesAssumption == MaxSaves \in Nat
ASSUME ExclusiveAssumption == Exclusive \in BOOLEAN

VARIABLES
    state,     \* the state files: key -> which save wrote it
    meta,      \* the metadata files
    stateTmp,  \* the temporary state files
    metaTmp,   \* the temporary metadata files
    op,        \* what each thread is doing
    saves,     \* saves begun so far, the version of the last one
    output     \* output tokens of the conversation's current request

vars == <<state, meta, stateTmp, metaTmp, op, saves, output>>

Key == Turn \cup Branch
None == 0
Version == 1..MaxSaves
File == [Key -> Version \cup {None}]

Stage == {"idle", "write_state", "rename_state", "write_meta", "rename_meta",
          "prune", "unlink_meta", "unlink_state"}
Job == {"none", "callback", "save", "demote", "delete", "archive"}

\* The call a thread is in: where it is, for whom, the snapshot it works on,
\* the version it saves, the turns still to delete, and the last answer.
Op == [at : Stage, job : Job, key : Key \cup {None}, ver : Version \cup {None},
       todo : SUBSET Turn, reply : {"none", "ok", "failed"}]

Resting(reply) == [at |-> "idle", job |-> "none", key |-> None, ver |-> None,
                   todo |-> {}, reply |-> reply]

\* list_snapshots: the turns that have a metadata file.
Listed == {k \in Turn : meta[k] # None}

\* The turns that prune_old_snapshots deletes: all but the highest MaxSnapshots.
Pruned(turns) == {k \in turns : Cardinality({j \in turns : j > k}) >= MaxSnapshots}

Held(t) == op[t].todo \cup ({op[t].key} \ {None})
MayTouch(t, keys) == Exclusive => \A u \in Thread \ {t} : Held(u) \cap keys = {}

Init ==
    /\ state = [k \in Key |-> None] /\ meta = [k \in Key |-> None]
    /\ stateTmp = [k \in Key |-> None] /\ metaTmp = [k \in Key |-> None]
    /\ op = [t \in Thread |-> Resting("none")]
    /\ saves = 0
    /\ output = 0

Moves(t, to) == op' = [op EXCEPT ![t] = [op[t] EXCEPT !.at = to]]

\* Mutant: the call returns and the snapshot stays in hand.
EndsHolding(t, reply) == op' = [op EXCEPT ![t] = [op[t] EXCEPT !.at = "idle", !.reply = reply]]

Ends(t, reply) == op' = [op EXCEPT ![t] = Resting(reply)]

-----------------------------------------------------------------------------
(***************************************************************************)
(* The calls begin.                                                        *)
(***************************************************************************)
BeginSave(t, job, k) ==
    /\ op[t].at = "idle" /\ saves < MaxSaves /\ MayTouch(t, {k})
    /\ saves' = saves + 1
    /\ op' = [op EXCEPT ![t] = [at |-> "write_state", job |-> job, key |-> k, ver |-> saves + 1,
                                todo |-> {}, reply |-> "none"]]
    /\ UNCHANGED <<state, meta, stateTmp, metaTmp>>

\* The hook after a decode step: the turn is the number of output tokens.
\* Steps in between are skipped by the policy's minimum interval.
DecodeSave(n) ==
    /\ n > output /\ output' = n
    /\ BeginSave("scheduler", "callback", n)

\* The hook when the request finishes: the turn is len(fill_ids), the length
\* of its prompt.  The conversation's next request starts without output.
FinishSave(n) ==
    /\ output' = 0
    /\ BeginSave("scheduler", "callback", n)

\* Or should_snapshot skips that save: it is too soon, or not a turn to save.
NextRequest ==
    /\ output > 0 /\ output' = 0
    /\ UNCHANGED <<state, meta, stateTmp, metaTmp, op, saves>>

\* With memory tiers the hook saves to host RAM and only prunes here.
WarmSave ==
    /\ op["scheduler"].at = "idle"
    /\ op' = [op EXCEPT !["scheduler"] = [at |-> "prune", job |-> "callback", key |-> None,
                                          ver |-> None, todo |-> {}, reply |-> "none"]]
    /\ UNCHANGED <<state, meta, stateTmp, metaTmp, saves, output>>

HandleSave(k) == BeginSave("scheduler", "save", k) /\ UNCHANGED output

\* demote_to_cold_tier writes the pooled state under the turn it was saved with.
Demote(n) == BeginSave("cleanup", "demote", n) /\ UNCHANGED output

BeginDelete(t, job, k, todo) ==
    op' = [op EXCEPT ![t] = [at |-> "unlink_meta", job |-> job, key |-> k, ver |-> None,
                             todo |-> todo, reply |-> "none"]]

HandleDelete(k) ==
    /\ op["scheduler"].at = "idle" /\ MayTouch("scheduler", {k})
    /\ BeginDelete("scheduler", "delete", k, {})
    /\ UNCHANGED <<state, meta, stateTmp, metaTmp, saves, output>>

\* Go on with the lowest turn of todo, or finish.
DeleteNext(t, job, todo) ==
    \/ todo = {} /\ Ends(t, "ok")
    \/ \E k \in todo :
        /\ \A j \in todo : k <= j
        /\ BeginDelete(t, job, k, todo \ {k})

\* run_cleanup_cycle archives a conversation: every listed turn goes.
Archive ==
    /\ op["cleanup"].at = "idle" /\ Listed # {} /\ MayTouch("cleanup", Listed)
    /\ DeleteNext("cleanup", "archive", Listed)
    /\ UNCHANGED <<state, meta, stateTmp, metaTmp, saves, output>>

-----------------------------------------------------------------------------
(***************************************************************************)
(* save_snapshot, one file operation at a time.                            *)
(***************************************************************************)
WriteState(t) ==
    /\ op[t].at = "write_state"
    /\ stateTmp' = [stateTmp EXCEPT ![op[t].key] = op[t].ver]
    /\ Moves(t, "rename_state")
    /\ UNCHANGED <<state, meta, metaTmp, saves, output>>

RenameState(t) ==
    /\ op[t].at = "rename_state" /\ stateTmp[op[t].key] # None
    /\ state' = [state EXCEPT ![op[t].key] = stateTmp[op[t].key]]
    /\ stateTmp' = [stateTmp EXCEPT ![op[t].key] = None]
    /\ Moves(t, "write_meta")
    /\ UNCHANGED <<meta, metaTmp, saves, output>>

\* A rename fails when another thread has taken the temporary file.
StateFailing(t) ==
    /\ op[t].at \in {"write_state", "rename_state"}
    /\ "io" \in Feature \/ (op[t].at = "rename_state" /\ stateTmp[op[t].key] = None)

\* Mutant: the error path unlinks the state file, not the temporary one.
StateFailsUnlinksState(t) ==
    /\ StateFailing(t)
    /\ state' = [state EXCEPT ![op[t].key] = None]
    /\ Ends(t, "failed")
    /\ UNCHANGED <<meta, stateTmp, metaTmp, saves, output>>

\* The error path: the temporary file is unlinked, the old files stay.
StateFails(t) ==
    /\ StateFailing(t)
    /\ stateTmp' = [stateTmp EXCEPT ![op[t].key] = None]
    /\ Ends(t, "failed")
    /\ UNCHANGED <<state, meta, metaTmp, saves, output>>

WriteMeta(t) ==
    /\ op[t].at = "write_meta"
    /\ metaTmp' = [metaTmp EXCEPT ![op[t].key] = op[t].ver]
    /\ Moves(t, "rename_meta")
    /\ UNCHANGED <<state, meta, stateTmp, saves, output>>

\* Mutant: the metadata of a snapshot that is there already is kept.
RenameMetaIfNew(t) ==
    /\ op[t].at = "rename_meta" /\ metaTmp[op[t].key] # None
    /\ meta' = [meta EXCEPT ![op[t].key] = IF @ = None THEN metaTmp[op[t].key] ELSE @]
    /\ metaTmp' = [metaTmp EXCEPT ![op[t].key] = None]
    /\ IF op[t].job = "callback" THEN Moves(t, "prune") ELSE Ends(t, "ok")
    /\ UNCHANGED <<state, stateTmp, saves, output>>

\* The snapshot is saved; the hook's callback goes on to prune.
RenameMeta(t) ==
    /\ op[t].at = "rename_meta" /\ metaTmp[op[t].key] # None
    /\ meta' = [meta EXCEPT ![op[t].key] = metaTmp[op[t].key]]
    /\ metaTmp' = [metaTmp EXCEPT ![op[t].key] = None]
    /\ IF op[t].job = "callback" THEN Moves(t, "prune") ELSE Ends(t, "ok")
    /\ UNCHANGED <<state, stateTmp, saves, output>>

\* The error path: the state file is unlinked.  The old metadata, if any, and
\* the temporary file stay.
MetaFails(t) ==
    /\ op[t].at \in {"write_meta", "rename_meta"}
    /\ "io" \in Feature \/ (op[t].at = "rename_meta" /\ metaTmp[op[t].key] = None)
    /\ state' = [state EXCEPT ![op[t].key] = None]
    /\ Ends(t, "failed")
    /\ UNCHANGED <<meta, stateTmp, metaTmp, saves, output>>

-----------------------------------------------------------------------------
(***************************************************************************)
(* Pruning, and delete_snapshot, one file operation at a time.             *)
(***************************************************************************)
PruneOldSnapshots(t) ==
    /\ op[t].at = "prune" /\ MayTouch(t, Pruned(Listed))
    /\ DeleteNext(t, "callback", Pruned(Listed))
    /\ UNCHANGED <<state, meta, stateTmp, metaTmp, saves, output>>

\* Mutant: a snapshot without metadata is taken for missing.
UnlinkMetaOrSkip(t) ==
    /\ op[t].at = "unlink_meta"
    /\ meta' = [meta EXCEPT ![op[t].key] = None]
    /\ IF meta[op[t].key] = None THEN Ends(t, "ok") ELSE Moves(t, "unlink_state")
    /\ UNCHANGED <<state, stateTmp, metaTmp, saves, output>>

UnlinkMeta(t) ==
    /\ op[t].at = "unlink_meta"
    /\ meta' = [meta EXCEPT ![op[t].key] = None]
    /\ Moves(t, "unlink_state")
    /\ UNCHANGED <<state, stateTmp, metaTmp, saves, output>>

UnlinkState(t) ==
    /\ op[t].at = "unlink_state"
    /\ state' = [state EXCEPT ![op[t].key] = None]
    /\ DeleteNext(t, op[t].job, op[t].todo)
    /\ UNCHANGED <<meta, stateTmp, metaTmp, saves, output>>

\* Pruning goes on after an error; the other callers give up.
UnlinkFails(t) ==
    /\ "io" \in Feature /\ op[t].at \in {"unlink_meta", "unlink_state"}
    /\ IF op[t].job = "callback" THEN DeleteNext(t, "callback", op[t].todo) ELSE Ends(t, "failed")
    /\ UNCHANGED <<state, meta, stateTmp, metaTmp, saves, output>>

\* The process dies and starts again; every file stays as it is.
Crash ==
    /\ "crash" \in Feature
    /\ op' = [t \in Thread |-> Resting("none")]
    /\ output' = 0
    /\ UNCHANGED <<state, meta, stateTmp, metaTmp, saves>>

Step(t) ==
    \/ WriteState(t) \/ RenameState(t) \/ StateFails(t)
    \/ WriteMeta(t) \/ RenameMeta(t) \/ MetaFails(t)
    \/ PruneOldSnapshots(t)
    \/ UnlinkMeta(t) \/ UnlinkState(t) \/ UnlinkFails(t)

Next ==
    \/ \E n \in Turn : DecodeSave(n) \/ FinishSave(n)
    \/ NextRequest
    \/ "manual" \in Feature /\ \E k \in Key : HandleSave(k) \/ HandleDelete(k)
    \/ "cleanup" \in Thread /\ (WarmSave \/ Archive \/ \E n \in Turn : Demote(n))
    \/ \E t \in Thread : Step(t)
    \/ Crash

Spec == Init /\ [][Next]_vars

-----------------------------------------------------------------------------
\* Every file holds one save's work, and a thread at rest holds no snapshot.
TypeOK ==
    /\ state \in File /\ meta \in File /\ stateTmp \in File /\ metaTmp \in File
    /\ op \in [Thread -> Op]
    /\ \A t \in Thread : op[t].at = "idle" => op[t] = Resting(op[t].reply)
    /\ saves \in 0..MaxSaves
    /\ output \in Turn \cup {0}

\* What a reader of the directory sees: nothing without metadata.
Seen == [k \in Key |-> IF meta[k] = None THEN [state |-> None, meta |-> None]
                      ELSE [state |-> state[k], meta |-> meta[k]]]

Catalog == INSTANCE SnapshotCatalog WITH catalog <- Seen

\* Refinement: to a reader of the directory the file operations, failures and
\* crashes of save_snapshot and delete_snapshot are steps of SnapshotCatalog.
ImplementsCatalog == Catalog!Spec

Succeeds(t, jobs) == op[t].at # "idle" /\ op[t].job \in jobs /\ op'[t].reply = "ok"

\* A save that save_snapshot reports as successful has left both files of the
\* snapshot with what it was given, whatever was there before.
SaveIsComplete ==
    [][\A t \in Thread : Succeeds(t, {"save", "demote"}) =>
        state'[op[t].key] = op[t].ver /\ meta'[op[t].key] = op[t].ver]_vars

\* After delete_snapshot neither file is there, even when a crash or an error
\* had left only one of them.
DeleteIsComplete ==
    [][\A t \in Thread : Succeeds(t, {"delete"}) =>
        state'[op[t].key] = None /\ meta'[op[t].key] = None]_vars

\* "Keeps the most recent N snapshots" (prune_old_snapshots): a turn is pruned
\* only when the turns that stay were saved later.
PruneKeepsMostRecent ==
    [][\A t \in Thread : op[t].at = "prune" =>
        \A k \in Held(t)', j \in Listed \ Held(t)' : meta[k] < meta[j]]_vars
=============================================================================
