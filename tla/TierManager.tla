----------------------------- MODULE TierManager -----------------------------
(***************************************************************************)
(* Where the state of a conversation lives: the host RAM pool of the WARM  *)
(* tier (MambaHostPool, an LRU), the snapshots on disk, and the tier and   *)
(* the last access the ConversationTracker keeps.  The scheduler saves     *)
(* after forward steps, restores, saves and deletes on request; the        *)
(* cleanup thread demotes and archives what has not been accessed for long *)
(* enough; a restart forgets everything but the disk and loads the latest  *)
(* snapshots again.  Every action of the tier manager holds its lock; the  *)
(* files are written atomically here (SnapshotStore has their steps).      *)
(***************************************************************************)
EXTENDS Integers, FiniteSets

CONSTANTS
    Conv,           \* conversations
    Turn,           \* turn numbers
    NoTurn,         \* turn_number is None
    Capacity,       \* entries that max_conversations and max_memory_bytes allow
    MaxSnapshots,   \* max_snapshots_per_conversation
    WarmTimeout,    \* warm_timeout
    ColdRetention,  \* cold_retention
    MaxSaves,       \* bound on the states a behaviour saves
    Feature         \* what can happen: "io", "crash", "delete"

ASSUME ConvAssumption == IsFiniteSet(Conv)
ASSUME TurnAssumption ==
    /\ Turn \subseteq Nat /\ NoTurn \notin Turn
    /\ \A T \in SUBSET Turn : T # {} => \E t \in T : \A u \in T : u <= t
ASSUME CapacityAssumption == Capacity \in Nat
ASSUME TimeoutAssumption == WarmTimeout \in Nat /\ ColdRetention \in Nat
ASSUME MaxSavesAssumption == MaxSaves \in Nat

VARIABLES
    pool,    \* the keys of host_pool._pool
    older,   \* its order: the pairs <<c, d>> with c less recently used than d
    entry,   \* conversation -> the pooled state and its turn
    disk,    \* conversation -> turn -> the state saved there
    tier,    \* conversation -> its tier, "none" when it is not registered
    idle,    \* conversation -> time since last_access_time
    saves    \* states saved so far

vars == <<pool, older, entry, disk, tier, idle, saves>>

\* Time beyond every timeout is not told apart.
Forever == (IF WarmTimeout > ColdRetention THEN WarmTimeout ELSE ColdRetention) + 1
Age == 0..Forever
State == 1..MaxSaves
None == 0
NoEntry == [turn |-> NoTurn, state |-> None]

InPool(c) == c \in pool
OnDisk(c) == {t \in Turn : disk[c][t] # None}

\* get_latest_snapshot: the highest turn.
Latest(c) == CHOOSE t \in OnDisk(c) : \A u \in OnDisk(c) : u <= t

\* prune_old_snapshots: all but the highest MaxSnapshots turns go.
Prune(d) ==
    LET turns == {t \in Turn : d[t] # None}
    IN  [t \in Turn |-> IF Cardinality({u \in turns : u > t}) >= MaxSnapshots THEN None ELSE d[t]]

\* The order of a pool: among any of its conversations one is the oldest.
Ordered(o, cs) ==
    /\ o \subseteq cs \X cs
    /\ \A c, d \in cs : <<c, d>> \in o => <<d, c>> \notin o
    /\ \A S \in SUBSET cs : S # {} => \E c \in S : \A d \in S \ {c} : <<c, d>> \in o

Oldest == {c \in pool : \A d \in pool \ {c} : <<c, d>> \in older}

\* The loop of save_state: the least recently used entry, perhaps the
\* conversation's own, is evicted when one more does not fit.  The pool never
\* holds more than Capacity entries, so the loop body runs at most once.
Evicted == IF Cardinality(pool) < Capacity THEN {} ELSE Oldest

\* remove_state: what is left of an order.
RemoveState(o, cs) == {e \in o : e[1] \notin cs /\ e[2] \notin cs}

\* move_to_end of the conversations cs, whose own order is o, in the pool p.
MoveToEnd(p, cs, o) == RemoveState(older, cs \cup (pool \ p)) \cup ((p \ cs) \X cs) \cup o

\* save_state: the conversation becomes the most recently used.
SaveState(c) == (pool \ Evicted) \cup {c}

\* mark_accessed.
MarkAccessed(c) == [idle EXCEPT ![c] = 0]

\* Mutant: what is evicted or removed is not dropped.
KeptAll(e, p) == e

\* Entries of conversations that are no longer in the pool are dropped.
Kept(e, p) == [c \in Conv |-> IF c \in p THEN e[c] ELSE NoEntry]

\* Mutant: a conversation the tracker knows keeps its tier.
WarmTierIfNew(c) == IF tier[c] = "none" THEN [tier EXCEPT ![c] = "WARM"] ELSE tier

\* register_conversation, or transition_tier, to WARM.
WarmTier(c) == [tier EXCEPT ![c] = "WARM"]

\* Registering sets last_access_time, a transition does not.
WarmIdle(c, since) == [idle EXCEPT ![c] = IF tier[c] = "none" THEN 0 ELSE since]

\* save_to_warm_tier.
SaveToWarmTier(c, t, s, since) ==
    /\ pool' = SaveState(c)
    /\ older' = MoveToEnd(SaveState(c), {c}, {})
    /\ entry' = Kept([entry EXCEPT ![c] = [turn |-> t, state |-> s]], SaveState(c))
    /\ tier' = WarmTier(c)
    /\ idle' = WarmIdle(c, since)

-----------------------------------------------------------------------------
Init ==
    /\ pool = {} /\ older = {} /\ entry = [c \in Conv |-> NoEntry]
    /\ disk = [c \in Conv |-> [t \in Turn |-> None]]
    /\ tier = [c \in Conv |-> "none"]
    /\ idle = [c \in Conv |-> 0]
    /\ saves = 0

\* post_forward_snapshot_callback: to host RAM, or to disk when the pool cannot
\* hold even one entry; then the snapshots on disk are pruned.
HookSave(c, t) ==
    /\ saves < MaxSaves /\ saves' = saves + 1
    /\ IF Capacity > 0
       THEN /\ SaveToWarmTier(c, t, saves + 1, idle[c])
            /\ disk' = [disk EXCEPT ![c] = Prune(disk[c])]
       ELSE /\ disk' = [disk EXCEPT ![c] = Prune([disk[c] EXCEPT ![t] = saves + 1])]
            /\ UNCHANGED <<pool, older, entry, tier, idle>>

\* load_snapshot without a branch raises when there is no such turn, and also
\* when there is no turn at all: its path needs one.
LoadSnapshot(c, turn) == IF turn \in OnDisk(c) THEN disk[c][turn] ELSE None

\* _load_snapshot_for_pending_restore; a restore from disk changes nothing, the
\* time of the last access included.
LoadForPendingRestore(c, turn) ==
    IF turn = NoTurn /\ InPool(c) THEN entry[c].state ELSE LoadSnapshot(c, turn)

\* restore_from_warm_tier, for a restore that names no turn.
RestoreFromWarmTier(c) ==
    /\ LoadForPendingRestore(c, NoTurn) # None
    /\ older' = MoveToEnd(pool, {c}, {})
    /\ idle' = MarkAccessed(c)
    /\ UNCHANGED <<pool, entry, disk, tier, saves>>

\* handle_save_snapshot of a live request: straight to disk.
SaveLive(c, t) ==
    /\ saves < MaxSaves /\ saves' = saves + 1
    /\ disk' = [disk EXCEPT ![c][t] = saves + 1]
    /\ UNCHANGED <<pool, older, entry, tier, idle>>

\* handle_save_snapshot of a finished request: the pooled state, under the turn
\* of the call or the turn it was pooled with.
SavePooled(c, turn) ==
    /\ InPool(c)
    /\ LET t == IF turn = NoTurn THEN entry[c].turn ELSE turn
       IN  disk' = [disk EXCEPT ![c][t] = entry[c].state]
    /\ older' = MoveToEnd(pool, {c}, {})
    /\ idle' = MarkAccessed(c)
    /\ UNCHANGED <<pool, entry, tier, saves>>

HandleDeleteSnapshot(c, t) ==
    /\ "delete" \in Feature /\ t \in OnDisk(c)
    /\ disk' = [disk EXCEPT ![c][t] = None]
    /\ UNCHANGED <<pool, older, entry, tier, idle, saves>>

\* Mutant: a turn that is asked for is read from disk.
PrefersDisk(c, turn) == InPool(c) /\ turn = NoTurn

\* restore_conversation looks into the pool first, whatever turn is asked for.
PrefersPool(c, turn) == InPool(c)

\* restore_conversation on a miss: the turn, or the latest of a COLD
\* conversation, is loaded and promoted.
PromoteFromDisk(c, turn) ==
    /\ ~PrefersPool(c, turn) /\ Capacity > 0
    /\ OnDisk(c) # {} /\ (tier[c] = "COLD" \/ turn # NoTurn)
    /\ LET t == IF turn = NoTurn THEN Latest(c) ELSE turn
       IN  LoadSnapshot(c, t) # None /\ SaveToWarmTier(c, t, LoadSnapshot(c, t), 0)
    /\ UNCHANGED <<disk, saves>>

-----------------------------------------------------------------------------
\* Mutant: only the tick at which the timeout passes counts.
ExpiredNow(in, timeout) == {c \in Conv : tier[c] = in /\ idle[c] = timeout + 1}

\* check_transitions_needed.
Expired(in, timeout) == {c \in Conv : tier[c] = in /\ idle[c] > timeout}

\* demote_to_cold_tier removes an entry once it is on disk.
Demoted(due, failed) == due \ failed

\* Mutant: what has just been demoted is archived in the same cycle.
ArchivableLate(demoted) ==
    Expired("COLD", ColdRetention) \cup {c \in demoted : idle[c] > ColdRetention}

\* The conversations to archive were found before any was demoted.
Archivable(demoted) == Expired("COLD", ColdRetention)

\* run_cleanup_cycle.  A demotion that fails leaves the entry at the end of the
\* pool; an archiving that fails leaves the turns it had not reached.
RunCleanupCycle(failed) ==
    LET due == {c \in Expired("WARM", WarmTimeout) : InPool(c)}
    IN  \E cut \in Turn :
        LET cold == Demoted(due, failed)
            gone == Archivable(cold)
            saved == [c \in Conv |-> IF c \in due \ failed
                                     THEN [disk[c] EXCEPT ![entry[c].turn] = entry[c].state]
                                     ELSE disk[c]]
        IN  /\ due \cup gone # {} /\ failed \subseteq due \cup gone
            /\ pool' = pool \ cold
            /\ \E o \in SUBSET ((due \ cold) \X (due \ cold)) :
                Ordered(o, due \ cold) /\ older' = MoveToEnd(pool \ cold, due \ cold, o)
            /\ entry' = Kept(entry, pool \ cold)
            /\ disk' = [c \in Conv |-> [t \in Turn |->
                          IF c \in gone /\ (c \in failed => t < cut) THEN None ELSE saved[c][t]]]
            /\ tier' = [c \in Conv |-> IF c \in gone \ failed THEN "ARCHIVED"
                                       ELSE IF c \in cold THEN "COLD" ELSE tier[c]]
            /\ UNCHANGED <<idle, saves>>

\* A restart: restore_latest_snapshots_to_warm_tier pools the latest snapshots
\* one after the other, in the order of the directory; a snapshot that cannot
\* be read is skipped.
Restart ==
    /\ "crash" \in Feature
    /\ \E found \in SUBSET {c \in Conv : OnDisk(c) # {} /\ Capacity > 0} :
        /\ "io" \in Feature \/ found = {c \in Conv : OnDisk(c) # {} /\ Capacity > 0}
        /\ \E kept \in SUBSET found :
            /\ IF Cardinality(found) <= Capacity THEN kept = found
               ELSE Cardinality(kept) = Capacity
            /\ pool' = kept /\ older' \in SUBSET (kept \X kept) /\ Ordered(older', kept)
            /\ entry' = [c \in Conv |-> IF c \in kept
                             THEN [turn |-> Latest(c), state |-> disk[c][Latest(c)]]
                             ELSE NoEntry]
        /\ tier' = [c \in Conv |-> IF c \in found THEN "WARM" ELSE "none"]
    /\ idle' = [c \in Conv |-> 0]
    /\ UNCHANGED <<disk, saves>>

Tick ==
    /\ idle' = [c \in Conv |-> IF tier[c] # "none" /\ idle[c] < Forever THEN idle[c] + 1 ELSE idle[c]]
    /\ UNCHANGED <<pool, older, entry, disk, tier, saves>>

Next ==
    \/ \E c \in Conv, t \in Turn :
        HookSave(c, t) \/ SaveLive(c, t) \/ HandleDeleteSnapshot(c, t)
    \/ \E c \in Conv : RestoreFromWarmTier(c)
    \/ \E c \in Conv, turn \in Turn \cup {NoTurn} : SavePooled(c, turn) \/ PromoteFromDisk(c, turn)
    \/ \E failed \in SUBSET Conv : (failed # {} => "io" \in Feature) /\ RunCleanupCycle(failed)
    \/ Restart
    \/ Tick

Spec == Init /\ [][Next]_vars

\* Time passes, and the cleanup thread wakes up again and again; a disk that
\* fails does not fail for ever.
FairSpec == Spec /\ WF_vars(RunCleanupCycle({})) /\ WF_vars(Tick)

-----------------------------------------------------------------------------
\* The pool never holds more than Capacity entries, each of one conversation.
TypeOK ==
    /\ pool \subseteq Conv /\ Cardinality(pool) <= Capacity /\ Ordered(older, pool)
    /\ entry \in [Conv -> [turn : Turn, state : State] \cup {NoEntry}]
    /\ \A c \in Conv : InPool(c) <=> entry[c] # NoEntry
    /\ disk \in [Conv -> [Turn -> State \cup {None}]]
    /\ tier \in [Conv -> {"none", "WARM", "COLD", "ARCHIVED"}]
    /\ idle \in [Conv -> Age]
    /\ saves \in 0..MaxSaves

\* The tracker and the pool agree: a conversation whose state is in host RAM is
\* WARM, so cleanup never archives the snapshots of a conversation in use.
PooledIsWarm == \A c \in Conv : InPool(c) => tier[c] = "WARM"

\* A state leaves host RAM only for the disk, or when a full pool takes in
\* another state; no failure of a cleanup cycle and no second transition in the
\* same cycle loses it.
LeavesPoolForDisk ==
    [][\A c \in Conv : InPool(c) /\ ~InPool(c)' /\ ~Restart =>
        \/ disk'[c][entry[c].turn] = entry[c].state
        \/ Cardinality(pool) = Capacity /\ \E d \in Conv : InPool(d)' /\ entry'[d] # entry[d]]_vars

\* While a conversation is in host RAM its state there never goes back to an
\* older one.
PoolNeverRegresses ==
    [][\A c \in Conv : InPool(c) /\ InPool(c)' /\ ~Restart =>
        entry'[c].state >= entry[c].state]_vars

\* A conversation that is not accessed leaves host RAM in the end, however
\* often its state is saved again.
UnusedIsDemoted ==
    \A c \in Conv : (InPool(c) /\ idle[c] > 0) ~> (~InPool(c) \/ idle[c] = 0)

-----------------------------------------------------------------------------
\* "Falls back to disk ... when the WARM tier has no entry"
\* (_load_snapshot_for_pending_restore).
FallsBackToDisk ==
    \A c \in Conv : OnDisk(c) # {} => LoadForPendingRestore(c, NoTurn) # None
=============================================================================
