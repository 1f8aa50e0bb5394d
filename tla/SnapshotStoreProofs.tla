------------------------- MODULE SnapshotStoreProofs -------------------------
(***************************************************************************)
(* Proofs about SnapshotStore, for any turns, branches, threads, bounds    *)
(* and faults, of threads that have exclusive access snapshot by snapshot. *)
(*                                                                         *)
(* The inductive invariant says how far each call has come: while a save   *)
(* is at work its version is in the temporary file, then in the state      *)
(* file, and the metadata are older; while a delete is at work the         *)
(* metadata are gone before the state is; and no two threads hold one      *)
(* snapshot, so that no other thread can disturb any of this.              *)
(***************************************************************************)
EXTENDS SnapshotStore, TLAPS

Saving == {"write_state", "rename_state", "write_meta", "rename_meta"}
Deleting == {"unlink_meta", "unlink_state"}

\* How far the call of a thread has come.
Sound(t) ==
    /\ op[t].ver <= saves
    /\ op[t].at = "idle" => op[t] = Resting(op[t].reply)
    /\ op[t].at # "idle" => op[t].reply = "none"
    /\ op[t].at \in Saving =>
        /\ op[t].key \in Key /\ op[t].ver # None /\ op[t].todo = {}
        /\ op[t].job \in {"callback", "save", "demote"}
        /\ meta[op[t].key] # op[t].ver
    /\ op[t].at = "rename_state" => stateTmp[op[t].key] = op[t].ver
    /\ op[t].at \in {"write_meta", "rename_meta"} => state[op[t].key] = op[t].ver
    /\ op[t].at = "rename_meta" => metaTmp[op[t].key] = op[t].ver
    /\ op[t].at = "prune" => op[t].job = "callback"
    /\ op[t].at \in Deleting =>
        /\ op[t].key \in Key
        /\ op[t].job \in {"callback", "delete", "archive"}
        /\ op[t].job = "delete" => op[t].todo = {}
    /\ op[t].at = "unlink_state" => meta[op[t].key] = None

\* No two threads hold one snapshot.
Apart == \A t, u \in Thread : t # u => Held(t) \cap Held(u) = {}

IInv ==
    /\ TypeOK
    /\ \A k \in Key : meta[k] <= saves
    /\ \A t \in Thread : Sound(t)
    /\ Apart

\* A step of thread t leaves the other threads, and the files of snapshots that
\* t does not hold, as they are.
Local(t) ==
    /\ saves <= saves'
    /\ \A u \in Thread \ {t} : op'[u] = op[u]
    /\ \A k \in Key \ Held(t) : /\ state'[k] = state[k] /\ meta'[k] = meta[k]
                               /\ stateTmp'[k] = stateTmp[k] /\ metaTmp'[k] = metaTmp[k]

\* A step changes at most the files of the snapshots that t holds.
FilesOnly(t) ==
    /\ state' \in File /\ meta' \in File /\ stateTmp' \in File /\ metaTmp' \in File
    /\ UNCHANGED <<saves, output>>
    /\ \A k \in Key \ Held(t) : /\ state'[k] = state[k] /\ meta'[k] = meta[k]
                               /\ stateTmp'[k] = stateTmp[k] /\ metaTmp'[k] = metaTmp[k]
    /\ \A k \in Key : meta'[k] <= saves

-----------------------------------------------------------------------------
\* Turns and branches are told apart from None (save_snapshot always has a key).
LEMMA KeyNotNone == None \notin Key
BY TurnAssumption, BranchAssumption DEF None, Key

\* A call of another thread does not notice a local step.
LEMMA OthersStaySound ==
    ASSUME NEW t \in Thread, NEW u \in Thread \ {t}, TypeOK, TypeOK', Sound(u), Apart, Local(t)
    PROVE  Sound(u)'
<1>1. op'[u] = op[u] /\ saves <= saves'
  BY DEF Local
<1>2. op[u] \in Op /\ saves \in Nat /\ saves' \in Nat
  BY MaxSavesAssumption DEF TypeOK
<1>3. op[u].ver \in Nat
  BY <1>2, MaxSavesAssumption DEF Op, Version, None
<1>4. op[u].key \in Key => op[u].key \in Key \ Held(t)
  BY KeyNotNone DEF Apart, Held
<1>5. op[u].key \in Key =>
        /\ state'[op[u].key] = state[op[u].key] /\ meta'[op[u].key] = meta[op[u].key]
        /\ stateTmp'[op[u].key] = stateTmp[op[u].key] /\ metaTmp'[op[u].key] = metaTmp[op[u].key]
  BY <1>4 DEF Local
<1>6. op'[u].ver <= saves'
  BY <1>1, <1>2, <1>3 DEF Sound
<1>7. QED
  BY <1>1, <1>5, <1>6 DEF Sound, Saving, Deleting, Resting

\* What an action has to show: the types, its own call, and that it holds
\* nothing another thread holds.
LEMMA LocalStep ==
    ASSUME IInv, NEW t \in Thread, TypeOK', Local(t), Sound(t)',
           \A k \in Key : meta'[k] <= saves',
           \A u \in Thread \ {t} : Held(t)' \cap Held(u) = {}
    PROVE  IInv'
<1>1. \A u \in Thread : Sound(u)'
  BY OthersStaySound DEF IInv
<1>2. \A u \in Thread \ {t} : Held(u)' = Held(u)
  BY DEF Held, Local
<1>3. Apart'
  BY <1>2 DEF IInv, Apart
<1>4. QED
  BY <1>1, <1>3 DEF IInv

\* Nothing is open and no file exists at the start.
LEMMA InitIInv == Init => IInv
<1> SUFFICES ASSUME Init PROVE IInv
  OBVIOUS
<1> USE DEF Init
<1>1. Resting("none") \in Op
  BY DEF Resting, Op, Stage, Job
<1>2. TypeOK
  <2>1. state \in File /\ meta \in File /\ stateTmp \in File /\ metaTmp \in File
    BY DEF File
  <2>2. op \in [Thread -> Op]
    BY <1>1
  <2>3. \A t \in Thread : op[t] = Resting(op[t].reply)
    BY DEF Resting
  <2>4. saves \in 0..MaxSaves /\ output \in Turn \cup {0}
    BY MaxSavesAssumption
  <2>5. QED
    BY <2>1, <2>2, <2>3, <2>4 DEF TypeOK
<1>3. \A t \in Thread : Sound(t)
  BY DEF Sound, Resting, Saving, Deleting, None
<1>4. Apart
  BY DEF Apart, Held, Resting
<1>5. QED
  BY <1>2, <1>3, <1>4 DEF IInv, None

\* A save begins with a version that no metadata file has yet.
LEMMA BeginSaveIInv ==
    ASSUME IInv, Exclusive, NEW t \in Thread, NEW job \in {"callback", "save", "demote"},
           NEW k \in Key, BeginSave(t, job, k), output' \in Turn \cup {0}
    PROVE  IInv'
<1> DEFINE new == [at |-> "write_state", job |-> job, key |-> k, ver |-> saves + 1,
                   todo |-> {}, reply |-> "none"]
<1>1. op' = [op EXCEPT ![t] = new] /\ saves' = saves + 1 /\ saves < MaxSaves
  BY DEF BeginSave
<1>2. UNCHANGED <<state, meta, stateTmp, metaTmp>>
  BY DEF BeginSave
<1>3. saves \in Nat /\ MaxSaves \in Nat
  BY MaxSavesAssumption DEF IInv, TypeOK
<1>4. new \in Op
  BY <1>1, <1>3 DEF Op, Stage, Job, Version
<1>5. op' \in [Thread -> Op] /\ op'[t] = new /\ \A u \in Thread \ {t} : op'[u] = op[u]
  BY <1>1, <1>4 DEF IInv, TypeOK
<1>6. TypeOK'
  <2>1. \A u \in Thread : op'[u].at = "idle" => op'[u] = Resting(op'[u].reply)
    BY <1>5 DEF IInv, TypeOK
  <2>2. saves' \in 0..MaxSaves
    BY <1>1, <1>3
  <2>3. QED
    BY <1>2, <1>5, <2>1, <2>2 DEF IInv, TypeOK
<1>7. \A n \in Key : meta[n] \in Nat
  BY MaxSavesAssumption DEF IInv, TypeOK, File, Version, None
<1>8. \A n \in Key : meta'[n] <= saves'
  BY <1>1, <1>2, <1>3, <1>7 DEF IInv
<1>9. Local(t)
  BY <1>1, <1>2, <1>3, <1>5 DEF Local
<1>10. Sound(t)'
  BY <1>1, <1>2, <1>3, <1>5, <1>7 DEF IInv, Sound, Saving, Deleting, None
<1>11. \A u \in Thread \ {t} : Held(t)' \cap Held(u) = {}
  BY <1>5 DEF BeginSave, MayTouch, Held
<1>12. QED
  BY <1>6, <1>8, <1>9, <1>10, <1>11, LocalStep

\* A step of a call that takes no version.
LEMMA CallStep ==
    ASSUME IInv, NEW t \in Thread, NEW new \in Op, op' = [op EXCEPT ![t] = new],
           \A u \in Thread \ {t} : (new.todo \cup ({new.key} \ {None})) \cap Held(u) = {},
           FilesOnly(t),
           new.at = "idle" => new = Resting(new.reply),
           Sound(t)'
    PROVE  IInv'
<1>1. op' \in [Thread -> Op] /\ op'[t] = new /\ \A u \in Thread \ {t} : op'[u] = op[u]
  BY DEF IInv, TypeOK
<1>2. TypeOK'
  <2>1. \A u \in Thread : op'[u].at = "idle" => op'[u] = Resting(op'[u].reply)
    BY <1>1 DEF IInv, TypeOK
  <2>2. QED
    BY <1>1, <2>1 DEF IInv, TypeOK, FilesOnly
<1>3. saves <= saves'
  BY MaxSavesAssumption DEF IInv, TypeOK, FilesOnly
<1>4. Local(t) /\ \A k \in Key : meta'[k] <= saves'
  BY <1>1, <1>3 DEF Local, FilesOnly
<1>5. \A u \in Thread \ {t} : Held(t)' \cap Held(u) = {}
  BY <1>1 DEF Held
<1>6. QED
  BY <1>2, <1>4, <1>5, LocalStep

\* A call that returns is at rest, whatever it did to the snapshot in hand.
LEMMA EndsIInv ==
    ASSUME IInv, NEW t \in Thread, NEW reply \in {"none", "ok", "failed"}, Ends(t, reply),
           FilesOnly(t)
    PROVE  IInv'
<1>1. Resting(reply) \in Op
  BY DEF Resting, Op, Stage, Job
<1>2. op' = [op EXCEPT ![t] = Resting(reply)] /\ op'[t] = Resting(reply)
  BY DEF Ends, IInv, TypeOK
<1>3. saves' = saves /\ saves \in Nat
  BY MaxSavesAssumption DEF IInv, TypeOK, FilesOnly
<1>4. Sound(t)'
  BY <1>2, <1>3 DEF Sound, Resting, Saving, Deleting, None
<1>5. \A u \in Thread \ {t} :
        (Resting(reply).todo \cup ({Resting(reply).key} \ {None})) \cap Held(u) = {}
  BY DEF Resting
<1>6. Resting(reply).at = "idle" => Resting(reply) = Resting(Resting(reply).reply)
  BY DEF Resting
<1>7. QED
  BY <1>1, <1>2, <1>4, <1>5, <1>6, CallStep

\* Deleting goes on with turns that no other thread holds.
LEMMA DeleteNextIInv ==
    ASSUME IInv, NEW t \in Thread, NEW job \in {"callback", "delete", "archive"},
           NEW todo \in SUBSET Turn, job = "delete" => todo = {}, DeleteNext(t, job, todo),
           \A u \in Thread \ {t} : todo \cap Held(u) = {},
           FilesOnly(t)
    PROVE  IInv'
<1>1. CASE Ends(t, "ok")
  BY <1>1, EndsIInv
<1>2. ASSUME NEW k \in todo, BeginDelete(t, job, k, todo \ {k})
      PROVE  IInv'
  <2> DEFINE new == [at |-> "unlink_meta", job |-> job, key |-> k, ver |-> None,
                     todo |-> todo \ {k}, reply |-> "none"]
  <2>1. new \in Op
    BY DEF Op, Stage, Job, Key
  <2>2. op' = [op EXCEPT ![t] = new] /\ op'[t] = new
    BY <1>2 DEF BeginDelete, IInv, TypeOK
  <2>3. saves' = saves /\ saves \in Nat
    BY MaxSavesAssumption DEF IInv, TypeOK, FilesOnly
  <2>4. Sound(t)'
    BY <2>2, <2>3 DEF Sound, Saving, Deleting, None, Key
  <2>5. \A u \in Thread \ {t} : (new.todo \cup ({new.key} \ {None})) \cap Held(u) = {}
    OBVIOUS
  <2>6. new.at # "idle"
    OBVIOUS
  <2> HIDE DEF new
  <2>7. QED
    BY <2>1, <2>2, <2>4, <2>5, <2>6, CallStep
<1>3. QED
  BY <1>1, <1>2 DEF DeleteNext

\* A call moves to another of its stages and keeps what it holds.
LEMMA MovesIInv ==
    ASSUME IInv, NEW t \in Thread, NEW to \in Stage \ {"idle"}, Moves(t, to),
           FilesOnly(t),
           Sound(t)'
    PROVE  IInv'
<1> DEFINE new == [op[t] EXCEPT !.at = to]
<1>1. op[t] \in Op
  BY DEF IInv, TypeOK
<1>2. new \in Op /\ new.at = to /\ new.key = op[t].key /\ new.todo = op[t].todo
  BY <1>1 DEF Op
<1>3. op' = [op EXCEPT ![t] = new]
  BY DEF Moves
<1> HIDE DEF new
<1>4. \A u \in Thread \ {t} : (new.todo \cup ({new.key} \ {None})) \cap Held(u) = {}
  BY <1>2 DEF IInv, Apart, Held
<1>5. QED
  BY <1>2, <1>3, <1>4, CallStep

-----------------------------------------------------------------------------
\* What is known of a call that works on a snapshot.
LEMMA CallFacts ==
    ASSUME IInv, NEW t \in Thread, op[t].at \in Saving \cup Deleting
    PROVE  /\ op[t].key \in Key /\ op[t].key \in Held(t)
           /\ op[t].at \in Saving => op[t].ver \in Version /\ op[t].ver <= saves
           /\ op[t] \in Op /\ saves \in Nat
<1>1. op[t] \in Op /\ saves \in Nat /\ Sound(t)
  BY MaxSavesAssumption DEF IInv, TypeOK
<1>2. op[t].key \in Key
  BY <1>1 DEF Sound
<1>3. op[t].key \in Held(t)
  BY <1>2, KeyNotNone DEF Held
<1>4. QED
  BY <1>1, <1>2, <1>3 DEF Sound, Op

\* Actions that change the files of the snapshot in hand only.
LEMMA OneSnapshot ==
    ASSUME IInv, NEW t \in Thread, op[t].at \in Saving \cup Deleting,
           NEW a \in Version \cup {None}, NEW b \in Version \cup {None},
           NEW c \in Version \cup {None}, NEW d \in Version \cup {None},
           state' \in {state, [state EXCEPT ![op[t].key] = a]},
           meta' \in {meta, [meta EXCEPT ![op[t].key] = b]}, b <= saves,
           stateTmp' \in {stateTmp, [stateTmp EXCEPT ![op[t].key] = c]},
           metaTmp' \in {metaTmp, [metaTmp EXCEPT ![op[t].key] = d]},
           UNCHANGED <<saves, output>>
    PROVE  FilesOnly(t)
<1>1. op[t].key \in Key /\ op[t].key \in Held(t)
  BY CallFacts
<1>2. state \in File /\ meta \in File /\ stateTmp \in File /\ metaTmp \in File
  BY DEF IInv, TypeOK
<1>3. state' \in File /\ meta' \in File /\ stateTmp' \in File /\ metaTmp' \in File
  BY <1>1, <1>2 DEF File
<1>4. \A k \in Key \ Held(t) : /\ state'[k] = state[k] /\ meta'[k] = meta[k]
                              /\ stateTmp'[k] = stateTmp[k] /\ metaTmp'[k] = metaTmp[k]
  BY <1>1, <1>2 DEF File
<1>5. \A k \in Key : meta'[k] <= saves
  BY <1>1, <1>2 DEF File, IInv
<1>6. QED
  BY <1>3, <1>4, <1>5 DEF FilesOnly

\* Moving on changes the stage of the call and nothing else of it.
LEMMA MovesFacts ==
    ASSUME IInv, NEW t \in Thread, NEW to \in Stage, Moves(t, to)
    PROVE  /\ op'[t].at = to /\ op'[t].job = op[t].job /\ op'[t].key = op[t].key
           /\ op'[t].ver = op[t].ver /\ op'[t].todo = op[t].todo /\ op'[t].reply = op[t].reply
<1>1. op[t] \in Op /\ op'[t] = [op[t] EXCEPT !.at = to]
  BY DEF IInv, TypeOK, Moves
<1>2. QED
  BY <1>1 DEF Op

\* The temporary state file gets the version of the save (save_snapshot).
LEMMA WriteStateIInv ==
    ASSUME IInv, NEW t \in Thread, WriteState(t)
    PROVE  IInv'
<1> USE DEF WriteState
<1>1. op[t].at \in Saving /\ op[t].at \in Saving \cup Deleting /\ "rename_state" \in Stage \ {"idle"}
  BY DEF Saving, Stage
<1>2. op[t].key \in Key /\ op[t].ver \in Version /\ Sound(t)
  BY <1>1, CallFacts DEF IInv
<1>3. FilesOnly(t)
  <2>1. None <= saves
    BY <1>1, CallFacts DEF None
  <2>2. QED
    BY <1>1, <1>2, <2>1, OneSnapshot
<1>4. stateTmp'[op[t].key] = op[t].ver
  BY <1>2 DEF IInv, TypeOK, File
<1>5. Sound(t)'
  BY <1>1, <1>2, <1>4, MovesFacts DEF Sound, Saving, Deleting
<1>6. QED
  BY <1>1, <1>3, <1>5, MovesIInv

\* The rename puts the version into the state file; the metadata lag behind.
LEMMA RenameStateIInv ==
    ASSUME IInv, NEW t \in Thread, RenameState(t)
    PROVE  IInv'
<1> USE DEF RenameState
<1>1. op[t].at \in Saving /\ op[t].at \in Saving \cup Deleting /\ "write_meta" \in Stage \ {"idle"}
  BY DEF Saving, Stage
<1>2. op[t].key \in Key /\ op[t].ver \in Version /\ Sound(t)
  BY <1>1, CallFacts DEF IInv
<1>3. stateTmp[op[t].key] = op[t].ver
  BY <1>2 DEF Sound
<1>4. FilesOnly(t)
  <2>1. None <= saves
    BY <1>1, CallFacts DEF None
  <2>2. QED
    BY <1>1, <1>2, <1>3, <2>1, OneSnapshot
<1>5. state'[op[t].key] = op[t].ver
  BY <1>2, <1>3 DEF IInv, TypeOK, File
<1>6. Sound(t)'
  BY <1>1, <1>2, <1>5, MovesFacts DEF Sound, Saving, Deleting
<1>7. QED
  BY <1>1, <1>4, <1>6, MovesIInv

\* The temporary metadata file gets the version of the save.
LEMMA WriteMetaIInv ==
    ASSUME IInv, NEW t \in Thread, WriteMeta(t)
    PROVE  IInv'
<1> USE DEF WriteMeta
<1>1. op[t].at \in Saving /\ op[t].at \in Saving \cup Deleting /\ "rename_meta" \in Stage \ {"idle"}
  BY DEF Saving, Stage
<1>2. op[t].key \in Key /\ op[t].ver \in Version /\ Sound(t)
  BY <1>1, CallFacts DEF IInv
<1>3. FilesOnly(t)
  <2>1. None <= saves
    BY <1>1, CallFacts DEF None
  <2>2. QED
    BY <1>1, <1>2, <2>1, OneSnapshot
<1>4. metaTmp'[op[t].key] = op[t].ver
  BY <1>2 DEF IInv, TypeOK, File
<1>5. Sound(t)'
  BY <1>1, <1>2, <1>4, MovesFacts DEF Sound, Saving, Deleting
<1>6. QED
  BY <1>1, <1>3, <1>5, MovesIInv

\* The metadata of the version in the state file replace the old ones.
LEMMA RenameMetaIInv ==
    ASSUME IInv, NEW t \in Thread, RenameMeta(t)
    PROVE  IInv'
<1> USE DEF RenameMeta
<1>1. op[t].at \in Saving /\ op[t].at \in Saving \cup Deleting /\ "prune" \in Stage \ {"idle"}
  BY DEF Saving, Stage
<1>2. op[t].key \in Key /\ op[t].ver \in Version /\ op[t].ver <= saves /\ Sound(t)
  BY <1>1, CallFacts DEF IInv
<1>3. metaTmp[op[t].key] = op[t].ver
  BY <1>2 DEF Sound
<1>4. FilesOnly(t)
  BY <1>1, <1>2, <1>3, OneSnapshot
<1>5. CASE op[t].job = "callback"
  <2>1. Moves(t, "prune")
    BY <1>5
  <2>2. Sound(t)'
    BY <1>1, <1>2, <1>5, <2>1, MovesFacts DEF Sound, Saving, Deleting
  <2>3. QED
    BY <1>1, <1>4, <2>1, <2>2, MovesIInv
<1>6. CASE op[t].job # "callback"
  BY <1>4, <1>6, EndsIInv
<1>7. QED
  BY <1>5, <1>6

\* The error paths of save_snapshot end the call.
LEMMA SaveFailsIInv ==
    ASSUME IInv, NEW t \in Thread, StateFails(t) \/ MetaFails(t)
    PROVE  IInv'
<1>1. op[t].at \in Saving \cup Deleting
  BY DEF StateFails, StateFailing, MetaFails, Saving
<1>2. None <= saves
  BY <1>1, CallFacts DEF None
<1>3. CASE StateFails(t)
  <2>1. FilesOnly(t)
    BY <1>1, <1>2, <1>3, OneSnapshot DEF StateFails
  <2>2. QED
    BY <1>3, <2>1, EndsIInv DEF StateFails
<1>4. CASE MetaFails(t)
  <2>1. FilesOnly(t)
    BY <1>1, <1>2, <1>4, OneSnapshot DEF MetaFails
  <2>2. QED
    BY <1>4, <2>1, EndsIInv DEF MetaFails
<1>5. QED
  BY <1>3, <1>4

\* Deleting begins with, and goes on through, turns that are free.
LEMMA UnchangedFiles ==
    ASSUME IInv, NEW t \in Thread, UNCHANGED <<state, meta, stateTmp, metaTmp, saves, output>>
    PROVE  FilesOnly(t)
BY DEF IInv, TypeOK, FilesOnly

\* prune_old_snapshots picks turns that no other thread holds.
LEMMA PruneIInv ==
    ASSUME IInv, Exclusive, NEW t \in Thread, PruneOldSnapshots(t)
    PROVE  IInv'
<1>1. FilesOnly(t)
  BY UnchangedFiles DEF PruneOldSnapshots
<1>2. Pruned(Listed) \in SUBSET Turn
  BY DEF Pruned, Listed
<1>3. \A u \in Thread \ {t} : Pruned(Listed) \cap Held(u) = {}
  BY DEF PruneOldSnapshots, MayTouch
<1>4. DeleteNext(t, "callback", Pruned(Listed))
  BY DEF PruneOldSnapshots
<1>5. QED
  BY <1>1, <1>2, <1>3, <1>4, DeleteNextIInv

\* Once its metadata are gone the snapshot's state file is next.
LEMMA UnlinkMetaIInv ==
    ASSUME IInv, NEW t \in Thread, UnlinkMeta(t)
    PROVE  IInv'
<1> USE DEF UnlinkMeta
<1>1. op[t].at \in Deleting /\ op[t].at \in Saving \cup Deleting /\ "unlink_state" \in Stage \ {"idle"}
  BY DEF Deleting, Stage
<1>2. op[t].key \in Key /\ None <= saves /\ Sound(t)
  BY <1>1, CallFacts DEF IInv, None
<1>3. FilesOnly(t)
  BY <1>1, <1>2, OneSnapshot
<1>4. meta'[op[t].key] = None
  BY <1>2 DEF IInv, TypeOK, File
<1>5. Sound(t)'
  BY <1>1, <1>2, <1>4, MovesFacts DEF Sound, Saving, Deleting
<1>6. QED
  BY <1>1, <1>3, <1>5, MovesIInv

\* The state file goes, or an unlink fails: the call goes on or returns.
LEMMA UnlinkStateIInv ==
    ASSUME IInv, NEW t \in Thread, UnlinkState(t) \/ UnlinkFails(t)
    PROVE  IInv'
<1>1. op[t].at \in Deleting /\ op[t].at \in Saving \cup Deleting
  BY DEF UnlinkState, UnlinkFails, Deleting
<1>2. op[t] \in Op /\ None <= saves /\ Sound(t)
  BY <1>1, CallFacts DEF IInv, None
<1>3. /\ op[t].job \in {"callback", "delete", "archive"} /\ op[t].todo \in SUBSET Turn
      /\ op[t].job = "delete" => op[t].todo = {}
  BY <1>1, <1>2 DEF Sound, Op
<1>4. \A u \in Thread \ {t} : op[t].todo \cap Held(u) = {}
  BY DEF IInv, Apart, Held
<1>5. CASE UnlinkState(t)
  <2>1. FilesOnly(t)
    BY <1>1, <1>2, <1>5, OneSnapshot DEF UnlinkState
  <2>2. QED
    BY <1>3, <1>4, <1>5, <2>1, DeleteNextIInv DEF UnlinkState
<1>6. CASE UnlinkFails(t)
  <2>1. FilesOnly(t)
    BY <1>6, UnchangedFiles DEF UnlinkFails
  <2>2. CASE op[t].job = "callback"
    BY <1>3, <1>4, <1>6, <2>1, <2>2, DeleteNextIInv DEF UnlinkFails
  <2>3. CASE op[t].job # "callback"
    BY <1>6, <2>1, <2>3, EndsIInv DEF UnlinkFails
  <2>4. QED
    BY <2>2, <2>3
<1>7. QED
  BY <1>5, <1>6

\* The calls that begin with deleting or pruning.
LEMMA HandleDeleteIInv ==
    ASSUME IInv, Exclusive, NEW k \in Key, HandleDelete(k)
    PROVE  IInv'
<1> DEFINE t == "scheduler"
           new == [at |-> "unlink_meta", job |-> "delete", key |-> k, ver |-> None,
                   todo |-> {}, reply |-> "none"]
<1>1. t \in Thread /\ new \in Op /\ new.at # "idle"
  BY ThreadAssumption DEF Op, Stage, Job
<1>2. op' = [op EXCEPT ![t] = new] /\ op'[t] = new
  BY <1>1 DEF HandleDelete, BeginDelete, IInv, TypeOK
<1>3. FilesOnly(t) /\ saves' = saves /\ saves \in Nat
  BY <1>1, UnchangedFiles, MaxSavesAssumption DEF HandleDelete, IInv, TypeOK
<1>4. Sound(t)'
  BY <1>2, <1>3 DEF Sound, Saving, Deleting, None
<1>5. \A u \in Thread \ {t} : (new.todo \cup ({new.key} \ {None})) \cap Held(u) = {}
  BY DEF HandleDelete, MayTouch
<1> HIDE DEF t, new
<1>6. QED
  BY <1>1, <1>2, <1>3, <1>4, <1>5, CallStep

\* With memory tiers the callback holds nothing until it prunes.
LEMMA WarmSaveIInv ==
    ASSUME IInv, WarmSave
    PROVE  IInv'
<1> DEFINE t == "scheduler"
           new == [at |-> "prune", job |-> "callback", key |-> None, ver |-> None,
                   todo |-> {}, reply |-> "none"]
<1>1. t \in Thread /\ new \in Op /\ new.at # "idle"
  BY ThreadAssumption DEF Op, Stage, Job
<1>2. op' = [op EXCEPT ![t] = new] /\ op'[t] = new
  BY <1>1 DEF WarmSave, IInv, TypeOK
<1>3. FilesOnly(t) /\ saves' = saves /\ saves \in Nat
  BY <1>1, UnchangedFiles, MaxSavesAssumption DEF WarmSave, IInv, TypeOK
<1>4. Sound(t)'
  BY <1>2, <1>3 DEF Sound, Saving, Deleting, None
<1>5. \A u \in Thread \ {t} : (new.todo \cup ({new.key} \ {None})) \cap Held(u) = {}
  OBVIOUS
<1> HIDE DEF t, new
<1>6. QED
  BY <1>1, <1>2, <1>3, <1>4, <1>5, CallStep

\* Archiving picks turns that no other thread holds.
LEMMA ArchiveIInv ==
    ASSUME IInv, Exclusive, "cleanup" \in Thread, Archive
    PROVE  IInv'
<1>1. FilesOnly("cleanup")
  BY UnchangedFiles DEF Archive
<1>2. Listed \in SUBSET Turn
  BY DEF Listed
<1>3. \A u \in Thread \ {"cleanup"} : Listed \cap Held(u) = {}
  BY DEF Archive, MayTouch
<1>4. DeleteNext("cleanup", "archive", Listed)
  BY DEF Archive
<1>5. QED
  BY <1>1, <1>2, <1>3, <1>4, DeleteNextIInv

\* A restart finds no call at work and every file as it was.
LEMMA CrashIInv ==
    ASSUME IInv, Crash
    PROVE  IInv'
<1> USE DEF Crash
<1>1. Resting("none") \in Op
  BY DEF Resting, Op, Stage, Job
<1>2. \A t \in Thread : op'[t] = Resting("none")
  OBVIOUS
<1>3. TypeOK'
  <2>1. op' \in [Thread -> Op]
    BY <1>1
  <2>2. \A t \in Thread : op'[t] = Resting(op'[t].reply)
    BY <1>2 DEF Resting
  <2>3. QED
    BY <2>1, <2>2 DEF IInv, TypeOK
<1>4. saves' = saves /\ saves \in Nat
  BY MaxSavesAssumption DEF IInv, TypeOK
<1>5. \A t \in Thread : Sound(t)'
  BY <1>2, <1>4 DEF Sound, Resting, Saving, Deleting, None
<1>6. Apart'
  BY <1>2 DEF Apart, Held, Resting
<1>7. QED
  BY <1>3, <1>5, <1>6 DEF IInv

-----------------------------------------------------------------------------
\* Every step of the file operations keeps the invariant.
LEMMA StepIInv ==
    ASSUME IInv, Exclusive, NEW t \in Thread, Step(t)
    PROVE  IInv'
BY WriteStateIInv, RenameStateIInv, WriteMetaIInv, RenameMetaIInv, SaveFailsIInv, PruneIInv,
   UnlinkMetaIInv, UnlinkStateIInv DEF Step

\* The invariant is inductive.
LEMMA NextIInv ==
    ASSUME IInv, Exclusive, [Next]_vars
    PROVE  IInv'
<1>1. ASSUME NEW n \in Turn, DecodeSave(n) \/ FinishSave(n) PROVE IInv'
  <2>1. BeginSave("scheduler", "callback", n) /\ n \in Key /\ output' \in Turn \cup {0}
    BY <1>1 DEF DecodeSave, FinishSave, Key
  <2>2. QED
    BY <2>1, BeginSaveIInv, ThreadAssumption
<1>2. CASE NextRequest
  BY <1>2 DEF NextRequest, IInv, TypeOK, Sound, Apart, Held
<1>3. ASSUME NEW k \in Key, HandleSave(k) PROVE IInv'
  <2>1. BeginSave("scheduler", "save", k) /\ output' \in Turn \cup {0}
    BY <1>3 DEF HandleSave, IInv, TypeOK
  <2>2. QED
    BY <2>1, BeginSaveIInv, ThreadAssumption
<1>4. ASSUME NEW k \in Key, HandleDelete(k) PROVE IInv'
  BY <1>4, HandleDeleteIInv
<1>5. ASSUME "cleanup" \in Thread, WarmSave \/ Archive PROVE IInv'
  BY <1>5, WarmSaveIInv, ArchiveIInv
<1>6. ASSUME "cleanup" \in Thread, NEW n \in Turn, Demote(n) PROVE IInv'
  <2>1. BeginSave("cleanup", "demote", n) /\ n \in Key /\ output' \in Turn \cup {0}
    BY <1>6 DEF Demote, Key, IInv, TypeOK
  <2>2. QED
    BY <1>6, <2>1, BeginSaveIInv
<1>7. ASSUME NEW t \in Thread, Step(t) PROVE IInv'
  BY <1>7, StepIInv
<1>8. CASE Crash
  BY <1>8, CrashIInv
<1>9. CASE UNCHANGED vars
  BY <1>9 DEF vars, IInv, TypeOK, Sound, Apart, Held
<1>10. QED
  BY <1>1, <1>2, <1>3, <1>4, <1>5, <1>6, <1>7, <1>8, <1>9 DEF Next

\* With exclusive access the invariant holds of every behaviour of the store.
THEOREM Invariance ==
    ASSUME Exclusive
    PROVE  Spec => []IInv
<1>1. Init => IInv
  BY InitIInv
<1>2. IInv /\ [Next]_vars => IInv'
  BY NextIInv
<1>3. QED
  BY <1>1, <1>2, PTL DEF Spec

\* Every file holds one save's work, and a thread at rest holds no snapshot:
\* no call of MambaSnapshotManager returns with a snapshot in hand.
THEOREM TypeCorrect ==
    ASSUME Exclusive
    PROVE  Spec => []TypeOK
<1>1. IInv => TypeOK
  BY DEF IInv
<1>2. QED
  BY <1>1, Invariance, PTL

-----------------------------------------------------------------------------
\* A call at work answers in a step of its own.
LEMMA AnswersItself ==
    ASSUME IInv, [Next]_vars, NEW t \in Thread, op[t].at # "idle", op'[t].reply = "ok"
    PROVE  Step(t)
<1> USE DEF IInv, TypeOK
<1>1. op[t].reply = "none"
  BY DEF Sound
<1>2. op'[t] # op[t]
  BY <1>1
<1>3. ASSUME NEW u \in Thread, NEW x, op[u].at = "idle", op' = [op EXCEPT ![u] = x] PROVE FALSE
  BY <1>2, <1>3
<1>4. ~ \E n \in Turn : DecodeSave(n) \/ FinishSave(n)
  BY <1>3, ThreadAssumption DEF DecodeSave, FinishSave, BeginSave
<1>5. ~ NextRequest
  BY <1>2 DEF NextRequest
<1>6. ~ \E k \in Key : HandleSave(k) \/ HandleDelete(k)
  BY <1>3, ThreadAssumption DEF HandleSave, BeginSave, HandleDelete, BeginDelete
<1>7. ~ ("cleanup" \in Thread /\ (WarmSave \/ Archive \/ \E n \in Turn : Demote(n)))
  BY <1>3, ThreadAssumption
     DEF WarmSave, Archive, DeleteNext, Ends, BeginDelete, Demote, BeginSave
<1>8. ~ Crash
  BY DEF Crash, Resting
<1>9. PICK u \in Thread : Step(u)
  BY <1>2, <1>4, <1>5, <1>6, <1>7, <1>8 DEF Next, vars
<1>10. \E x : op' = [op EXCEPT ![u] = x]
  BY <1>9 DEF Step, WriteState, RenameState, StateFails, WriteMeta, RenameMeta, MetaFails,
              PruneOldSnapshots, UnlinkMeta, UnlinkState, UnlinkFails, DeleteNext, BeginDelete,
              Moves, Ends
<1>11. QED
  BY <1>2, <1>9, <1>10

\* Of the steps of a save only the rename of the metadata answers "ok".
LEMMA SaveAnswers ==
    ASSUME IInv, NEW t \in Thread, Step(t), Succeeds(t, {"save", "demote"})
    PROVE  state'[op[t].key] = op[t].ver /\ meta'[op[t].key] = op[t].ver
<1> USE DEF Succeeds
<1>1. Sound(t) /\ op[t].reply = "none" /\ op[t].job \notin {"callback", "delete", "archive"}
  BY DEF IInv, Sound
<1>2. op[t].at \in Saving
  BY <1>1 DEF Sound, Step, WriteState, RenameState, StateFails, StateFailing, WriteMeta, RenameMeta,
              MetaFails, PruneOldSnapshots, UnlinkMeta, UnlinkState, UnlinkFails, Saving, Deleting
<1>3. \A to \in Stage : ~ Moves(t, to)
  BY <1>1, MovesFacts
<1>4. ~ Ends(t, "failed")
  BY DEF Ends, Resting, IInv, TypeOK
<1>5. ~ (WriteState(t) \/ RenameState(t) \/ WriteMeta(t) \/ UnlinkMeta(t))
  BY <1>3 DEF WriteState, RenameState, WriteMeta, UnlinkMeta, Stage
<1>6. ~ (StateFails(t) \/ MetaFails(t))
  BY <1>4 DEF StateFails, MetaFails
<1>7. ~ (PruneOldSnapshots(t) \/ UnlinkState(t) \/ UnlinkFails(t))
  BY <1>2 DEF PruneOldSnapshots, UnlinkState, UnlinkFails, Saving
<1>8. RenameMeta(t)
  BY <1>5, <1>6, <1>7 DEF Step
<1>9. op[t].key \in Key /\ state[op[t].key] = op[t].ver /\ metaTmp[op[t].key] = op[t].ver
  BY <1>1, <1>2, <1>8 DEF Sound, RenameMeta
<1>10. QED
  BY <1>8, <1>9 DEF RenameMeta, IInv, TypeOK, File

\* Of the steps of delete_snapshot only the unlink of the state answers "ok".
LEMMA DeleteAnswers ==
    ASSUME IInv, NEW t \in Thread, Step(t), Succeeds(t, {"delete"})
    PROVE  state'[op[t].key] = None /\ meta'[op[t].key] = None
<1> USE DEF Succeeds
<1>1. Sound(t) /\ op[t].reply = "none" /\ op[t].job = "delete"
  BY DEF IInv, Sound
<1>2. op[t].at \in Deleting
  BY <1>1 DEF Sound, Step, WriteState, RenameState, StateFails, StateFailing, WriteMeta, RenameMeta,
              MetaFails, PruneOldSnapshots, UnlinkMeta, UnlinkState, UnlinkFails, Saving, Deleting
<1>3. ~ UnlinkMeta(t)
  BY <1>1, MovesFacts DEF UnlinkMeta, Stage
<1>4. ~ UnlinkFails(t)
  BY <1>1 DEF UnlinkFails, Ends, Resting, IInv, TypeOK
<1>5. UnlinkState(t)
  BY <1>2, <1>3, <1>4 DEF Step, WriteState, RenameState, StateFails, StateFailing, WriteMeta,
                          RenameMeta, MetaFails, PruneOldSnapshots, Deleting
<1>6. op[t].key \in Key /\ meta[op[t].key] = None
  BY <1>1, <1>2, <1>5 DEF Sound, UnlinkState
<1>7. QED
  BY <1>5, <1>6 DEF UnlinkState, IInv, TypeOK, File

\* A save that save_snapshot reports as successful has left both files of the
\* snapshot with what it was given, whatever crashes and errors came before.
THEOREM SavesComplete ==
    ASSUME Exclusive
    PROVE  Spec => SaveIsComplete
<1>1. ASSUME IInv, [Next]_vars
      PROVE  [\A t \in Thread : Succeeds(t, {"save", "demote"}) =>
                state'[op[t].key] = op[t].ver /\ meta'[op[t].key] = op[t].ver]_vars
  <2>1. SUFFICES ASSUME NEW t \in Thread, Succeeds(t, {"save", "demote"})
                 PROVE  state'[op[t].key] = op[t].ver /\ meta'[op[t].key] = op[t].ver
    OBVIOUS
  <2>2. Step(t)
    BY <1>1, <2>1, AnswersItself DEF Succeeds
  <2>3. QED
    BY <1>1, <2>1, <2>2, SaveAnswers
<1>2. QED
  BY <1>1, Invariance, PTL DEF Spec, SaveIsComplete

\* After a delete_snapshot that is reported as successful neither file is there.
THEOREM DeletesComplete ==
    ASSUME Exclusive
    PROVE  Spec => DeleteIsComplete
<1>1. ASSUME IInv, [Next]_vars
      PROVE  [\A t \in Thread : Succeeds(t, {"delete"}) =>
                state'[op[t].key] = None /\ meta'[op[t].key] = None]_vars
  <2>1. SUFFICES ASSUME NEW t \in Thread, Succeeds(t, {"delete"})
                 PROVE  state'[op[t].key] = None /\ meta'[op[t].key] = None
    OBVIOUS
  <2>2. Step(t)
    BY <1>1, <2>1, AnswersItself DEF Succeeds
  <2>3. QED
    BY <1>1, <2>1, <2>2, DeleteAnswers
<1>2. QED
  BY <1>1, Invariance, PTL DEF Spec, DeleteIsComplete

-----------------------------------------------------------------------------
(***************************************************************************)
(* The refinement.                                                         *)
(***************************************************************************)
\* What a step on the files of one snapshot does to what a reader sees.
LEMMA SeenStep ==
    ASSUME NEW k \in Key,
           \A j \in Key \ {k} : state'[j] = state[j] /\ meta'[j] = meta[j]
    PROVE  /\ meta[k] = None <=> Seen[k].meta = None
           /\ meta[k] # None => Seen[k].state = state[k] /\ Seen[k].meta = meta[k]
           /\ meta[k] = None /\ meta'[k] = None => Seen' = Seen
           /\ meta'[k] # None => Seen' = [Seen EXCEPT ![k] = [state |-> state'[k], meta |-> meta'[k]]]
           /\ meta'[k] = None => Seen' = [Seen EXCEPT ![k] = Catalog!Absent]
BY DEF Seen, Catalog!Absent

\* The rename of the state file shows only where there are metadata.
LEMMA RenameStateSeen ==
    ASSUME IInv, NEW t \in Thread, RenameState(t)
    PROVE  [Catalog!Next]_Seen
<1> DEFINE k == op[t].key
           v == op[t].ver
<1>1. k \in Key /\ v \in Version /\ Sound(t)
  BY CallFacts DEF RenameState, Saving, IInv
<1>2. stateTmp[k] = v
  BY <1>1 DEF Sound, RenameState
<1>3. state'[k] = v /\ meta' = meta /\ \A j \in Key \ {k} : state'[j] = state[j]
  BY <1>1, <1>2 DEF RenameState, IInv, TypeOK, File
<1> HIDE DEF k, v
<1>4. CASE meta[k] = None
  BY <1>1, <1>3, <1>4, SeenStep
<1>5. CASE meta[k] # None
  <2>1. Seen[k].meta = meta[k] /\ Seen[k].state = state[k]
    BY <1>1, <1>3, <1>5, SeenStep
  <2>2. Seen' = [Seen EXCEPT ![k] = [state |-> v, meta |-> Seen[k].meta]]
    BY <1>1, <1>3, <1>5, <2>1, SeenStep
  <2>3. Catalog!ReplaceState(k, v)
    BY <1>1, <1>3, <1>5, <2>1, <2>2 DEF Catalog!ReplaceState, Catalog!Visible
  <2>4. QED
    BY <1>1, <2>3 DEF Catalog!Next
<1>6. QED
  BY <1>4, <1>5

\* The rename of the metadata publishes a snapshot, or completes its replacement.
LEMMA RenameMetaSeen ==
    ASSUME IInv, NEW t \in Thread, RenameMeta(t)
    PROVE  [Catalog!Next]_Seen
<1> DEFINE k == op[t].key
           v == op[t].ver
<1>1. k \in Key /\ v \in Version /\ Sound(t)
  BY CallFacts DEF RenameMeta, Saving, IInv
<1>2. metaTmp[k] = v /\ state[k] = v
  BY <1>1 DEF Sound, RenameMeta
<1>3. meta'[k] = v /\ state' = state /\ \A j \in Key \ {k} : meta'[j] = meta[j]
  BY <1>1, <1>2 DEF RenameMeta, IInv, TypeOK, File
<1>4. v # None
  BY <1>1, MaxSavesAssumption DEF Version, None
<1> HIDE DEF k, v
<1>5. CASE meta[k] = None
  <2>1. Catalog!Publish(k, v)
    BY <1>1, <1>2, <1>3, <1>4, <1>5, SeenStep DEF Catalog!Publish, Catalog!Visible
  <2>2. QED
    BY <1>1, <2>1 DEF Catalog!Next
<1>6. CASE meta[k] # None
  <2>1. Seen[k].meta = meta[k] /\ Seen[k].state = state[k]
    BY <1>1, <1>2, <1>3, <1>4, <1>6, SeenStep
  <2>2. Seen' = [Seen EXCEPT ![k] = [state |-> Seen[k].state, meta |-> Seen[k].state]]
    BY <1>1, <1>2, <1>3, <1>4, <1>6, <2>1, SeenStep
  <2>3. Catalog!ReplaceMeta(k)
    BY <1>1, <1>2, <1>3, <1>4, <1>6, <2>1, <2>2 DEF Catalog!ReplaceMeta, Catalog!Visible
  <2>4. QED
    BY <1>1, <2>3 DEF Catalog!Next
<1>7. QED
  BY <1>5, <1>6

\* The error path after the state was replaced: older metadata lose their state.
LEMMA MetaFailsSeen ==
    ASSUME IInv, NEW t \in Thread, MetaFails(t)
    PROVE  [Catalog!Next]_Seen
<1> DEFINE k == op[t].key
<1>1. op[t].at \in Saving /\ k \in Key /\ Sound(t)
  BY CallFacts DEF MetaFails, Saving, IInv
<1>2. state[k] # meta[k]
  BY <1>1 DEF Sound, MetaFails
<1>3. state'[k] = None /\ meta' = meta /\ \A j \in Key \ {k} : state'[j] = state[j]
  BY <1>1 DEF MetaFails, IInv, TypeOK, File
<1> HIDE DEF k
<1>4. CASE meta[k] = None
  BY <1>1, <1>3, <1>4, SeenStep
<1>5. CASE meta[k] # None
  <2>1. Seen[k].meta = meta[k] /\ Seen[k].state = state[k]
    BY <1>1, <1>2, <1>3, <1>5, SeenStep
  <2>2. Seen' = [Seen EXCEPT ![k] = [state |-> None, meta |-> Seen[k].meta]]
    BY <1>1, <1>2, <1>3, <1>5, <2>1, SeenStep
  <2>3. Catalog!LoseState(k)
    BY <1>1, <1>2, <1>3, <1>5, <2>1, <2>2 DEF Catalog!LoseState, Catalog!Visible
  <2>4. QED
    BY <1>1, <2>3 DEF Catalog!Next
<1>6. QED
  BY <1>4, <1>5

\* A snapshot is removed with its metadata; the unlink of its state is not seen.
LEMMA UnlinkSeen ==
    ASSUME IInv, NEW t \in Thread, UnlinkMeta(t) \/ UnlinkState(t)
    PROVE  [Catalog!Next]_Seen
<1> DEFINE k == op[t].key
<1>1. k \in Key /\ Sound(t)
  BY CallFacts DEF UnlinkMeta, UnlinkState, Deleting, IInv
<1>2. meta'[k] = None /\ \A j \in Key \ {k} : meta'[j] = meta[j] /\ state'[j] = state[j]
  BY <1>1 DEF UnlinkMeta, UnlinkState, Sound, IInv, TypeOK, File
<1> HIDE DEF k
<1>3. CASE meta[k] = None
  BY <1>1, <1>2, <1>3, SeenStep
<1>4. CASE meta[k] # None
  <2>1. Catalog!Remove(k)
    BY <1>1, <1>2, <1>4, SeenStep DEF Catalog!Remove, Catalog!Visible
  <2>2. QED
    BY <1>1, <2>1 DEF Catalog!Next
<1>5. QED
  BY <1>3, <1>4

\* With exclusive access SnapshotStore implements SnapshotCatalog: a reader
\* never sees a new snapshot half saved, nor a removed one half removed.
THEOREM Refinement ==
    ASSUME Exclusive
    PROVE  Spec => ImplementsCatalog
<1>1. Init => Catalog!Init
  BY DEF Init, Catalog!Init, Catalog!Absent, Seen
<1>2. ASSUME IInv, [Next]_vars PROVE [Catalog!Next]_Seen
  <2>1. CASE \E t \in Thread : RenameState(t) \/ RenameMeta(t) \/ MetaFails(t)
                              \/ UnlinkMeta(t) \/ UnlinkState(t)
    BY <1>2, <2>1, RenameStateSeen, RenameMetaSeen, MetaFailsSeen, UnlinkSeen
  <2>2. CASE UNCHANGED <<state, meta>>
    BY <2>2 DEF Seen
  <2>3. ASSUME NEW t \in Thread, WriteState(t) \/ StateFails(t) \/ WriteMeta(t)
                                  \/ PruneOldSnapshots(t) \/ UnlinkFails(t)
        PROVE  UNCHANGED <<state, meta>>
    BY <2>3 DEF WriteState, StateFails, WriteMeta, PruneOldSnapshots, UnlinkFails
  <2>4. ASSUME \/ \E n \in Turn : DecodeSave(n) \/ FinishSave(n) \/ Demote(n)
               \/ \E k \in Key : HandleSave(k) \/ HandleDelete(k)
               \/ NextRequest \/ WarmSave \/ Archive \/ Crash \/ UNCHANGED vars
        PROVE  UNCHANGED <<state, meta>>
    BY <2>4 DEF DecodeSave, FinishSave, Demote, HandleSave, BeginSave, HandleDelete, NextRequest,
                WarmSave, Archive, Crash, vars
  <2>5. QED
    BY <1>2, <2>1, <2>2, <2>3, <2>4 DEF Next, Step
<1>3. QED
  BY <1>1, <1>2, Invariance, PTL DEF Spec, ImplementsCatalog, Catalog!Spec
=============================================================================
