------------------------ MODULE PendingRestoreProofs ------------------------
(***************************************************************************)
(* The pending-restore registry as a state machine, for every set of       *)
(* identifiers and every bound.                                            *)
(***************************************************************************)
EXTENDS PendingRestore, PendingRegistryProofs

(***************************************************************************)
(* The inductive invariant.  AliasesResolve alone is not inductive: that   *)
(* linking conv to rid strands no entry of conv rests on every entry being *)
(* the target of its conversation's alias.                                 *)
(***************************************************************************)
IInv == /\ TypeOK
        /\ AliasesResolve
        /\ Linked(pending, {})
        /\ HydratedStateIsOwn

\* The invariant, in terms of the registry as a value.
LEMMA IInvGood ==
    IInv <=> /\ reply \in Reply
             /\ Good(pending, {})
             /\ Cardinality(Keys(pending)) <= MaxEntries
             /\ HydratedStateIsOwn
    BY DEF IInv, TypeOK, AliasesResolve, Good

\* At the start nothing is staged.
LEMMA InitIInv == Init => IInv
  <1> SUFFICES ASSUME Init PROVE IInv
    OBVIOUS
  <1>1. Good(pending, {}) /\ Cardinality(Keys(pending)) <= MaxEntries
    BY EmptyGood DEF Init
  <1>2. reply \in Reply /\ HydratedStateIsOwn
    BY DEF Init, Reply, HydratedStateIsOwn
  <1> QED  BY <1>1, <1>2, IInvGood

\* Staging, clearing, a hit and a miss each keep the invariant.
LEMMA NextIInv == IInv /\ [Next]_vars => IInv'
  <1> SUFFICES ASSUME IInv, [Next]_vars PROVE IInv'
    OBVIOUS
  <1>0. Good(pending, {}) /\ Cardinality(Keys(pending)) <= MaxEntries
    BY IInvGood
  <1>1. ASSUME NEW rid \in Key, NEW conv \in Id, NEW snap \in Snap,
               StagePendingRestore(rid, conv, snap)
        PROVE  IInv'
    <2>1. pending' = Staged(pending, rid, conv, snap)
      BY <1>1 DEF StagePendingRestore
    <2>2. Good(pending', {}) /\ Cardinality(Keys(pending')) <= MaxEntries
      BY <1>0, <2>1, StagedGood
    <2>3. reply' \in Reply /\ HydratedStateIsOwn'
      BY <1>1 DEF StagePendingRestore, Reply, HydratedStateIsOwn
    <2> QED  BY <2>2, <2>3 DEF IInv, TypeOK, AliasesResolve, Good
  <1>2. ASSUME NEW rid \in Id, NEW conv \in Id, ClearPendingRestore(rid, conv)
        PROVE  IInv'
    <2>1. pending' = Drop(pending, ClearTarget(pending, rid, conv))
      BY <1>2 DEF ClearPendingRestore
    <2>2. Good(pending', {})
      BY <1>0, <2>1, DropGood
    <2>3. Keys(pending') \subseteq Keys(pending)
      BY <2>1, DropFields
    <2>4. Cardinality(Keys(pending')) <= MaxEntries
      <3>1. IsFiniteSet(Keys(pending)) /\ IsFiniteSet(Keys(pending'))
        BY <1>0, <2>2 DEF Good, WellTyped
      <3>2. /\ Cardinality(Keys(pending')) <= Cardinality(Keys(pending))
            /\ Cardinality(Keys(pending')) \in Nat /\ Cardinality(Keys(pending)) \in Nat
        BY <3>1, <2>3, FS_Subset, FS_CardinalityType
      <3> QED  BY <1>0, <3>2, MaxEntriesAssumption
    <2>5. reply' \in Reply /\ HydratedStateIsOwn'
      BY <1>2 DEF ClearPendingRestore, Reply, HydratedStateIsOwn
    <2> QED  BY <2>2, <2>4, <2>5 DEF IInv, TypeOK, AliasesResolve, Good
  <1>3. ASSUME NEW rid \in Id, NEW conv \in Key, HydrateHit(rid, conv)
        PROVE  IInv'
    <2>1. PICK k \in Lookup(pending, rid, conv) :
             /\ pending' = MoveToEnd(pending, k)
             /\ reply' = [op |-> "hydrated", rid |-> rid,
                          conv |-> HydratedConversation(pending, rid, conv, k), hit |-> k]
      BY <1>3 DEF HydrateHit
    <2>2. /\ k \in Keys(pending) /\ k \in Id
          /\ HydratedConversation(pending, rid, conv, k) \in Id
          /\ pending.entry[k].conv = HydratedConversation(pending, rid, conv, k)
      BY <1>0, LookupHit
    <2>3. Good(pending', {})
      BY <1>0, <2>1, <2>2, MoveToEndGood
    <2>4. Keys(pending') = Keys(pending) /\ pending'.entry = pending.entry
      BY <2>1 DEF MoveToEnd, Keys
    <2>5. reply' \in Reply /\ HydratedStateIsOwn'
      BY <2>1, <2>2, <2>4 DEF Reply, HydratedStateIsOwn
    <2> QED  BY <1>0, <2>3, <2>4, <2>5 DEF IInv, TypeOK, AliasesResolve, Good
  <1>4. ASSUME NEW rid \in Id, NEW conv \in Key, HydrateMiss(rid, conv)
        PROVE  IInv'
    <2>1. reply' \in Reply /\ HydratedStateIsOwn'
      BY <1>4 DEF HydrateMiss, Reply, HydratedStateIsOwn
    <2>2. pending' = pending
      BY <1>4 DEF HydrateMiss
    <2> QED  BY <1>0, <2>1, <2>2 DEF IInv, TypeOK, AliasesResolve, Good
  <1>5. CASE UNCHANGED vars
    BY <1>5 DEF vars, IInv, TypeOK, AliasesResolve, HydratedStateIsOwn
  <1> QED  BY <1>1, <1>2, <1>3, <1>4, <1>5 DEF Next

\* The invariant holds after every sequence of stagings, live restores and
\* requests.
THEOREM Invariance == Spec => []IInv
  BY InitIInv, NextIInv, PTL DEF Spec

\* The registry is always an ordered dict within its bound.
THEOREM TypeCorrect == Spec => []TypeOK
  <1>1. IInv => TypeOK
    BY DEF IInv
  <1> QED  BY <1>1, Invariance, PTL

\* No alias outlives its entry or leads to another conversation's state.
THEOREM AliasesAlwaysResolve == Spec => []AliasesResolve
  <1>1. IInv => AliasesResolve
    BY DEF IInv
  <1> QED  BY <1>1, Invariance, PTL

\* A hydrated request carries the conversation id its state belongs to.
THEOREM HydrationIsOwn == Spec => []HydratedStateIsOwn
  <1>1. IInv => HydratedStateIsOwn
    BY DEF IInv
  <1> QED  BY <1>1, Invariance, PTL

\* An entry staged under a rid can always be reached from its conversation.
THEOREM EntriesReachable == Spec => []EntryStaysReachable
  <1>1. IInv => EntryStaysReachable
    <2> SUFFICES ASSUME IInv, NEW k \in Keys(pending) \ {NoId}, pending.entry[k].conv # k,
                        NEW rid \in Id \ (Keys(pending) \cup {pending.entry[k].conv})
                 PROVE  Lookup(pending, rid, pending.entry[k].conv) = {k}
      BY DEF EntryStaysReachable
    <2>1. pending.entry[k].conv \in DOMAIN pending.alias
          /\ pending.alias[pending.entry[k].conv] = k
      BY DEF IInv, Linked
    <2>2. pending.entry[k].conv # NoId
      BY <2>1, NoIdAssumption DEF IInv, TypeOK, WellTyped
    <2> QED  BY <2>1, <2>2 DEF Lookup, Target
  <1> QED  BY <1>1, Invariance, PTL

\* Two rids never hold state of the same conversation.
THEOREM ConversationsDistinct == Spec => []OneEntryPerConversation
  <1>1. IInv => OneEntryPerConversation
    BY DEF IInv, Linked, AliasesResolve, AliasesLead, OneEntryPerConversation
  <1> QED  BY <1>1, Invariance, PTL

\* A key the registry gives up for capacity was the oldest of a full registry.
LEMMA StagedKeeps ==
    ASSUME NEW p, NEW rid \in Key, NEW conv \in Id, NEW snap \in Snap, Good(p, {}),
           Cardinality(Keys(p)) <= MaxEntries,
           NEW k \in Keys(p), {k, p.entry[k].conv} \cap {rid, conv} = {}
    PROVE  LET q == Staged(p, rid, conv, snap)
           IN  \/ k \in Keys(q) /\ q.entry[k] = p.entry[k]
               \/ k \in Oldest(p) /\ Cardinality(Keys(p)) = MaxEntries
  <1>1. PICK q : /\ Staged(p, rid, conv, snap) = EvictOldest(q)
                 /\ Good(q, {})
                 /\ Cardinality(Keys(q)) <= MaxEntries + 1
                 /\ rid \in Keys(q) /\ Keys(q) \subseteq Keys(p) \cup {rid}
                 /\ q.entry[rid] = [conv |-> conv, snap |-> snap]
                 /\ \A j \in Keys(q) \ {rid} : q.entry[j] = p.entry[j]
                 /\ q.older \subseteq p.older \cup (Key \X {rid})
                 /\ \A j \in Keys(p) :
                       {j, p.entry[j].conv} \cap {rid, conv} = {} => j \in Keys(q)
    BY StagedBeforeEviction
  <1>2. k \in Keys(q) /\ k # rid /\ q.entry[k] = p.entry[k]
    BY <1>1
  <1>3. CASE ~(Cardinality(Keys(q)) > MaxEntries)
    BY <1>1, <1>2, <1>3 DEF EvictOldest
  <1>4. CASE Cardinality(Keys(q)) > MaxEntries /\ k \notin Oldest(q)
    <2>1. EvictOldest(q) = Drop(q, Oldest(q))
      BY <1>4 DEF EvictOldest
    <2>2. k \in Keys(EvictOldest(q)) /\ EvictOldest(q).entry[k] = q.entry[k]
      BY <1>2, <1>4, <2>1, DropFields
    <2> QED  BY <1>1, <1>2, <2>2
  <1>5. CASE Cardinality(Keys(q)) > MaxEntries /\ k \in Oldest(q)
    <2>1. IsFiniteSet(Keys(p)) /\ IsFiniteSet(Keys(q)) /\ IsFiniteSet(Keys(q) \ {rid})
      BY <1>1, FS_Subset DEF Good, WellTyped
    <2>2. /\ Cardinality(Keys(p)) \in Nat /\ Cardinality(Keys(q)) \in Nat
          /\ Cardinality(Keys(q) \ {rid}) = Cardinality(Keys(q)) - 1
      BY <1>1, <2>1, FS_CardinalityType, FS_RemoveElement
    <2>3. Keys(q) \ {rid} \subseteq Keys(p)
      BY <1>1
    <2>4. Cardinality(Keys(q) \ {rid}) <= Cardinality(Keys(p))
      BY <2>1, <2>3, FS_Subset
    <2>5. /\ Cardinality(Keys(p)) = MaxEntries
          /\ Cardinality(Keys(q) \ {rid}) = Cardinality(Keys(p))
      BY <1>1, <1>5, <2>2, <2>4, MaxEntriesAssumption
    <2>6. Keys(q) \ {rid} = Keys(p)
      BY <2>1, <2>3, <2>5, FS_Subset
    <2>7. \A j \in Keys(p) \ {k} : <<k, j>> \in p.older
      BY <1>1, <1>5, <2>6 DEF Oldest
    <2> QED  BY <2>5, <2>7 DEF Oldest
  <1> QED  BY <1>3, <1>4, <1>5

\* Staging takes away only related entries, or the oldest of a full registry.
THEOREM StagingIsSelective == Spec => StageEvictsOnlyRelated
  <1> DEFINE Step == reply'.op = "staged" =>
                        \A k \in Keys(pending) :
                            \/ k \in Keys(pending') /\ pending'.entry[k] = pending.entry[k]
                            \/ Related(k, reply'.rid, reply'.conv)
                            \/ k \in Oldest(pending) /\ Cardinality(Keys(pending)) = MaxEntries
  <1>1. IInv /\ [Next]_vars => [Step]_vars
    <2> SUFFICES ASSUME IInv, Next, reply'.op = "staged", NEW k \in Keys(pending)
                 PROVE  \/ k \in Keys(pending') /\ pending'.entry[k] = pending.entry[k]
                        \/ Related(k, reply'.rid, reply'.conv)
                        \/ k \in Oldest(pending) /\ Cardinality(Keys(pending)) = MaxEntries
      OBVIOUS
    <2>1. PICK rid \in Key, conv \in Id, snap \in Snap : StagePendingRestore(rid, conv, snap)
      BY DEF Next, ClearPendingRestore, HydrateHit, HydrateMiss
    <2>2. pending' = Staged(pending, rid, conv, snap) /\ reply'.rid = rid /\ reply'.conv = conv
      BY <2>1 DEF StagePendingRestore
    <2>3. Good(pending, {}) /\ Cardinality(Keys(pending)) <= MaxEntries
      BY IInvGood
    <2>4. CASE Related(k, rid, conv)
      BY <2>2, <2>4
    <2>5. CASE ~Related(k, rid, conv)
      BY <2>2, <2>3, <2>5, StagedKeeps DEF Related
    <2> QED  BY <2>4, <2>5
  <1> QED  BY <1>1, Invariance, PTL DEF Spec, StageEvictsOnlyRelated
\* The entry a request has just been hydrated from is the newest of the registry.
HitIsNewest ==
    reply.op = "hydrated" => \A j \in Keys(pending) \ {reply.hit} : <<j, reply.hit>> \in pending.older

\* After a hydration the entry it used is the newest (move_to_end).
LEMMA HitIsNewestInvariant == Spec => []HitIsNewest
  <1>1. Init => HitIsNewest
    BY DEF Init, HitIsNewest
  <1>2. HitIsNewest /\ [Next]_vars => HitIsNewest'
    <2> SUFFICES ASSUME HitIsNewest, [Next]_vars, reply'.op = "hydrated"
                 PROVE  \A j \in Keys(pending') \ {reply'.hit} : <<j, reply'.hit>> \in pending'.older
      BY DEF HitIsNewest
    <2>1. CASE UNCHANGED vars
      BY <2>1 DEF vars, HitIsNewest
    <2>2. CASE \E rid \in Id, conv \in Key : HydrateHit(rid, conv)
      BY <2>2 DEF HydrateHit, MoveToEnd, Keys
    <2>3. ASSUME NEW rid \in Key, NEW conv \in Id, NEW snap \in Snap,
                 StagePendingRestore(rid, conv, snap)
          PROVE  FALSE
      BY <2>3 DEF StagePendingRestore
    <2>4. ASSUME NEW rid \in Id, NEW conv \in Id, ClearPendingRestore(rid, conv)
          PROVE  FALSE
      BY <2>4 DEF ClearPendingRestore
    <2>5. ASSUME NEW rid \in Id, NEW conv \in Key, HydrateMiss(rid, conv)
          PROVE  FALSE
      BY <2>5 DEF HydrateMiss
    <2> QED  BY <2>1, <2>2, <2>3, <2>4, <2>5 DEF Next
  <1> QED  BY <1>1, <1>2, PTL DEF Spec

\* A hydration protects its entry from the capacity eviction that follows.
THEOREM HydrationRenews == Spec => HydratedSurvivesNextStaging
  <1> DEFINE Step == reply.op = "hydrated" /\ reply'.op = "staged" /\ MaxEntries > 1 =>
                        reply.hit \in Keys(pending') \/ Related(reply.hit, reply'.rid, reply'.conv)
  <1>1. IInv /\ HitIsNewest /\ [Next]_vars => [Step]_vars
    <2> SUFFICES ASSUME IInv, HitIsNewest, Next, reply.op = "hydrated", reply'.op = "staged",
                        MaxEntries > 1, ~Related(reply.hit, reply'.rid, reply'.conv)
                 PROVE  reply.hit \in Keys(pending')
      OBVIOUS
    <2>1. PICK rid \in Key, conv \in Id, snap \in Snap : StagePendingRestore(rid, conv, snap)
      BY DEF Next, ClearPendingRestore, HydrateHit, HydrateMiss
    <2>2. pending' = Staged(pending, rid, conv, snap) /\ reply'.rid = rid /\ reply'.conv = conv
      BY <2>1 DEF StagePendingRestore
    <2>3. /\ Good(pending, {}) /\ Cardinality(Keys(pending)) <= MaxEntries
          /\ reply.hit \in Keys(pending)
      BY IInvGood DEF HydratedStateIsOwn
    <2>4. \/ reply.hit \in Keys(pending')
          \/ reply.hit \in Oldest(pending) /\ Cardinality(Keys(pending)) = MaxEntries
      BY <2>2, <2>3, StagedKeeps DEF Related
    <2>5. ASSUME reply.hit \in Oldest(pending) PROVE Keys(pending) = {reply.hit}
      <3>1. \A j \in Keys(pending) \ {reply.hit} :
               <<reply.hit, j>> \in pending.older /\ <<j, reply.hit>> \in pending.older
        BY <2>5 DEF Oldest, HitIsNewest
      <3>2. \A j \in Keys(pending) :
               <<reply.hit, j>> \in pending.older => <<j, reply.hit>> \notin pending.older
        BY <2>3 DEF Good, WellTyped, Ordered
      <3> QED  BY <2>3, <3>1, <3>2
    <2>6. Cardinality({reply.hit}) = 1
      BY FS_Singleton
    <2> QED  BY <2>4, <2>5, <2>6, MaxEntriesAssumption
  <1> QED  BY <1>1, Invariance, HitIsNewestInvariant, PTL DEF Spec, HydratedSurvivesNextStaging
=============================================================================
