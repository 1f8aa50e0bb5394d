-------------------------- MODULE TierManagerProofs --------------------------
(***************************************************************************)
(* The memory tiers, for any number of conversations and turns, any pool   *)
(* size and any timeouts.                                                  *)
(***************************************************************************)
EXTENDS TierManager, FiniteSetTheorems, TLAPS

\* States are numbered in the order in which they are saved: no copy is of a
\* state that has not been saved yet.
Known ==
    /\ \A c \in Conv : entry[c].state <= saves
    /\ \A c \in Conv, t \in Turn : disk[c][t] <= saves

IInv == TypeOK /\ IsFiniteSet(pool) /\ PooledIsWarm /\ Known

-----------------------------------------------------------------------------
(***************************************************************************)
(* The order of the pool                                                   *)
(***************************************************************************)
\* Moving some of the pool's conversations, or a new one, to its end while
\* others are removed leaves an order.
LEMMA MoveOrdered ==
    ASSUME NEW p, NEW cs \in SUBSET p, NEW o, Ordered(older, pool), Ordered(o, cs),
           p \ cs \subseteq pool
    PROVE  Ordered(MoveToEnd(p, cs, o), p)
  <1> DEFINE q == MoveToEnd(p, cs, o)
  <1>1. \A e : e \in q <=> \/ e \in older /\ e[1] \notin cs /\ e[2] \notin cs
                              /\ e[1] \notin pool \ p /\ e[2] \notin pool \ p
                           \/ e \in (p \ cs) \X cs
                           \/ e \in o
    BY DEF MoveToEnd, RemoveState
  <1> HIDE DEF q
  <1>2. q \subseteq p \X p
    BY <1>1 DEF Ordered
  <1>3. \A c, d \in p : <<c, d>> \in q => <<d, c>> \notin q
    BY <1>1 DEF Ordered
  <1>4. ASSUME NEW S \in SUBSET p, S # {}
        PROVE  \E c \in S : \A d \in S \ {c} : <<c, d>> \in q
    <2>1. CASE S \subseteq cs
      <3>1. PICK c \in S : \A d \in S \ {c} : <<c, d>> \in o
        BY <1>4, <2>1 DEF Ordered
      <3> QED  BY <1>1, <3>1
    <2>2. CASE ~(S \subseteq cs)
      <3>1. S \ cs \in SUBSET pool /\ S \ cs # {}
        BY <2>2
      <3>2. PICK c \in S \ cs : \A d \in (S \ cs) \ {c} : <<c, d>> \in older
        BY Zenon, <3>1 DEF Ordered
      <3>3. ASSUME NEW d \in S \ {c}
            PROVE  <<c, d>> \in q
        BY <1>1, <3>2
      <3> QED  BY <3>3
    <2> QED  BY <2>1, <2>2
  <1> QED  BY <1>2, <1>3, <1>4 DEF Ordered, q

\* The order of no conversation, and of a single one.
LEMMA SmallOrders == Ordered({}, {}) /\ \A c : Ordered({}, {c})
  <1>1. Ordered({}, {})
    BY DEF Ordered
  <1>2. ASSUME NEW c PROVE Ordered({}, {c})
    <2>1. ASSUME NEW S \in SUBSET {c}, S # {}
          PROVE  \E x \in S : \A d \in S \ {x} : <<x, d>> \in {}
      BY <2>1
    <2> QED  BY <2>1 DEF Ordered
  <1> QED  BY <1>1, <1>2

\* A pool that can hold an entry has room for it once the oldest is evicted,
\* because among the entries of a full pool one is the oldest.
LEMMA RoomIsMade ==
    ASSUME IInv, Capacity > 0, NEW c \in Conv
    PROVE  /\ IsFiniteSet(SaveState(c)) /\ Cardinality(SaveState(c)) <= Capacity
           /\ c \in SaveState(c) /\ SaveState(c) \subseteq pool \cup {c}
           /\ \A d \in pool : d \notin SaveState(c) => Cardinality(pool) = Capacity
  <1>1. /\ IsFiniteSet(pool) /\ Cardinality(pool) \in Nat /\ Cardinality(pool) <= Capacity
        /\ Ordered(older, pool) /\ Capacity \in Nat
    BY FS_CardinalityType, CapacityAssumption DEF IInv, TypeOK
  <1> DEFINE p == pool \ Evicted
  <1>2. /\ IsFiniteSet(p) /\ Cardinality(p) \in Nat /\ Cardinality(p) < Capacity
        /\ \A d \in pool : d \notin p => Cardinality(pool) = Capacity
    <2>1. CASE Cardinality(pool) < Capacity
      <3>1. p = pool
        BY <2>1 DEF Evicted
      <3> QED  BY <1>1, <2>1, <3>1
    <2>2. CASE ~(Cardinality(pool) < Capacity)
      <3>1. Cardinality(pool) = Capacity /\ Evicted = Oldest
        BY <1>1, <2>2 DEF Evicted
      <3>2. pool # {}
        BY <1>1, <3>1, FS_EmptySet
      <3>3. PICK d \in pool : d \in Oldest
        BY <1>1, <3>2 DEF Ordered, Oldest
      <3>4. /\ IsFiniteSet(pool \ {d}) /\ Cardinality(pool \ {d}) = Cardinality(pool) - 1
        BY <1>1, FS_RemoveElement
      <3>5. p \subseteq pool \ {d}
        BY <3>1, <3>3
      <3>6. IsFiniteSet(p) /\ Cardinality(p) <= Cardinality(pool \ {d})
        BY <3>4, <3>5, FS_Subset
      <3>7. Cardinality(p) \in Nat
        BY <3>6, FS_CardinalityType
      <3> QED  BY <1>1, <3>1, <3>4, <3>6, <3>7
    <2> QED  BY <2>1, <2>2
  <1>3. SaveState(c) = p \cup {c}
    BY DEF SaveState
  <1>4. p \subseteq pool
    OBVIOUS
  <1> HIDE DEF p
  <1>5. /\ IsFiniteSet(p \cup {c})
        /\ Cardinality(p \cup {c}) = IF c \in p THEN Cardinality(p) ELSE Cardinality(p) + 1
    BY <1>2, FS_AddElement
  <1>6. Cardinality(p \cup {c}) <= Capacity
    BY <1>1, <1>2, <1>5
  <1> QED  BY <1>2, <1>3, <1>4, <1>5, <1>6

\* A conversation of the pool that is used moves to its end.
LEMMA Touched ==
    ASSUME IInv, NEW c \in pool
    PROVE  Ordered(MoveToEnd(pool, {c}, {}), pool)
  <1>1. Ordered(older, pool) /\ {c} \in SUBSET pool /\ pool \ {c} \subseteq pool
    BY DEF IInv, TypeOK
  <1> QED  BY <1>1, SmallOrders, MoveOrdered

-----------------------------------------------------------------------------
(***************************************************************************)
(* The steps                                                               *)
(***************************************************************************)
\* save_to_warm_tier: the state is in the pool, its conversation is WARM, and
\* others leave the pool only when it is full.
LEMMA SaveStep ==
    ASSUME IInv, Capacity > 0, NEW c \in Conv, NEW t \in Turn, NEW s \in State,
           NEW since \in Age, SaveToWarmTier(c, t, s, since)
    PROVE  /\ pool' \subseteq Conv /\ Cardinality(pool') <= Capacity /\ IsFiniteSet(pool')
           /\ Ordered(older', pool')
           /\ entry' \in [Conv -> [turn : Turn, state : State] \cup {NoEntry}]
           /\ \A d \in Conv : d \in pool' <=> entry'[d] # NoEntry
           /\ c \in pool' /\ entry'[c] = [turn |-> t, state |-> s]
           /\ \A d \in pool' \ {c} : d \in pool /\ entry'[d] = entry[d]
           /\ \A d \in pool : d \notin pool' => Cardinality(pool) = Capacity
           /\ tier' \in [Conv -> {"none", "WARM", "COLD", "ARCHIVED"}]
           /\ \A d \in pool' : tier'[d] = "WARM"
           /\ idle' \in [Conv -> Age]
  <1>1. /\ pool' = SaveState(c) /\ older' = MoveToEnd(pool', {c}, {})
        /\ entry' = Kept([entry EXCEPT ![c] = [turn |-> t, state |-> s]], pool')
        /\ tier' = WarmTier(c) /\ idle' = WarmIdle(c, since)
    BY DEF SaveToWarmTier
  <1>2. /\ IsFiniteSet(pool') /\ Cardinality(pool') <= Capacity /\ c \in pool'
        /\ pool' \subseteq pool \cup {c}
        /\ \A d \in pool : d \notin pool' => Cardinality(pool) = Capacity
    BY <1>1, RoomIsMade
  <1>3. /\ pool \subseteq Conv /\ Ordered(older, pool)
        /\ entry \in [Conv -> [turn : Turn, state : State] \cup {NoEntry}]
        /\ \A d \in Conv : d \in pool <=> entry[d] # NoEntry
    BY DEF IInv, TypeOK, InPool
  <1>4. pool' \subseteq Conv
    BY <1>2, <1>3
  <1>5. Ordered(older', pool')
    <2>1. {c} \in SUBSET pool' /\ pool' \ {c} \subseteq pool /\ Ordered({}, {c})
      BY Zenon, <1>2, SmallOrders
    <2>2. Ordered(MoveToEnd(pool', {c}, {}), pool')
      BY <1>3, <2>1, MoveOrdered
    <2> QED  BY <1>1, <2>2
  <1>6. [turn |-> t, state |-> s] \in [turn : Turn, state : State]
    OBVIOUS
  <1>7. [turn |-> t, state |-> s] # NoEntry
    BY TurnAssumption DEF NoEntry
  <1>8. \A d \in Conv : entry'[d] = IF d \in pool'
                                    THEN IF d = c THEN [turn |-> t, state |-> s] ELSE entry[d]
                                    ELSE NoEntry
    BY <1>1, <1>3 DEF Kept
  <1>9. entry' \in [Conv -> [turn : Turn, state : State] \cup {NoEntry}]
    BY <1>1, <1>3, <1>6 DEF Kept
  <1>10. /\ c \in pool' /\ entry'[c] = [turn |-> t, state |-> s]
         /\ \A d \in pool' \ {c} : d \in pool /\ entry'[d] = entry[d]
    BY <1>2, <1>4, <1>8
  <1>11. \A d \in Conv : d \in pool' <=> entry'[d] # NoEntry
    BY <1>3, <1>7, <1>8, <1>10
  <1>12. /\ tier' \in [Conv -> {"none", "WARM", "COLD", "ARCHIVED"}]
         /\ \A d \in pool' : tier'[d] = "WARM"
    BY <1>1, <1>2, <1>4 DEF WarmTier, IInv, TypeOK, PooledIsWarm, InPool
  <1>13. idle' \in [Conv -> Age]
    <2>1. 0 \in Age
      BY TimeoutAssumption DEF Age, Forever
    <2> QED  BY <1>1, <2>1 DEF WarmIdle, IInv, TypeOK
  <1> QED  BY <1>2, <1>4, <1>5, <1>9, <1>10, <1>11, <1>12, <1>13

\* What a step may never do, for one conversation.
Leaves(c) ==
    InPool(c) /\ ~InPool(c)' /\ ~Restart =>
        \/ disk'[c][entry[c].turn] = entry[c].state
        \/ Cardinality(pool) = Capacity /\ \E d \in Conv : InPool(d)' /\ entry'[d] # entry[d]

Regresses(c) == InPool(c) /\ InPool(c)' /\ ~Restart => entry'[c].state >= entry[c].state

\* What every step keeps and does.
Good == IInv' /\ \A c \in Conv : Leaves(c) /\ Regresses(c)

\* The parts of the disk stay states of the past.
LEMMA PruneType ==
    ASSUME NEW d \in [Turn -> State \cup {None}]
    PROVE  /\ Prune(d) \in [Turn -> State \cup {None}]
           /\ \A t \in Turn : Prune(d)[t] \in {d[t], None}
    BY DEF Prune

\* A save after a forward step.
LEMMA HookStep ==
    ASSUME IInv, NEW c \in Conv, NEW t \in Turn, HookSave(c, t)
    PROVE  Good
  <1>1. /\ saves' = saves + 1 /\ saves + 1 \in State /\ saves \in Nat /\ saves' \in 0..MaxSaves
    BY MaxSavesAssumption DEF HookSave, IInv, TypeOK, State
  <1>2. /\ disk \in [Conv -> [Turn -> State \cup {None}]] /\ disk[c] \in [Turn -> State \cup {None}]
        /\ \A d \in Conv, u \in Turn : disk[d][u] <= saves
    BY DEF IInv, TypeOK, Known
  <1>3. CASE Capacity > 0
    <2>1. SaveToWarmTier(c, t, saves + 1, idle[c]) /\ disk' = [disk EXCEPT ![c] = Prune(disk[c])]
      BY <1>3 DEF HookSave
    <2>2. idle[c] \in Age
      BY DEF IInv, TypeOK
    <2>3. /\ pool' \subseteq Conv /\ Cardinality(pool') <= Capacity /\ IsFiniteSet(pool')
          /\ Ordered(older', pool')
          /\ entry' \in [Conv -> [turn : Turn, state : State] \cup {NoEntry}]
          /\ \A d \in Conv : d \in pool' <=> entry'[d] # NoEntry
          /\ c \in pool' /\ entry'[c] = [turn |-> t, state |-> saves + 1]
          /\ \A d \in pool' \ {c} : d \in pool /\ entry'[d] = entry[d]
          /\ \A d \in pool : d \notin pool' => Cardinality(pool) = Capacity
          /\ tier' \in [Conv -> {"none", "WARM", "COLD", "ARCHIVED"}]
          /\ \A d \in pool' : tier'[d] = "WARM"
          /\ idle' \in [Conv -> Age]
      BY <1>1, <1>3, <2>1, <2>2, SaveStep
    <2>4. /\ disk' \in [Conv -> [Turn -> State \cup {None}]]
          /\ \A d \in Conv, u \in Turn : disk'[d][u] \in {disk[d][u], None}
      BY <1>2, <2>1, PruneType
    <2>5. \A d \in Conv : entry[d].state <= saves /\ entry[d].state \in Nat
      BY DEF IInv, Known, TypeOK, State, None, NoEntry
    <2>6. ASSUME NEW d \in Conv PROVE entry'[d].state <= saves'
      <3>1. CASE d = c
        BY <1>1, <2>3, <3>1
      <3>2. CASE d \in pool' \ {c}
        BY <1>1, <2>3, <2>5, <3>2
      <3>3. CASE d \notin pool'
        BY <1>1, <2>3, <3>3 DEF NoEntry, None
      <3> QED  BY <3>1, <3>2, <3>3
    <2>7. \A d \in Conv, u \in Turn : disk'[d][u] <= saves'
      BY <1>1, <1>2, <2>4 DEF None, State
    <2>8. IInv'
      BY <1>1, <2>3, <2>4, <2>6, <2>7 DEF IInv, TypeOK, PooledIsWarm, Known, InPool
    <2>9. entry'[c] # entry[c]
      BY <1>1, <2>3, <2>5
    <2>10. \A d \in Conv : Leaves(d)
      BY <2>3, <2>9 DEF Leaves, InPool
    <2>11. ASSUME NEW d \in Conv PROVE Regresses(d)
      <3>1. CASE d = c
        BY <1>1, <2>3, <2>5, <3>1 DEF Regresses, IInv, TypeOK, State, None, InPool, NoEntry
      <3>2. CASE d # c
        BY <2>3, <3>2 DEF Regresses, IInv, TypeOK, State, None, InPool, NoEntry
      <3> QED  BY <3>1, <3>2
    <2> QED  BY <2>8, <2>10, <2>11 DEF Good
  <1>4. CASE ~(Capacity > 0)
    <2>1. /\ disk' = [disk EXCEPT ![c] = Prune([disk[c] EXCEPT ![t] = saves + 1])]
          /\ pool' = pool /\ older' = older /\ entry' = entry /\ tier' = tier /\ idle' = idle
      BY <1>4 DEF HookSave
    <2>2. [disk[c] EXCEPT ![t] = saves + 1] \in [Turn -> State \cup {None}]
      BY <1>1, <1>2
    <2>3. /\ disk' \in [Conv -> [Turn -> State \cup {None}]]
          /\ \A d \in Conv, u \in Turn : disk'[d][u] \in {disk[d][u], None, saves + 1}
      BY Zenon, <1>2, <2>1, <2>2, PruneType
    <2>4. \A d \in Conv, u \in Turn : disk'[d][u] <= saves'
      BY <1>1, <1>2, <2>3 DEF None, State
    <2>5. \A d \in Conv : entry[d].state <= saves'
      BY <1>1 DEF IInv, Known, TypeOK, State, None, NoEntry
    <2>6. IInv'
      BY Zenon, <1>1, <2>1, <2>3, <2>4, <2>5 DEF IInv, TypeOK, PooledIsWarm, Known, InPool
    <2>7. \A d \in Conv : Leaves(d)
      BY <2>1 DEF Leaves, InPool
    <2>8. \A d \in Conv : Regresses(d)
      BY <2>1 DEF Regresses, InPool, IInv, TypeOK, State, None, NoEntry
    <2> QED  BY <2>6, <2>7, <2>8 DEF Good
  <1> QED  BY <1>3, <1>4

\* A step that leaves the pool's states alone: it is enough that what it writes
\* to disk has been saved before.
LEMMA PoolKept ==
    ASSUME IInv, pool' = pool, entry' = entry, tier' = tier, Ordered(older', pool),
           disk' \in [Conv -> [Turn -> State \cup {None}]], idle' \in [Conv -> Age],
           saves' \in 0..MaxSaves, saves <= saves',
           \A c \in Conv, t \in Turn : disk'[c][t] <= saves'
    PROVE  Good
  <1>1. \A c \in Conv : entry[c].state <= saves /\ entry[c].state \in Nat
    BY DEF IInv, Known, TypeOK, State, None, NoEntry
  <1>2. saves \in Nat /\ saves' \in Nat
    BY DEF IInv, TypeOK
  <1>3. \A c \in Conv : entry[c].state <= saves'
    BY <1>1, <1>2
  <1>4. IInv'
    BY <1>3 DEF IInv, TypeOK, PooledIsWarm, Known, InPool
  <1>5. \A c \in Conv : Leaves(c) /\ Regresses(c)
    BY <1>1 DEF Leaves, Regresses, InPool
  <1> QED  BY <1>4, <1>5 DEF Good

\* A restore from host RAM, the saves on request, a delete and the clock.
LEMMA QuietSteps ==
    ASSUME IInv,
           \/ \E c \in Conv, t \in Turn : SaveLive(c, t) \/ HandleDeleteSnapshot(c, t)
           \/ \E c \in Conv : RestoreFromWarmTier(c)
           \/ \E c \in Conv, turn \in Turn \cup {NoTurn} : SavePooled(c, turn)
           \/ Tick
    PROVE  Good
  <1>1. /\ disk \in [Conv -> [Turn -> State \cup {None}]] /\ idle \in [Conv -> Age]
        /\ saves \in 0..MaxSaves /\ saves \in Nat /\ saves <= saves
        /\ Ordered(older, pool) /\ pool \subseteq Conv
        /\ \A c \in Conv, t \in Turn : disk[c][t] <= saves
    BY DEF IInv, TypeOK, Known
  <1>2. 0 \in Age
    BY TimeoutAssumption DEF Age, Forever
  <1>3. ASSUME NEW c \in Conv, NEW t \in Turn, SaveLive(c, t)
        PROVE  Good
    <2>1. /\ saves' = saves + 1 /\ saves < MaxSaves /\ disk' = [disk EXCEPT ![c][t] = saves + 1]
          /\ pool' = pool /\ older' = older /\ entry' = entry /\ tier' = tier /\ idle' = idle
      BY <1>3 DEF SaveLive
    <2>2. saves' \in 0..MaxSaves /\ saves <= saves' /\ saves + 1 \in State
      BY <1>1, <2>1, MaxSavesAssumption DEF State
    <2>3. disk' \in [Conv -> [Turn -> State \cup {None}]]
      BY <1>1, <2>1, <2>2
    <2>4. \A d \in Conv, u \in Turn : disk'[d][u] \in {disk[d][u], saves + 1}
      BY <1>1, <2>1
    <2>5. \A d \in Conv, u \in Turn : disk'[d][u] <= saves'
      BY <1>1, <2>1, <2>4 DEF State, None
    <2> QED  BY <1>1, <2>1, <2>2, <2>3, <2>5, PoolKept
  <1>4. ASSUME NEW c \in Conv, NEW t \in Turn, HandleDeleteSnapshot(c, t)
        PROVE  Good
    <2>1. /\ saves' = saves /\ disk' = [disk EXCEPT ![c][t] = None]
          /\ pool' = pool /\ older' = older /\ entry' = entry /\ tier' = tier /\ idle' = idle
      BY <1>4 DEF HandleDeleteSnapshot
    <2>2. disk' \in [Conv -> [Turn -> State \cup {None}]]
      BY <1>1, <2>1
    <2>3. \A d \in Conv, u \in Turn : disk'[d][u] \in {disk[d][u], None}
      BY <1>1, <2>1
    <2>4. \A d \in Conv, u \in Turn : disk'[d][u] <= saves'
      BY <1>1, <2>1, <2>3 DEF None
    <2> QED  BY <1>1, <2>1, <2>2, <2>4, PoolKept
  <1>5. ASSUME NEW c \in Conv, RestoreFromWarmTier(c)
        PROVE  Good
    <2>1. /\ saves' = saves /\ disk' = disk /\ pool' = pool /\ entry' = entry /\ tier' = tier
          /\ older' = MoveToEnd(pool, {c}, {}) /\ idle' = [idle EXCEPT ![c] = 0]
          /\ LoadForPendingRestore(c, NoTurn) # None
      BY <1>5 DEF RestoreFromWarmTier, MarkAccessed
    <2>2. c \in pool
      BY <2>1, TurnAssumption DEF LoadForPendingRestore, LoadSnapshot, InPool, OnDisk
    <2>3. idle' \in [Conv -> Age]
      BY <1>1, <1>2, <2>1
    <2>4. Ordered(older', pool)
      BY <2>1, <2>2, Touched
    <2> QED  BY <1>1, <2>1, <2>3, <2>4, PoolKept
  <1>6. ASSUME NEW c \in Conv, NEW turn \in Turn \cup {NoTurn}, SavePooled(c, turn)
        PROVE  Good
    <2> DEFINE t == IF turn = NoTurn THEN entry[c].turn ELSE turn
    <2>1. /\ saves' = saves /\ disk' = [disk EXCEPT ![c][t] = entry[c].state]
          /\ pool' = pool /\ entry' = entry /\ tier' = tier
          /\ older' = MoveToEnd(pool, {c}, {}) /\ idle' = [idle EXCEPT ![c] = 0] /\ c \in pool
      BY <1>6 DEF SavePooled, MarkAccessed, InPool
    <2>2. entry[c] \in [turn : Turn, state : State] /\ entry[c].state <= saves
      BY <2>1 DEF IInv, TypeOK, InPool, Known
    <2>3. t \in Turn
      BY <2>2
    <2> HIDE DEF t
    <2>4. disk' \in [Conv -> [Turn -> State \cup {None}]]
      BY <1>1, <2>1, <2>2, <2>3
    <2>5. \A d \in Conv, u \in Turn : disk'[d][u] \in {disk[d][u], entry[c].state}
      BY <1>1, <2>1, <2>3
    <2>6. \A d \in Conv, u \in Turn : disk'[d][u] <= saves'
      BY <1>1, <2>1, <2>2, <2>5
    <2>7. idle' \in [Conv -> Age]
      BY <1>1, <1>2, <2>1
    <2>8. Ordered(older', pool)
      BY <2>1, Touched
    <2> QED  BY <1>1, <2>1, <2>4, <2>6, <2>7, <2>8, PoolKept
  <1>7. ASSUME Tick PROVE Good
    <2>1. /\ saves' = saves /\ disk' = disk /\ older' = older
          /\ pool' = pool /\ entry' = entry /\ tier' = tier
          /\ idle' = [c \in Conv |-> IF tier[c] # "none" /\ idle[c] < Forever
                                     THEN idle[c] + 1 ELSE idle[c]]
      BY <1>7 DEF Tick
    <2>2. Forever \in Nat
      BY TimeoutAssumption DEF Forever
    <2>3. idle' \in [Conv -> Age]
      BY <1>1, <2>1, <2>2 DEF Age
    <2> QED  BY <1>1, <2>1, <2>3, PoolKept
  <1> QED  BY <1>3, <1>4, <1>5, <1>6, <1>7

\* The latest turn of a conversation is one it has on disk.
LEMMA LatestOnDisk ==
    ASSUME NEW c \in Conv, OnDisk(c) # {}
    PROVE  Latest(c) \in OnDisk(c)
  <1>1. OnDisk(c) \in SUBSET Turn
    BY DEF OnDisk
  <1>2. \E t \in OnDisk(c) : \A u \in OnDisk(c) : u <= t
    BY Zenon, <1>1, TurnAssumption
  <1> QED  BY <1>2 DEF Latest

\* A miss: a snapshot is loaded and pooled.  Its conversation was not in the
\* pool, so that no newer state of it is replaced.
LEMMA PromoteStep ==
    ASSUME IInv, NEW c \in Conv, NEW turn \in Turn \cup {NoTurn}, PromoteFromDisk(c, turn)
    PROVE  Good
  <1>1. /\ c \notin pool /\ Capacity > 0 /\ OnDisk(c) # {} /\ disk' = disk /\ saves' = saves
    BY DEF PromoteFromDisk, PrefersPool, InPool
  <1>2. PICK t : /\ t = IF turn = NoTurn THEN Latest(c) ELSE turn
                 /\ LoadSnapshot(c, t) # None /\ SaveToWarmTier(c, t, LoadSnapshot(c, t), 0)
    BY DEF PromoteFromDisk
  <1>3. t \in OnDisk(c) /\ t \in Turn
    BY <1>2 DEF LoadSnapshot, OnDisk
  <1>4. PICK s : s = disk[c][t]
    OBVIOUS
  <1>5. /\ LoadSnapshot(c, t) = s /\ s \in State /\ s <= saves /\ 0 \in Age /\ saves \in Nat
    BY <1>3, <1>4, TimeoutAssumption
       DEF LoadSnapshot, OnDisk, IInv, TypeOK, Known, Age, Forever
  <1>6. /\ pool' \subseteq Conv /\ Cardinality(pool') <= Capacity /\ IsFiniteSet(pool')
        /\ Ordered(older', pool')
        /\ entry' \in [Conv -> [turn : Turn, state : State] \cup {NoEntry}]
        /\ \A d \in Conv : d \in pool' <=> entry'[d] # NoEntry
        /\ c \in pool' /\ entry'[c] = [turn |-> t, state |-> s]
        /\ \A d \in pool' \ {c} : d \in pool /\ entry'[d] = entry[d]
        /\ \A d \in pool : d \notin pool' => Cardinality(pool) = Capacity
        /\ tier' \in [Conv -> {"none", "WARM", "COLD", "ARCHIVED"}]
        /\ \A d \in pool' : tier'[d] = "WARM"
        /\ idle' \in [Conv -> Age]
    BY <1>1, <1>2, <1>3, <1>5, SaveStep
  <1>7. \A d \in Conv : entry[d].state <= saves /\ entry[d].state \in Nat
    BY DEF IInv, Known, TypeOK, State, None, NoEntry
  <1>8. ASSUME NEW d \in Conv PROVE entry'[d].state <= saves
    <2>1. CASE d = c
      BY <1>5, <1>6, <2>1
    <2>2. CASE d \in pool' \ {c}
      BY <1>6, <1>7, <2>2
    <2>3. CASE d \notin pool'
      BY <1>5, <1>6, <2>3 DEF NoEntry, None
    <2> QED  BY <2>1, <2>2, <2>3
  <1>9. IInv'
    BY <1>1, <1>6, <1>8 DEF IInv, TypeOK, PooledIsWarm, Known, InPool
  <1>10. entry'[c] # entry[c]
    BY <1>1, <1>6 DEF IInv, TypeOK, InPool
  <1>11. \A d \in Conv : Leaves(d)
    BY <1>6, <1>10 DEF Leaves, InPool
  <1>12. \A d \in Conv : Regresses(d)
    BY <1>1, <1>6, <1>7 DEF Regresses, InPool
  <1> QED  BY <1>9, <1>11, <1>12 DEF Good

\* What the invariant says of the pool.
LEMMA PoolFacts ==
    ASSUME IInv
    PROVE  /\ pool \subseteq Conv /\ IsFiniteSet(pool) /\ Cardinality(pool) <= Capacity
           /\ Ordered(older, pool)
           /\ \A c \in Conv : entry[c] \in [turn : Turn, state : State] \cup {NoEntry}
           /\ \A c \in Conv : c \in pool <=> entry[c] # NoEntry
           /\ \A c \in pool : c \in Conv /\ entry[c] # NoEntry /\ tier[c] = "WARM"
    BY DEF IInv, TypeOK, InPool, PooledIsWarm

\* States are numbered, and none is newer than the last one saved.
LEMMA StateFacts ==
    ASSUME IInv
    PROVE  /\ saves \in Nat
           /\ \A c \in Conv : disk[c] \in [Turn -> State \cup {None}]
           /\ \A c \in Conv, t \in Turn : disk[c][t] <= saves
           /\ \A c \in Conv : entry[c].state <= saves /\ entry[c].state \in Nat
  <1>1. /\ saves \in Nat /\ \A c \in Conv : disk[c] \in [Turn -> State \cup {None}]
    BY DEF IInv, TypeOK
  <1>2. /\ \A c \in Conv, t \in Turn : disk[c][t] <= saves
        /\ \A c \in Conv : entry[c].state <= saves
    BY DEF IInv, Known
  <1>3. \A c \in Conv : entry[c].state \in Nat
    BY DEF IInv, TypeOK, State, None, NoEntry
  <1> QED  BY <1>1, <1>2, <1>3

\* A cleanup cycle: what is demoted is on disk before it leaves the pool, and
\* nothing that is demoted or still in the pool is archived by this cycle.
LEMMA CleanupStep ==
    ASSUME IInv, NEW failed \in SUBSET Conv, RunCleanupCycle(failed)
    PROVE  Good
  <1> DEFINE due == {c \in Expired("WARM", WarmTimeout) : InPool(c)}
             cold == Demoted(due, failed)
             gone == Archivable(cold)
             saved == [c \in Conv |-> IF c \in due \ failed
                                      THEN [disk[c] EXCEPT ![entry[c].turn] = entry[c].state]
                                      ELSE disk[c]]
  <1>1. PICK cut \in Turn :
            /\ pool' = pool \ cold
            /\ \E o \in SUBSET ((due \ cold) \X (due \ cold)) :
                   Ordered(o, due \ cold) /\ older' = MoveToEnd(pool \ cold, due \ cold, o)
            /\ entry' = Kept(entry, pool \ cold)
            /\ disk' = [c \in Conv |-> [t \in Turn |->
                   IF c \in gone /\ (c \in failed => t < cut) THEN None ELSE saved[c][t]]]
            /\ tier' = [c \in Conv |-> IF c \in gone \ failed THEN "ARCHIVED"
                                       ELSE IF c \in cold THEN "COLD" ELSE tier[c]]
            /\ idle' = idle /\ saves' = saves
    BY Zenon DEF RunCleanupCycle
  <1>x. cold = due \ failed
    BY Zenon DEF Demoted
  <1>y. due \subseteq pool
    BY Zenon DEF InPool
  <1>z. \A c \in gone : c \in Conv /\ tier[c] = "COLD"
    BY DEF Archivable, Expired
  <1>2. /\ cold = due \ failed /\ due \subseteq pool
        /\ \A c \in gone : c \in Conv /\ tier[c] = "COLD"
    BY Zenon, <1>x, <1>y, <1>z
  <1>3. \A c \in Conv : saved[c] = IF c \in cold
                                   THEN [disk[c] EXCEPT ![entry[c].turn] = entry[c].state]
                                   ELSE disk[c]
    BY <1>2
  <1> HIDE DEF due, cold, gone, saved
  <1>4. /\ \A c \in Conv : entry[c] \in [turn : Turn, state : State] \cup {NoEntry}
        /\ \A c \in pool : c \in Conv /\ entry[c] # NoEntry /\ tier[c] = "WARM"
        /\ \A c \in Conv : c \in pool <=> entry[c] # NoEntry
    BY PoolFacts
  <1>5. gone \cap pool = {}
    BY <1>2, <1>4
  <1>6. ASSUME NEW c \in Conv
        PROVE  /\ saved[c] \in [Turn -> State \cup {None}]
               /\ \A t \in Turn : saved[c][t] \in {disk[c][t], entry[c].state}
               /\ c \in cold => saved[c][entry[c].turn] = entry[c].state
    <2>1. disk[c] \in [Turn -> State \cup {None}]
      BY StateFacts
    <2>2. CASE c \in cold
      <3>1. entry[c] \in [turn : Turn, state : State]
        BY <1>2, <1>4, <2>2
      <3>2. saved[c] = [disk[c] EXCEPT ![entry[c].turn] = entry[c].state]
        BY <1>3, <2>2
      <3> QED  BY <2>1, <3>1, <3>2
    <2>3. CASE c \notin cold
      <3>1. saved[c] = disk[c]
        BY Zenon, <1>3, <2>3
      <3> QED  BY <2>1, <2>3, <3>1
    <2> QED  BY <2>2, <2>3
  <1>7. pool' \subseteq pool /\ pool' = pool \ cold
    BY <1>1
  <1>a. pool' \subseteq Conv /\ IsFiniteSet(pool') /\ Cardinality(pool') <= Capacity
    <2>1. IsFiniteSet(pool) /\ Cardinality(pool) <= Capacity /\ pool \subseteq Conv
      BY PoolFacts
    <2>2. IsFiniteSet(pool') /\ Cardinality(pool') <= Cardinality(pool)
      BY <1>7, <2>1, FS_Subset
    <2>3. Cardinality(pool) \in Nat /\ Cardinality(pool') \in Nat
      BY <2>1, <2>2, FS_CardinalityType
    <2> QED  BY <1>7, <2>1, <2>2, <2>3, CapacityAssumption
  <1>8. Ordered(older', pool')
    <2>1. PICK o : Ordered(o, due \ cold) /\ older' = MoveToEnd(pool \ cold, due \ cold, o)
      BY <1>1
    <2>2. due \ cold \in SUBSET (pool \ cold) /\ (pool \ cold) \ (due \ cold) \subseteq pool
      BY <1>2
    <2>3. Ordered(MoveToEnd(pool \ cold, due \ cold, o), pool \ cold)
      BY <2>1, <2>2, PoolFacts, MoveOrdered
    <2> QED  BY <1>7, <2>1, <2>3
  <1>9. entry' = [c \in Conv |-> IF c \in pool' THEN entry[c] ELSE NoEntry]
    BY <1>1, <1>7 DEF Kept
  <1>b. entry' \in [Conv -> [turn : Turn, state : State] \cup {NoEntry}]
    BY <1>4, <1>9
  <1>10. \A c \in Conv : c \in pool' <=> entry'[c] # NoEntry
    BY <1>4, <1>7, <1>9
  <1>c. disk' = [c \in Conv |-> [t \in Turn |->
            IF c \in gone /\ (c \in failed => t < cut) THEN None ELSE saved[c][t]]]
    BY <1>1
  <1>11. /\ disk' \in [Conv -> [Turn -> State \cup {None}]]
         /\ \A c \in Conv, t \in Turn : disk'[c][t] \in {None, disk[c][t], entry[c].state}
    BY <1>6, <1>c
  <1>12. \A c \in Conv, t \in Turn : disk'[c][t] <= saves
    BY <1>11, StateFacts DEF None
  <1>13. \A c \in Conv : entry'[c].state <= saves
    BY <1>9, StateFacts DEF NoEntry, None
  <1>d. tier' = [c \in Conv |-> IF c \in gone \ failed THEN "ARCHIVED"
                                ELSE IF c \in cold THEN "COLD" ELSE tier[c]]
    BY <1>1
  <1>14. \A c \in pool' : tier'[c] = "WARM"
    BY <1>4, <1>5, <1>7, <1>d
  <1>e. tier' \in [Conv -> {"none", "WARM", "COLD", "ARCHIVED"}] /\ idle' \in [Conv -> Age]
    BY <1>1, <1>d DEF IInv, TypeOK
  <1>f. saves' = saves /\ saves \in 0..MaxSaves
    BY <1>1 DEF IInv, TypeOK
  <1>g. TypeOK'
    BY <1>a, <1>8, <1>b, <1>10, <1>11, <1>e, <1>f DEF TypeOK, InPool
  <1>15. IInv'
    BY <1>a, <1>g, <1>12, <1>13, <1>14, <1>f DEF IInv, PooledIsWarm, Known, InPool
  <1>16. ASSUME NEW c \in Conv, c \in pool, c \notin pool'
         PROVE  disk'[c][entry[c].turn] = entry[c].state
    <2>1. c \in cold /\ c \notin gone /\ entry[c].turn \in Turn
      BY <1>4, <1>5, <1>7, <1>16
    <2> QED  BY <1>6, <1>c, <2>1
  <1>17. \A c \in Conv : Leaves(c)
    BY <1>16 DEF Leaves, InPool
  <1>18. \A c \in Conv : Regresses(c)
    BY <1>9, StateFacts DEF Regresses, InPool
  <1> QED  BY Zenon, <1>15, <1>17, <1>18 DEF Good

\* A restart: what it pools is on disk, and no more than fits.
LEMMA RestartStep ==
    ASSUME IInv, Restart
    PROVE  Good
  <1>1. PICK found \in SUBSET {c \in Conv : OnDisk(c) # {} /\ Capacity > 0} :
            /\ \E kept \in SUBSET found :
                /\ IF Cardinality(found) <= Capacity THEN kept = found
                   ELSE Cardinality(kept) = Capacity
                /\ pool' = kept /\ older' \in SUBSET (kept \X kept) /\ Ordered(older', kept)
                /\ entry' = [c \in Conv |-> IF c \in kept
                                 THEN [turn |-> Latest(c), state |-> disk[c][Latest(c)]]
                                 ELSE NoEntry]
            /\ tier' = [c \in Conv |-> IF c \in found THEN "WARM" ELSE "none"]
    BY DEF Restart
  <1>2. idle' = [c \in Conv |-> 0] /\ disk' = disk /\ saves' = saves
    BY DEF Restart
  <1>3. /\ pool' \subseteq found /\ pool' \subseteq Conv /\ Ordered(older', pool')
        /\ entry' = [c \in Conv |-> IF c \in pool'
                         THEN [turn |-> Latest(c), state |-> disk[c][Latest(c)]] ELSE NoEntry]
    BY <1>1
  <1>4. Cardinality(pool') <= Capacity
    BY <1>1, CapacityAssumption
  <1>5. IsFiniteSet(pool')
    BY <1>3, ConvAssumption, FS_Subset
  <1>6. ASSUME NEW c \in pool'
        PROVE  /\ Latest(c) \in Turn /\ disk[c][Latest(c)] \in State
               /\ disk[c][Latest(c)] <= saves
    <2>1. c \in Conv /\ OnDisk(c) # {}
      BY <1>1, <1>3
    <2>2. Latest(c) \in OnDisk(c)
      BY <2>1, LatestOnDisk
    <2> QED  BY <2>1, <2>2 DEF OnDisk, IInv, TypeOK, Known
  <1>7. entry' \in [Conv -> [turn : Turn, state : State] \cup {NoEntry}]
    BY <1>3, <1>6
  <1>8. \A c \in Conv : c \in pool' <=> entry'[c] # NoEntry
    BY SMTT(60), <1>3, <1>6, TurnAssumption DEF NoEntry
  <1>9. \A c \in Conv : entry'[c].state <= saves
    BY <1>3, <1>6 DEF NoEntry, None, IInv, TypeOK
  <1>10. /\ tier' \in [Conv -> {"none", "WARM", "COLD", "ARCHIVED"}]
         /\ \A c \in pool' : tier'[c] = "WARM"
    BY <1>1, <1>3
  <1>11. idle' \in [Conv -> Age]
    BY <1>2, TimeoutAssumption DEF Age, Forever
  <1>12. IInv'
    BY <1>2, <1>3, <1>4, <1>5, <1>7, <1>8, <1>9, <1>10, <1>11
       DEF IInv, TypeOK, PooledIsWarm, Known, InPool
  <1> QED  BY <1>12 DEF Good, Leaves, Regresses

\* Nothing happens.
LEMMA StutterStep ==
    ASSUME IInv, UNCHANGED vars
    PROVE  Good
  <1>1. /\ pool' = pool /\ older' = older /\ entry' = entry /\ disk' = disk
        /\ tier' = tier /\ idle' = idle /\ saves' = saves
    BY DEF vars
  <1>2. IInv'
    BY <1>1 DEF IInv, TypeOK, PooledIsWarm, Known, InPool, Ordered
  <1>3. \A c \in Conv : entry[c].state \in Nat
    BY DEF IInv, TypeOK, State, None, NoEntry
  <1>4. \A c \in Conv : Leaves(c) /\ Regresses(c)
    BY <1>1, <1>3 DEF Leaves, Regresses, InPool
  <1> QED  BY <1>2, <1>4 DEF Good

-----------------------------------------------------------------------------
(***************************************************************************)
(* The theorems                                                            *)
(***************************************************************************)
\* At the start the pool, the tracker and the disk are empty.
LEMMA InitStep == Init => IInv
  <1> SUFFICES ASSUME Init PROVE IInv
    OBVIOUS
  <1>1. Cardinality(pool) = 0 /\ IsFiniteSet(pool)
    BY FS_EmptySet DEF Init
  <1>2. Ordered(older, pool)
    BY SmallOrders DEF Init
  <1>3. TypeOK
    BY <1>1, <1>2, CapacityAssumption, TimeoutAssumption, MaxSavesAssumption
       DEF Init, TypeOK, InPool, Age, Forever
  <1>4. PooledIsWarm /\ Known
    BY DEF Init, PooledIsWarm, Known, InPool, NoEntry, None
  <1> QED  BY <1>1, <1>3, <1>4 DEF IInv

\* Every step keeps the invariant and moves the pool's states as promised.
LEMMA NextStep == IInv /\ [Next]_vars => Good
  <1> SUFFICES ASSUME IInv, [Next]_vars PROVE Good
    OBVIOUS
  <1>1. CASE \E c \in Conv, t \in Turn : HookSave(c, t)
    BY <1>1, HookStep
  <1>2. CASE \/ \E c \in Conv, t \in Turn : SaveLive(c, t) \/ HandleDeleteSnapshot(c, t)
             \/ \E c \in Conv : RestoreFromWarmTier(c)
             \/ \E c \in Conv, turn \in Turn \cup {NoTurn} : SavePooled(c, turn)
             \/ Tick
    BY <1>2, QuietSteps
  <1>3. CASE \E c \in Conv, turn \in Turn \cup {NoTurn} : PromoteFromDisk(c, turn)
    BY <1>3, PromoteStep
  <1>4. CASE \E failed \in SUBSET Conv : RunCleanupCycle(failed)
    BY <1>4, CleanupStep
  <1>5. CASE Restart
    BY <1>5, RestartStep
  <1>6. CASE UNCHANGED vars
    BY <1>6, StutterStep
  <1> QED  BY <1>1, <1>2, <1>3, <1>4, <1>5, <1>6 DEF Next

\* The invariant the four theorems rest on.
LEMMA Inductive == Spec => []IInv
  <1>1. IInv /\ [Next]_vars => IInv'
    BY NextStep DEF Good
  <1> QED  BY <1>1, InitStep, PTL DEF Spec

\* The pool stays within its limits and in order, whatever is saved, evicted,
\* demoted or loaded again (MambaHostPool).
THEOREM TypeCorrect == Spec => []TypeOK
  <1>1. IInv => TypeOK
    BY DEF IInv
  <1> QED  BY <1>1, Inductive, PTL

\* The tracker never takes a conversation whose state is in host RAM for one
\* that cleanup may archive.
THEOREM TrackerAgrees == Spec => []PooledIsWarm
  <1>1. IInv => PooledIsWarm
    BY DEF IInv
  <1> QED  BY <1>1, Inductive, PTL

\* No step but a restart takes a state out of host RAM without a copy on disk,
\* except when a full pool takes in another.
THEOREM NotLostByCleanup == Spec => LeavesPoolForDisk
  <1>1. IInv /\ [Next]_vars => \A c \in Conv : Leaves(c)
    BY NextStep DEF Good
  <1>2. (\A c \in Conv : Leaves(c)) =>
            [\A c \in Conv : InPool(c) /\ ~InPool(c)' /\ ~Restart =>
               \/ disk'[c][entry[c].turn] = entry[c].state
               \/ Cardinality(pool) = Capacity /\ \E d \in Conv : InPool(d)' /\ entry'[d] # entry[d]]_vars
    BY DEF Leaves
  <1> QED  BY <1>1, <1>2, Inductive, PTL DEF Spec, LeavesPoolForDisk

\* A restore from host RAM never answers with an older state than a restore
\* before it could have had, as long as the conversation stays there.
THEOREM NoRegress == Spec => PoolNeverRegresses
  <1>1. IInv /\ [Next]_vars => \A c \in Conv : Regresses(c)
    BY NextStep DEF Good
  <1>2. (\A c \in Conv : Regresses(c)) =>
            [\A c \in Conv : InPool(c) /\ InPool(c)' /\ ~Restart =>
               entry'[c].state >= entry[c].state]_vars
    BY DEF Regresses
  <1> QED  BY <1>1, <1>2, Inductive, PTL DEF Spec, PoolNeverRegresses

=============================================================================
