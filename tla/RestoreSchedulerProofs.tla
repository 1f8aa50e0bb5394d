----------------------- MODULE RestoreSchedulerProofs -----------------------
(***************************************************************************)
(* The restore path through the scheduler, for any number of requests,     *)
(* conversations and slots and any limits: admission, prefill and decode   *)
(* keep the invariant too, and what follows for every behaviour.           *)
(***************************************************************************)
EXTENDS RestoreSchedulerInvariant

\* There is much in scope: the provers get more than their default time.
USE SMTT(30), ZenonT(30)

-----------------------------------------------------------------------------
(***************************************************************************)
(* Merging and admission                                                   *)
(***************************************************************************)
\* Batches that only shrink stay within the limit.
LEMMA FewerRun ==
    ASSUME IInv, batch' \cup last' \cup running' \subseteq batch \cup last \cup running
    PROVE  RunningWithinLimit'
  <1>1. PICK all : all = batch \cup (last \cup running)
    BY Zenon
  <1>2. PICK now : now = batch' \cup (last' \cup running')
    BY Zenon
  <1>3. now \subseteq all /\ all \subseteq Live
    BY <1>1, <1>2, PlaceFacts
  <1>4. IsFiniteSet(all)
    BY <1>3, PlaceFacts, FS_Subset
  <1>5. IsFiniteSet(now) /\ Cardinality(now) <= Cardinality(all)
    BY <1>3, <1>4, FS_Subset
  <1>6. Cardinality(now) \in Nat /\ Cardinality(all) \in Nat
    BY <1>4, <1>5, FS_CardinalityType
  <1>7. Cardinality(all) <= MaxRunning
    BY <1>1 DEF IInv, RunningWithinLimit, Scheduled
  <1>8. Cardinality(now) <= MaxRunning
    BY <1>5, <1>6, <1>7, MaxRunningAssumption
  <1> QED  BY <1>2, <1>8 DEF RunningWithinLimit, Scheduled

\* The last prefill batch joins the running batch.
LEMMA MergeStep ==
    ASSUME IInv, NEW late \in SUBSET queue, MergeLastBatch(late)
    PROVE  IInv' /\ Stable
  <1>1. PICK over : over = Finished(last)
    OBVIOUS
  <1>2. /\ pc = "inputs" /\ Leave(late) /\ req' = Without(late \cup over)
        /\ running' = running \cup (last \ over) /\ last' = {}
        /\ full' = FullAfter(over # {}, running = {} /\ last \ over # {})
        /\ pc' = "admit" /\ pending' = pending /\ batch' = batch /\ free' = free
        /\ content' = content /\ crash' = crash
    BY <1>1 DEF MergeLastBatch, Ready
  <1>3. batch = {} /\ over \subseteq last
    BY Zenon, <1>1, <1>2 DEF IInv, Phases, Finished
  <1>4. queue' = queue \ late /\ Line(ahead', queue') /\ Cardinality(queue') <= MaxQueued
    BY <1>2, ShorterQueue
  <1>5. Live' = Live \ (late \cup over) /\ \A x \in Live' : req'[x] = req[x]
    BY <1>2 DEF Live, Without
  <1>6. Live' = queue' \cup batch' \cup last' \cup running' /\ Live' \subseteq Live
    BY Zenon, <1>2, <1>3, <1>4, <1>5, PlaceFacts
  <1>7. /\ queue' \cap batch' = {} /\ queue' \cap last' = {} /\ queue' \cap running' = {}
        /\ batch' \cap last' = {} /\ batch' \cap running' = {} /\ last' \cap running' = {}
    BY <1>2, <1>3, <1>4, PlaceFacts
  <1>8. free' \in [Slot -> Nat] /\ SlotsNotShared'
    <2>1. \A x \in Live' : req'[x].slot \in {req[x].slot, NoSlot}
      BY <1>5
    <2> QED  BY Zenon, <1>2, <1>6, <2>1, RequestFacts, SlotsKept
  <1>9. \A x \in Live' : req'[x] \in Request
    BY <1>5, RequestFacts
  <1>10. /\ full' \in BOOLEAN /\ pc' \in {"inputs", "admit", "prefill", "decode"}
         /\ crash' \in {"none", "alloc", "early_free"}
    BY Zenon, <1>2 DEF IInv, TypeOK, FullAfter
  <1>11. Phases' /\ RunningWithinLimit'
    <2>1. batch' \cup last' \cup running' \subseteq batch \cup last \cup running
      BY <1>2
    <2> QED  BY <1>2, <2>1, FewerRun DEF Phases
  <1>12. /\ \A x \in queue' \cup batch' : Waits(req'[x], content[req'[x].slot])
         /\ \A x \in last' \cup running' : Runs(req'[x], content[req'[x].slot])
    BY Zenon, <1>2, <1>3, <1>4, <1>5, <1>6, StateFacts
  <1> QED  BY Zenon, <1>2, <1>4, <1>6, <1>7, <1>8, <1>9, <1>10, <1>11, <1>12, CalmStep

\* The batch has room for one more.
LEMMA RoomForOne ==
    ASSUME IInv, ~BatchIsFull, last = {}, NEW r \in queue
    PROVE  Cardinality((batch \cup {r}) \cup running) <= MaxRunning
  <1>1. IsFiniteSet(batch) /\ IsFiniteSet(running) /\ r \notin batch /\ r \notin running
    BY PlaceFacts, FS_Subset
  <1>2. IsFiniteSet(batch \cup {r}) /\ Cardinality(batch \cup {r}) = Cardinality(batch) + 1
    BY <1>1, FS_AddElement
  <1>3. PICK more : more = batch \cup {r}
    BY Zenon
  <1>4. more \cap running = {}
    BY <1>1, <1>3, PlaceFacts
  <1>5. Cardinality(more \cup running)
            = Cardinality(more) + Cardinality(running) - Cardinality(more \cap running)
    BY <1>1, <1>2, <1>3, FS_Union
  <1>6. Cardinality(more \cap running) = 0
    BY Zenon, <1>4, FS_EmptySet
  <1>7. Cardinality(batch) \in Nat /\ Cardinality(running) \in Nat
    BY <1>1, FS_CardinalityType
  <1>8. Cardinality(batch) < MaxRunning - Cardinality(running)
    BY <1>7, MaxRunningAssumption DEF BatchIsFull
  <1>9. Cardinality(more) = Cardinality(batch) + 1
    BY <1>2, <1>3
  <1>10. Cardinality(more \cup running) <= MaxRunning
    BY <1>5, <1>6, <1>7, <1>8, <1>9, MaxRunningAssumption
  <1> QED  BY <1>3, <1>10

\* The head of the queue is admitted.
LEMMA AdmitStep ==
    ASSUME IInv, AdmitRequest
    PROVE  IInv' /\ Stable
  <1>1. PICK r \in queue : batch' = batch \cup {r} /\ Leave({r})
    BY Zenon DEF AdmitRequest, First
  <1>2. /\ pc = "admit" /\ ~BatchIsFull /\ pending' = pending /\ req' = req /\ last' = last
        /\ running' = running /\ full' = full /\ free' = free /\ content' = content
        /\ pc' = pc /\ crash' = crash
    BY DEF AdmitRequest, Ready
  <1>3. last = {}
    BY Zenon, <1>2 DEF IInv, Phases
  <1>4. queue' = queue \ {r} /\ Line(ahead', queue') /\ Cardinality(queue') <= MaxQueued
    BY <1>1, ShorterQueue
  <1>5. Live' = Live /\ Live' = queue' \cup batch' \cup last' \cup running' /\ Live' \subseteq Live
    BY <1>1, <1>2, <1>4, PlaceFacts DEF Live
  <1>6. /\ queue' \cap batch' = {} /\ queue' \cap last' = {} /\ queue' \cap running' = {}
        /\ batch' \cap last' = {} /\ batch' \cap running' = {} /\ last' \cap running' = {}
    BY <1>1, <1>2, <1>3, <1>4, PlaceFacts
  <1>7. free' \in [Slot -> Nat] /\ SlotsNotShared'
    BY <1>2, <1>5, RequestFacts, SlotsKept
  <1>8. \A x \in Live' : req'[x] \in Request
    BY <1>2, <1>5, RequestFacts
  <1>9. /\ full' \in BOOLEAN /\ pc' \in {"inputs", "admit", "prefill", "decode"}
        /\ crash' \in {"none", "alloc", "early_free"}
    BY <1>2 DEF IInv, TypeOK
  <1>10. Phases'
    BY <1>2, <1>3 DEF Phases
  <1>11. RunningWithinLimit'
    <2>1. Cardinality((batch \cup {r}) \cup running) <= MaxRunning
      BY <1>2, <1>3, RoomForOne
    <2>2. batch' \cup Scheduled' = (batch \cup {r}) \cup running
      BY <1>1, <1>2, <1>3 DEF Scheduled
    <2> QED  BY <2>1, <2>2 DEF RunningWithinLimit
  <1>12. /\ \A x \in queue' \cup batch' : Waits(req'[x], content[req'[x].slot])
         /\ \A x \in last' \cup running' : Runs(req'[x], content[req'[x].slot])
    BY <1>1, <1>2, <1>4, StateFacts
  <1> QED  BY Zenon, <1>2, <1>4, <1>5, <1>6, <1>7, <1>8, <1>9, <1>10, <1>11, <1>12, CalmStep

\* The head of the queue is refused and loses its slot.
LEMMA RefuseStep ==
    ASSUME IInv, NEW noToken \in BOOLEAN, RefuseRequest(noToken)
    PROVE  IInv' /\ Stable
  <1>1. PICK r \in queue : /\ free' = Released({r})
                           /\ req' = With(r, [Spoilt(req[r]) EXCEPT !.slot = NoSlot])
    BY Zenon DEF RefuseRequest, First
  <1>2. PICK v : v = [Spoilt(req[r]) EXCEPT !.slot = NoSlot]
    BY Zenon
  <1>3. /\ pc = "admit" /\ full' = (full \/ noToken)
        /\ pc' = IF batch = {} THEN "decode" ELSE "prefill"
        /\ pending' = pending /\ queue' = queue /\ ahead' = ahead /\ batch' = batch
        /\ last' = last /\ running' = running /\ content' = content /\ crash' = crash
    BY DEF RefuseRequest, Ready
  <1>4. r \in Live
    BY PlaceFacts
  <1>5. Live' = Live /\ req'[r] = v /\ \A x \in Live \ {r} : req'[x] = req[x]
    BY <1>1, <1>2, <1>4 DEF Live, With
  <1>6. v \in Request /\ v.slot = NoSlot /\ \A d : Waits(v, d)
    BY <1>2, <1>4, RequestFacts, StateFacts, RefusedWaits
  <1>7. free' \in [Slot -> Nat] /\ SlotsNotShared'
    <2>1. \A x \in Live' : req'[x].slot \in {req[x].slot, NoSlot}
      BY <1>5, <1>6
    <2>2. \A x \in Live' \cap {r} : req'[x].slot = NoSlot
      BY <1>5, <1>6
    <2>3. {r} \in SUBSET Live /\ Live' \subseteq Live
      BY <1>4, <1>5
    <2> QED  BY Zenon, <1>1, <2>1, <2>2, <2>3, RequestFacts, SlotsReleased
  <1>8. \A x \in Live' : req'[x] \in Request
    BY <1>5, <1>6, RequestFacts
  <1>9. full' \in BOOLEAN
    BY Zenon, <1>3 DEF IInv, TypeOK
  <1>10. pc' \in {"inputs", "admit", "prefill", "decode"} /\ crash' \in {"none", "alloc", "early_free"}
    BY Zenon, <1>3 DEF IInv, TypeOK
  <1>11. Phases' /\ RunningWithinLimit'
    BY Zenon, <1>3 DEF IInv, Phases, RunningWithinLimit, Scheduled
  <1>12. \A x \in queue' \cup batch' : Waits(req'[x], content[req'[x].slot])
    BY Zenon, <1>3, <1>5, <1>6, PlaceFacts, StateFacts
  <1>13. \A x \in last' \cup running' : Runs(req'[x], content[req'[x].slot])
    BY Zenon, <1>3, <1>5, PlaceFacts, StateFacts
  <1>14. /\ Live' = queue' \cup batch' \cup last' \cup running' /\ Live' \subseteq Live
         /\ Line(ahead', queue') /\ Cardinality(queue') <= MaxQueued
    BY Zenon, <1>3, <1>5, PlaceFacts
  <1>15. /\ queue' \cap batch' = {} /\ queue' \cap last' = {} /\ queue' \cap running' = {}
         /\ batch' \cap last' = {} /\ batch' \cap running' = {} /\ last' \cap running' = {}
    BY <1>3, PlaceFacts
  <1> QED  BY Zenon, <1>3, <1>7, <1>8, <1>9, <1>10, <1>11, <1>12, <1>13, <1>14, <1>15, CalmStep

\* Admission ends.
LEMMA AdmissionStep ==
    ASSUME IInv, AdmissionEnds
    PROVE  IInv' /\ Stable
  <1>1. /\ pc = "admit" /\ full' = (full \/ queue # {})
        /\ pc' = IF batch = {} THEN "decode" ELSE "prefill"
        /\ pending' = pending /\ req' = req /\ queue' = queue /\ ahead' = ahead /\ batch' = batch
        /\ last' = last /\ running' = running /\ free' = free /\ content' = content
        /\ crash' = crash
    BY DEF AdmissionEnds, Ready
  <1>2. full' \in BOOLEAN
    BY <1>1 DEF IInv, TypeOK
  <1>3. pc' \in {"inputs", "admit", "prefill", "decode"} /\ crash' \in {"none", "alloc", "early_free"}
    BY Zenon, <1>1 DEF IInv, TypeOK
  <1>4. Phases' /\ StagedIsOwn'
    BY <1>1 DEF IInv, Phases, StagedIsOwn
  <1> QED  BY <1>1, <1>2, <1>3, <1>4, QuietStep

-----------------------------------------------------------------------------
(***************************************************************************)
(* Prefill                                                                 *)
(***************************************************************************)

\* The slots a batch is prefilled into: its own, or free ones, each once.
OwnSlots(slot) ==
    /\ \A r \in batch : slot[r] \in Slot /\ slot[r] # NoSlot
    /\ \A r \in batch \ Slotless : slot[r] = req[r].slot
    /\ \A r \in batch : free[slot[r]] = IF r \in Slotless THEN 1 ELSE 0
    /\ \A r1, r2 \in batch : slot[r1] = slot[r2] => r1 = r2
    /\ \A r \in batch, x \in Live \ batch : req[x].slot # slot[r]

\* The allocation gives them.
LEMMA PrefillSlots ==
    ASSUME IInv, NEW given \in Allocations
    PROVE  OwnSlots(SlotOf(given))
  <1>1. PICK slot : slot = SlotOf(given)
    OBVIOUS
  <1>2. /\ \A r \in Slotless : given[r] \in Slot /\ free[given[r]] > 0
        /\ \A r1, r2 \in Slotless : given[r1] = given[r2] => r1 = r2
    BY DEF Allocations, FreeSlots
  <1>3. SlotTypes /\ SlotsNotShared /\ batch \subseteq Live
    BY RequestFacts, PlaceFacts
  <1>4. \A r \in Slotless : free[given[r]] = 1
    BY <1>2, <1>3 DEF SlotTypes, SlotsNotShared
  <1>5. /\ Slotless \subseteq batch
        /\ \A r \in Slotless : slot[r] = given[r]
        /\ \A r \in batch \ Slotless : slot[r] = req[r].slot /\ req[r].slot # NoSlot
    BY <1>1 DEF SlotOf, Slotless
  <1>6. \A r \in batch : slot[r] \in Slot /\ slot[r] # NoSlot
    <2>1. \A r \in Slotless : slot[r] \in Slot
      BY <1>2, <1>5
    <2>2. \A r \in batch \ Slotless : slot[r] \in Slot
      BY <1>3, <1>5 DEF SlotTypes
    <2> QED  BY <2>1, <2>2, NoSlotAssumption
  <1>7. \A r \in batch : free[slot[r]] = IF r \in Slotless THEN 1 ELSE 0
    <2>1. \A r \in batch \ Slotless : free[slot[r]] = 0
      BY <1>3, <1>5 DEF SlotsNotShared
    <2> QED  BY <1>4, <1>5, <2>1
  <1>8. ASSUME NEW r1 \in batch, NEW r2 \in batch, slot[r1] = slot[r2]
        PROVE  r1 = r2
    <2>1. CASE r1 \in Slotless /\ r2 \in Slotless
      BY <1>2, <1>5, <1>8, <2>1
    <2>2. CASE r1 \notin Slotless /\ r2 \notin Slotless
      BY <1>3, <1>5, <1>8, <2>2 DEF SlotsNotShared
    <2>3. r1 \in Slotless <=> r2 \in Slotless
      BY <1>7, <1>8
    <2> QED  BY <2>1, <2>2, <2>3
  <1>9. ASSUME NEW r \in batch, NEW x \in Live \ batch, req[x].slot = slot[r]
        PROVE  FALSE
    <2>1. req[x].slot # NoSlot
      BY <1>6, <1>9
    <2>2. free[slot[r]] = 0
      BY <1>3, <1>9, <2>1 DEF SlotsNotShared
    <2>3. r \notin Slotless
      BY <1>7, <2>2
    <2>4. req[r].slot = req[x].slot /\ r # x
      BY <1>5, <1>9, <2>3
    <2> QED  BY <1>3, <2>1, <2>4 DEF SlotsNotShared
  <1>10. OwnSlots(slot)
    BY <1>5, <1>6, <1>7, <1>8, <1>9 DEF OwnSlots
  <1> QED  BY <1>1, <1>10

\* The requests after the prefill.
LEMMA PrefillRequests ==
    ASSUME IInv, NEW slot, OwnSlots(slot), Prefill(slot)
    PROVE  /\ Live' = Live /\ batch \subseteq Live
           /\ \A r \in batch : /\ req'[r] = Stepped([req[r] EXCEPT !.slot = slot[r]])
                               /\ req'[r] \in Request
                               /\ req'[r].slot = IF Ending(req[r]) THEN NoSlot ELSE slot[r]
           /\ \A x \in Live \ batch : req'[x] = req[x]
  <1>1. batch \subseteq Live
    BY PlaceFacts
  <1>2. req' = [r \in Live |-> IF r \in batch THEN Stepped([req[r] EXCEPT !.slot = slot[r]]) ELSE req[r]]
    BY DEF Prefill
  <1>3. /\ Live' = Live
        /\ \A r \in batch : req'[r] = Stepped([req[r] EXCEPT !.slot = slot[r]])
        /\ \A x \in Live \ batch : req'[x] = req[x]
    BY <1>1, <1>2 DEF Live
  <1>4. ASSUME NEW r \in batch
        PROVE  req'[r] \in Request /\ req'[r].slot = IF Ending(req[r]) THEN NoSlot ELSE slot[r]
    <2>1. PICK u : u = [req[r] EXCEPT !.slot = slot[r]]
      BY Zenon
    <2>2. req[r] \in Request /\ slot[r] \in Slot
      BY <1>1, RequestFacts DEF OwnSlots
    <2>3. u \in Request /\ u.slot = slot[r] /\ (Ending(u) <=> Ending(req[r]))
      BY <2>1, <2>2 DEF Request, Ending
    <2>4. Stepped(u) \in Request /\ Stepped(u).slot = IF Ending(u) THEN NoSlot ELSE u.slot
      BY <2>3, SteppedFields
    <2>5. req'[r] = Stepped(u)
      BY <1>3, <2>1
    <2> QED  BY <2>3, <2>4, <2>5
  <1> QED  BY <1>1, <1>3, <1>4

\* The slots after the prefill: those of the requests that finish in it are
\* free again.
LEMMA PrefillFrees ==
    ASSUME IInv, NEW slot, OwnSlots(slot), Prefill(slot)
    PROVE  /\ free' \in [Slot -> Nat] /\ SlotsNotShared'
           /\ \A r \in batch : slot[r] \in Slot /\ free'[slot[r]] = IF Ending(req[r]) THEN 1 ELSE 0
           /\ \A s \in Slot : (\A r \in batch : slot[r] # s) => free'[s] = free[s]
  <1> DEFINE N(s) == {r \in Slotless : slot[r] = s}
             O(s) == {r \in batch : slot[r] = s /\ Ending(req[r])}
  <1>1. /\ DOMAIN free' = Slot
        /\ free' = [s \in Slot |-> free'[s]]
        /\ \A s \in Slot : free'[s] = free[s] - Cardinality(N(s)) + Cardinality(O(s))
    BY DEF Prefill
  <1>2. Slotless \subseteq batch /\ \A r1, r2 \in batch : slot[r1] = slot[r2] => r1 = r2
    BY DEF Slotless, OwnSlots
  <1>3. ASSUME NEW s \in Slot
        PROVE  /\ Cardinality(N(s)) = IF N(s) = {} THEN 0 ELSE 1
               /\ Cardinality(O(s)) = IF O(s) = {} THEN 0 ELSE 1
    <2>1. \A x, y \in N(s) : x = y
      BY <1>2
    <2>2. \A x, y \in O(s) : x = y
      BY <1>2
    <2> HIDE DEF N, O
    <2>3. Cardinality(N(s)) = IF N(s) = {} THEN 0 ELSE 1
      BY <2>1, AtMostOne
    <2>4. Cardinality(O(s)) = IF O(s) = {} THEN 0 ELSE 1
      BY <2>2, AtMostOne
    <2> QED  BY <2>3, <2>4
  <1>4. ASSUME NEW r \in batch
        PROVE  /\ N(slot[r]) = {} <=> r \notin Slotless
               /\ O(slot[r]) = {} <=> ~Ending(req[r])
    BY <1>2
  <1>5. ASSUME NEW s \in Slot, \A r \in batch : slot[r] # s
        PROVE  N(s) = {} /\ O(s) = {}
    BY <1>2, <1>5
  <1> HIDE DEF N, O
  <1>6. \A s \in Slot : free[s] \in Nat /\ free[s] <= 1
    BY RequestFacts DEF SlotTypes, SlotsNotShared
  <1>7. ASSUME NEW r \in batch
        PROVE  slot[r] \in Slot /\ free'[slot[r]] = IF Ending(req[r]) THEN 1 ELSE 0
    <2>1. slot[r] \in Slot /\ free[slot[r]] = IF r \in Slotless THEN 1 ELSE 0
      BY DEF OwnSlots
    <2>2. Cardinality(N(slot[r])) = IF r \in Slotless THEN 1 ELSE 0
      BY <1>3, <1>4, <2>1
    <2>3. Cardinality(O(slot[r])) = IF Ending(req[r]) THEN 1 ELSE 0
      BY <1>3, <1>4, <2>1
    <2> QED  BY <1>1, <2>1, <2>2, <2>3
  <1>8. ASSUME NEW s \in Slot, \A r \in batch : slot[r] # s
        PROVE  free'[s] = free[s]
    <2>1. Cardinality(N(s)) = 0 /\ Cardinality(O(s)) = 0
      BY <1>3, <1>5, <1>8
    <2> QED  BY <1>1, <1>6, <2>1
  <1>9. ASSUME NEW s \in Slot
        PROVE  free'[s] \in Nat /\ free'[s] <= 1
    <2>1. CASE \E r \in batch : slot[r] = s
      <3>1. PICK r \in batch : slot[r] = s
        BY <2>1
      <3>2. free'[s] = IF Ending(req[r]) THEN 1 ELSE 0
        BY <1>7, <3>1
      <3> QED  BY <3>2
    <2>2. CASE \A r \in batch : slot[r] # s
      BY <1>6, <1>8, <2>2
    <2> QED  BY <2>1, <2>2
  <1>10. free' \in [Slot -> Nat]
    BY <1>1, <1>9
  <1>11. ASSUME NEW x \in Live', req'[x].slot # NoSlot
         PROVE  free'[req'[x].slot] = 0
    <2>1. CASE x \in batch
      <3>1. ~Ending(req[x]) /\ req'[x].slot = slot[x]
        BY Zenon, <1>11, <2>1, PrefillRequests
      <3> QED  BY <1>7, <2>1, <3>1
    <2>2. CASE x \notin batch
      <3>1. x \in Live \ batch /\ req'[x].slot = req[x].slot
        BY <2>2, PrefillRequests
      <3>2. req[x].slot \in Slot /\ free[req[x].slot] = 0
        BY <1>11, <3>1, RequestFacts DEF SlotsNotShared
      <3>3. \A r \in batch : slot[r] # req[x].slot
        BY <3>1 DEF OwnSlots
      <3> QED  BY <1>8, <3>1, <3>2, <3>3
    <2> QED  BY <2>1, <2>2
  <1>12. ASSUME NEW x \in Live', NEW y \in Live', req'[x].slot = req'[y].slot, req'[x].slot # NoSlot
         PROVE  x = y
    <2>1. \A z \in batch : req'[z].slot # NoSlot => req'[z].slot = slot[z]
      BY Zenon, PrefillRequests
    <2>2. Live' = Live /\ \A z \in Live \ batch : req'[z].slot = req[z].slot
      BY PrefillRequests
    <2>3. CASE x \in batch /\ y \in batch
      BY <1>2, <1>12, <2>1, <2>3
    <2>4. CASE x \notin batch /\ y \notin batch
      BY <1>12, <2>2, <2>4, RequestFacts DEF SlotsNotShared
    <2>5. CASE x \in batch /\ y \notin batch
      BY <1>12, <2>1, <2>2, <2>5 DEF OwnSlots
    <2>6. CASE x \notin batch /\ y \in batch
      BY <1>12, <2>1, <2>2, <2>6 DEF OwnSlots
    <2> QED  BY <2>3, <2>4, <2>5, <2>6
  <1>13. \A s \in Slot : free'[s] <= 1
    BY <1>9
  <1>14. \A x \in Live' : req'[x].slot # NoSlot => free'[req'[x].slot] = 0
    BY <1>11
  <1>15. \A x, y \in Live' : req'[x].slot = req'[y].slot => x = y \/ req'[x].slot = NoSlot
    BY <1>12
  <1>16. SlotsNotShared'
    BY <1>13, <1>14, <1>15 DEF SlotsNotShared
  <1> QED  BY <1>7, <1>8, <1>10, <1>16

\* What a prefilled request is and what its slot holds.
LEMMA PrefillState ==
    ASSUME NEW q \in Request, NEW c, NEW s \in Slot, Waits(q, c), q.slot # NoSlot => c \in History,
           NEW i, i = IF q.restored /\ q.slot # NoSlot THEN c ELSE <<>>,
           NEW v, v = Stepped([q EXCEPT !.slot = s])
    PROVE  i \o q.tokens \in History /\ Runs(v, i \o q.tokens)
  <1>1. PICK d : d = IF q.slot = NoSlot THEN <<>> ELSE c
    OBVIOUS
  <1>2. <<>> \in History
    BY DEF History
  <1>3. d \in History /\ i \in History
    BY <1>1, <1>2
  <1>4. Waits(q, d)
    BY <1>1, Unmoved
  <1>5. i = IF q.restored /\ q.slot # NoSlot THEN d ELSE <<>>
    BY <1>1
  <1> QED  BY <1>3, <1>4, <1>5, PrefillRuns

\* A request of the batch is prefilled on the state it should have.
LEMMA PrefillOne ==
    ASSUME IInv, NEW slot, OwnSlots(slot), Prefill(slot), NEW r \in batch
    PROVE  content'[slot[r]] \in History /\ Runs(req'[r], content'[req'[r].slot])
  <1>1. PICK q, c, s, v : q = req[r] /\ c = content[req[r].slot] /\ s = slot[r] /\ v = req'[r]
    OBVIOUS
  <1>2. s \in Slot /\ s # NoSlot /\ (r \notin Slotless => s = q.slot)
    BY <1>1 DEF OwnSlots
  <1>3. PICK i : i = IF q.restored /\ q.slot # NoSlot THEN c ELSE <<>>
    OBVIOUS
  <1>4. content'[s] = i \o q.tokens
    <2>1. \A x \in batch : slot[x] = s <=> x = r
      BY <1>1 DEF OwnSlots
    <2>2. (CHOOSE x \in batch : slot[x] = s) = r
      BY <2>1
    <2>3. content' = [z \in Slot |->
             IF \E x \in batch : slot[x] = z
             THEN LET x == CHOOSE y \in batch : slot[y] = z
                  IN  InitialState(req[x], x \in Slotless, z) \o req[x].tokens
             ELSE content[z]]
      BY DEF Prefill
    <2>4. content'[s] = InitialState(q, r \in Slotless, s) \o q.tokens
      BY Zenon, <1>1, <1>2, <2>1, <2>2, <2>3
    <2>5. r \in Slotless <=> q.slot = NoSlot
      BY <1>1 DEF Slotless
    <2>6. InitialState(q, r \in Slotless, s) = i
      BY <1>1, <1>2, <1>3, <2>5 DEF InitialState, Cleared
    <2> QED  BY Zenon, <2>4, <2>6
  <1>5. r \in Live /\ r \in queue \cup batch
    BY PlaceFacts
  <1>6. q \in Request /\ Waits(q, c)
    BY <1>1, <1>5, RequestFacts, StateFacts
  <1>7. q.slot # NoSlot => c \in History
    BY <1>1, <1>5, RequestFacts
  <1>8. v = Stepped([q EXCEPT !.slot = s]) /\ v.slot = IF Ending(q) THEN NoSlot ELSE s
    BY <1>1, PrefillRequests
  <1>9. i \o q.tokens \in History /\ Runs(v, i \o q.tokens)
    BY <1>2, <1>3, <1>6, <1>7, <1>8, PrefillState
  <1>10. v.slot # NoSlot => content'[v.slot] = i \o q.tokens
    BY Zenon, <1>4, <1>8
  <1>11. Runs(v, content'[v.slot])
    BY Zenon, <1>9, <1>10, Unmoved
  <1> QED  BY <1>1, <1>4, <1>9, <1>11

\* The other slots are not written.
LEMMA PrefillOthers ==
    ASSUME IInv, NEW slot, OwnSlots(slot), Prefill(slot)
    PROVE  /\ DOMAIN content' = Slot /\ \A s \in Slot : content'[s] \in History
           /\ \A x \in Live \ batch :
                 req[x].slot # NoSlot => content'[req[x].slot] = content[req[x].slot]
  <1>1. content' = [z \in Slot |->
           IF \E x \in batch : slot[x] = z
           THEN LET x == CHOOSE y \in batch : slot[y] = z
                IN  InitialState(req[x], x \in Slotless, z) \o req[x].tokens
           ELSE content[z]]
    BY DEF Prefill
  <1>2. \A s \in Slot : (\A r \in batch : slot[r] # s) => content'[s] = content[s]
    BY <1>1
  <1>3. ASSUME NEW s \in Slot PROVE content'[s] \in History
    <2>1. CASE \E r \in batch : slot[r] = s
      BY <2>1, PrefillOne
    <2>2. CASE \A r \in batch : slot[r] # s
      BY <1>2, <2>2, RequestFacts
    <2> QED  BY <2>1, <2>2
  <1>4. ASSUME NEW x \in Live \ batch, req[x].slot # NoSlot
        PROVE  content'[req[x].slot] = content[req[x].slot]
    <2>1. req[x].slot \in Slot
      BY <1>4, RequestFacts
    <2>2. \A r \in batch : slot[r] # req[x].slot
      BY DEF OwnSlots
    <2> QED  BY <1>2, <2>1, <2>2
  <1>5. DOMAIN content' = Slot
    BY <1>1
  <1> QED  BY <1>3, <1>4, <1>5

\* A prefill.
LEMMA PrefillStep ==
    ASSUME IInv, RunPrefill
    PROVE  IInv' /\ Stable
  <1>1. CASE Allocations = {}
    <2>1. /\ crash' = "alloc" /\ pending' = pending /\ req' = req /\ queue' = queue
          /\ ahead' = ahead /\ batch' = batch /\ last' = last /\ running' = running
          /\ full' = full /\ free' = free /\ content' = content /\ pc' = pc
      BY <1>1 DEF RunPrefill
    <2>2. Phases' /\ StagedIsOwn'
      BY <2>1 DEF IInv, Phases, StagedIsOwn
    <2>3. full' \in BOOLEAN /\ pc' \in {"inputs", "admit", "prefill", "decode"}
      BY Zenon, <2>1 DEF IInv, TypeOK
    <2> QED  BY <2>1, <2>2, <2>3, QuietStep
  <1>2. CASE Allocations # {}
    <2>1. PICK given \in Allocations : Prefill(SlotOf(given))
      BY <1>2 DEF RunPrefill
    <2>2. PICK slot : slot = SlotOf(given)
      OBVIOUS
    <2>3. OwnSlots(slot) /\ Prefill(slot)
      BY <2>1, <2>2, PrefillSlots
    <2>4. /\ last' = batch /\ batch' = {} /\ pc' = "inputs" /\ pending' = pending /\ queue' = queue
          /\ ahead' = ahead /\ running' = running /\ full' = full /\ crash' = crash
      BY <2>3 DEF Prefill
    <2>5. last = {}
      BY DEF RunPrefill, Ready, IInv, Phases
    <2>6. /\ Live' = Live /\ batch \subseteq Live /\ \A x \in Live' : req'[x] \in Request
          /\ \A x \in Live \ batch : req'[x] = req[x]
      BY Zenon, <2>3, PrefillRequests, RequestFacts
    <2>7. /\ DOMAIN content' = Slot /\ \A s \in Slot : content'[s] \in History
          /\ \A x \in Live \ batch :
                req[x].slot # NoSlot => content'[req[x].slot] = content[req[x].slot]
      BY <2>3, PrefillOthers
    <2>8. free' \in [Slot -> Nat] /\ SlotsNotShared'
      BY <2>3, PrefillFrees
    <2>9. Places' /\ Line(ahead', queue') /\ Cardinality(queue') <= MaxQueued
      BY <2>4, <2>5, <2>6, PlaceFacts DEF Places
    <2>10. Kinds'
      <3>1. /\ full' \in BOOLEAN /\ pc' \in {"inputs", "admit", "prefill", "decode"}
            /\ crash' \in {"none", "alloc", "early_free"}
        BY Zenon, <2>4 DEF IInv, TypeOK
      <3> QED  BY <2>6, <2>7, <2>8, <3>1 DEF Kinds
    <2>11. Phases' /\ StagedIsOwn'
      BY <2>4 DEF IInv, Phases, StagedIsOwn
    <2>12. RunningWithinLimit'
      <3>1. batch' \cup last' \cup running' \subseteq batch \cup last \cup running
        BY <2>4
      <3> QED  BY <3>1, FewerRun
    <2>13. States'
      <3>1. ASSUME NEW x \in queue PROVE Waits(req'[x], content'[req'[x].slot])
        <4>1. x \in Live \ batch /\ Waits(req[x], content[req[x].slot])
          BY <3>1, PlaceFacts, StateFacts
        <4> QED  BY <2>6, <2>7, <4>1, Unmoved
      <3>2. ASSUME NEW x \in running PROVE Runs(req'[x], content'[req'[x].slot])
        <4>1. x \in Live \ batch /\ Runs(req[x], content[req[x].slot])
          BY <3>2, PlaceFacts, StateFacts
        <4> QED  BY <2>6, <2>7, <4>1, Unmoved
      <3>3. \A x \in batch : Runs(req'[x], content'[req'[x].slot])
        BY <2>3, PrefillOne
      <3> QED  BY <2>4, <3>1, <3>2, <3>3 DEF States
    <2>14. IInv'
      BY <2>8, <2>9, <2>10, <2>11, <2>12, <2>13, Pieces
    <2>15. Stable
      BY <2>7, PlaceFacts DEF Stable
    <2> QED  BY <2>14, <2>15
  <1> QED  BY <1>1, <1>2

-----------------------------------------------------------------------------
(***************************************************************************)
(* Decode                                                                  *)
(***************************************************************************)
\* The requests in keep decode a token; those in back lose their slots, and
\* those in in wait again; the ones in gone leave.
Decoding(keep, back, in, gone, freed) ==
    /\ pc = "decode"
    /\ keep \subseteq running /\ back \subseteq running /\ in \subseteq back /\ keep \cap back = {}
    /\ gone = running \ (keep \cup in) /\ freed = back \cup {r \in keep : Ending(req[r])}
    /\ \A r \in keep \cup in : ~req[r].done
    /\ queue' = queue \cup in /\ Line(ahead', queue') /\ Cardinality(queue') <= MaxQueued
    /\ running' = keep /\ Live' = Live \ gone
    /\ \A r \in in : req'[r] = Retracted(req[r])
    /\ \A r \in Live' \ in : req'[r] = Decoded(r, keep)
    /\ free' = Released(freed) /\ full' \in BOOLEAN /\ pc' = "inputs"
    /\ pending' = pending /\ batch' = batch /\ last' = last /\ content' = content /\ crash' = crash

LEMMA DecodeEffect ==
    ASSUME IInv, NEW keep, NEW back, NEW in, NEW gone, NEW freed,
           Decoding(keep, back, in, gone, freed)
    PROVE  IInv' /\ Stable
  <1>1. batch = {} /\ last = {} /\ Live = queue \cup running /\ queue \cap running = {}
    BY Zenon, PlaceFacts DEF Decoding, IInv, Phases
  <1>2. /\ keep \subseteq running /\ in \subseteq back /\ back \subseteq running
        /\ keep \cap back = {} /\ gone = running \ (keep \cup in)
        /\ freed = back \cup {r \in keep : Ending(req[r])} /\ free' = Released(freed)
    BY Zenon DEF Decoding
  <1>3. /\ \A r \in keep \cup in : ~req[r].done
        /\ \A r \in in : req'[r] = Retracted(req[r])
        /\ \A r \in Live' \ in : req'[r] = Decoded(r, keep)
    BY DEF Decoding
  <1>4. /\ queue' = queue \cup in /\ running' = keep /\ batch' = {} /\ last' = {}
        /\ Live' = Live \ gone
    BY <1>1 DEF Decoding
  <1>5. /\ Live' = queue' \cup batch' \cup last' \cup running' /\ Live' \subseteq Live
        /\ in \subseteq Live'
    BY <1>1, <1>2, <1>4
  <1>6. /\ queue' \cap batch' = {} /\ queue' \cap last' = {} /\ queue' \cap running' = {}
        /\ batch' \cap last' = {} /\ batch' \cap running' = {} /\ last' \cap running' = {}
    BY <1>1, <1>2, <1>4
  <1>7. \A r \in queue : r \in Live' \ in /\ req'[r] = req[r]
    <2>1. \A r \in queue : r \in Live' \ in /\ r \notin keep
      BY <1>1, <1>2, <1>4
    <2> QED  BY <1>3, <2>1 DEF Decoded
  <1>8. ASSUME NEW r \in keep
        PROVE  /\ req'[r] \in Request
               /\ req'[r].slot = IF Ending(req[r]) THEN NoSlot ELSE req[r].slot
               /\ Runs(req'[r], content[req'[r].slot])
    <2>1. r \in Live' \ in /\ r \in Live /\ r \in running
      BY <1>1, <1>2, <1>4
    <2>2. req'[r] = Stepped(req[r]) /\ ~req[r].done
      BY <1>3, <2>1 DEF Decoded
    <2>3. req[r] \in Request /\ Runs(req[r], content[req[r].slot])
      BY <2>1, RequestFacts, StateFacts
    <2>4. req'[r] \in Request /\ req'[r].slot = IF Ending(req[r]) THEN NoSlot ELSE req[r].slot
      BY Zenon, <2>2, <2>3, SteppedFields
    <2>5. Runs(Stepped(req[r]), content[req[r].slot])
      BY Zenon, <2>2, <2>3, RunningSteps
    <2>6. req'[r].slot # NoSlot => content[req'[r].slot] = content[req[r].slot]
      BY <2>4
    <2>7. Runs(req'[r], content[req'[r].slot])
      BY Zenon, <2>2, <2>5, <2>6, Unmoved
    <2> QED  BY <2>4, <2>7
  <1>9. ASSUME NEW r \in in
        PROVE  /\ req'[r] \in Request /\ req'[r].slot = NoSlot
               /\ Waits(req'[r], content[req'[r].slot])
    <2>1. r \in Live /\ r \in running
      BY <1>1, <1>2
    <2>2. req'[r] = Retracted(req[r]) /\ ~req[r].done
      BY <1>3
    <2>3. req[r] \in Request /\ Runs(req[r], content[req[r].slot])
      BY <2>1, RequestFacts, StateFacts
    <2>4. req'[r] \in Request /\ req'[r].slot = NoSlot
      BY <2>2, <2>3, RetractedFields
    <2>5. \A d : Waits(req'[r], d)
      BY Zenon, <2>2, <2>3, RunningSteps
    <2> QED  BY <2>4, <2>5
  <1>10. \A x \in Live' : x \in queue \/ x \in keep \/ x \in in
    BY <1>1, <1>2, <1>4
  <1>11. \A x \in Live' : req'[x] \in Request
    <2>1. \A x \in queue : req[x] \in Request
      BY <1>1, RequestFacts
    <2> QED  BY Zenon, <1>7, <1>8, <1>9, <1>10, <2>1
  <1>12. free' \in [Slot -> Nat] /\ SlotsNotShared'
    <2>1. \A x \in Live' : req'[x].slot \in {req[x].slot, NoSlot}
      BY <1>7, <1>8, <1>9, <1>10
    <2>2. ASSUME NEW x \in Live' \cap freed PROVE req'[x].slot = NoSlot
      <3>1. x \in in \/ (x \in keep /\ Ending(req[x]))
        BY <1>1, <1>2, <1>10
      <3> QED  BY <1>8, <1>9, <3>1
    <2>3. freed \in SUBSET Live
      BY <1>1, <1>2
    <2>4. SlotTypes /\ SlotsNotShared
      BY RequestFacts
    <2> QED  BY <1>2, <1>5, <2>1, <2>2, <2>3, <2>4, SlotsReleased
  <1>13. Phases' /\ RunningWithinLimit'
    <2>1. batch' \cup last' \cup running' \subseteq batch \cup last \cup running
      BY <1>1, <1>2, <1>4
    <2>2. Phases'
      BY <1>4 DEF Phases
    <2> QED  BY <2>1, <2>2, FewerRun
  <1>14. \A x \in queue' \cup batch' : Waits(req'[x], content[req'[x].slot])
    <2>1. \A x \in queue : Waits(req'[x], content[req'[x].slot])
      BY <1>7, StateFacts
    <2> QED  BY <1>4, <1>9, <2>1
  <1>15. \A x \in last' \cup running' : Runs(req'[x], content[req'[x].slot])
    BY Zenon, <1>4, <1>8
  <1>16. pc' \in {"inputs", "admit", "prefill", "decode"} /\ crash' \in {"none", "alloc", "early_free"}
    BY Zenon DEF Decoding, IInv, TypeOK
  <1>17. /\ content' = content /\ pending' = pending /\ full' \in BOOLEAN
         /\ Line(ahead', queue') /\ Cardinality(queue') <= MaxQueued
    BY DEF Decoding
  <1> QED  BY Zenon, <1>5, <1>6, <1>11, <1>12, <1>13, <1>14, <1>15, <1>16, <1>17, CalmStep

\* A decode step without memory pressure.
LEMMA DecodeStep ==
    ASSUME IInv, DecodeBatch
    PROVE  IInv' /\ Stable
  <1>1. PICK over, rs, finishing : /\ over = Finished(running) /\ rs = running \ over
                                   /\ finishing = {r \in rs : Ending(req[r])}
    BY Zenon
  <1>2. /\ pc = "decode" /\ running' = rs /\ full' = FullAfter(over # {}, FALSE)
        /\ req' = [r \in Live \ over |-> Decoded(r, rs)]
        /\ free' = Released(finishing)
        /\ pc' = "inputs" /\ pending' = pending /\ queue' = queue /\ ahead' = ahead
        /\ batch' = batch /\ last' = last /\ content' = content /\ crash' = crash
    BY <1>1 DEF DecodeBatch, Ready
  <1>3. rs \in SUBSET running /\ over = running \ (rs \cup {}) /\ \A r \in rs \cup {} : ~req[r].done
    BY <1>1 DEF Finished
  <1>4. finishing = {} \cup {r \in rs : Ending(req[r])}
    BY <1>1
  <1>5. Live' = Live \ over /\ \A r \in Live' \ {} : req'[r] = Decoded(r, rs)
    BY <1>2 DEF Live
  <1>6. full' \in BOOLEAN
    BY Zenon, <1>2 DEF IInv, TypeOK, FullAfter
  <1>7. queue' = queue \cup {} /\ Line(ahead', queue') /\ Cardinality(queue') <= MaxQueued
    BY <1>2, PlaceFacts
  <1>8. \A r \in {} : req'[r] = Retracted(req[r])
    OBVIOUS
  <1>9. {} \in SUBSET running /\ {} \in SUBSET {} /\ rs \cap {} = {}
    OBVIOUS
  <1>10. Decoding(rs, {}, {}, over, finishing)
    BY Zenon, <1>2, <1>3, <1>4, <1>5, <1>6, <1>7, <1>8, <1>9 DEF Decoding
  <1> QED  BY <1>10, DecodeEffect

\* A decode step after a retraction.
LEMMA RetractStep ==
    ASSUME IInv, NEW some \in SUBSET running, NEW doomed \in SUBSET running,
           RetractDecode(some, doomed)
    PROVE  IInv' /\ Stable
  <1>1. PICK over, keep, finishing : /\ over = Finished(running)
                                     /\ keep = (running \ over) \ (some \cup doomed)
                                     /\ finishing = {r \in keep : Ending(req[r])}
    BY Zenon
  <1>2. /\ pc = "decode" /\ some \cup doomed \subseteq running \ over /\ some \cap doomed = {}
        /\ running' = keep /\ full' = FullAfter(keep # running, FALSE)
        /\ free' = Released(some \cup doomed \cup finishing)
        /\ pc' = "inputs" /\ pending' = pending /\ batch' = batch /\ last' = last
        /\ content' = content /\ crash' = crash
    BY Zenon, <1>1 DEF RetractDecode, Ready
  <1>3. PICK in \in Accepted(some) :
            /\ Join(in)
            /\ req' = [r \in Live \ (over \cup doomed \cup (some \ in)) |->
                          IF r \in in THEN Retracted(req[r]) ELSE Decoded(r, keep)]
    BY Zenon, <1>1 DEF RetractDecode
  <1>4. PICK back, gone, freed : /\ back = some \cup doomed
                                 /\ gone = over \cup doomed \cup (some \ in)
                                 /\ freed = back \cup finishing
    BY Zenon
  <1>5. some \cap queue = {} /\ IsFiniteSet(queue) /\ IsFiniteSet(some) /\ running \subseteq Live
    BY PlaceFacts, FS_Subset
  <1>6. in \subseteq some /\ Cardinality(queue \cup in) <= MaxQueued
    BY <1>3, <1>5, AcceptedFits
  <1>7. queue' = queue \cup in /\ Line(ahead', queue') /\ Cardinality(queue') <= MaxQueued
    <2>1. queue' = queue \cup in /\ in \cap queue = {}
      BY <1>3, <1>5, <1>6 DEF Join
    <2>2. Line(ahead', queue')
      BY Zenon, <1>3, <2>1, JoinLine, PlaceFacts
    <2> QED  BY <1>6, <2>1, <2>2
  <1>8. keep \in SUBSET running /\ back \in SUBSET running /\ in \in SUBSET back /\ keep \cap back = {}
    BY <1>1, <1>4, <1>6
  <1>9. gone = running \ (keep \cup in) /\ \A r \in keep \cup in : ~req[r].done
    <2>1. over = {r \in running : req[r].done}
      BY <1>1 DEF Finished
    <2> QED  BY <1>1, <1>2, <1>4, <1>6, <2>1
  <1>10. freed = back \cup {r \in keep : Ending(req[r])} /\ free' = Released(freed)
    BY <1>1, <1>2, <1>4
  <1>11. Live' = Live \ gone
    BY <1>3, <1>4 DEF Live
  <1>12. /\ \A r \in in : req'[r] = Retracted(req[r])
         /\ \A r \in Live' \ in : req'[r] = Decoded(r, keep)
    <2>1. \A r \in in : r \in Live'
      BY <1>5, <1>6, <1>8, <1>9, <1>11
    <2>2. \A r \in Live' : req'[r] = IF r \in in THEN Retracted(req[r]) ELSE Decoded(r, keep)
      BY <1>3, <1>4, <1>11
    <2> QED  BY <2>1, <2>2
  <1>13. full' \in BOOLEAN
    BY Zenon, <1>2 DEF IInv, TypeOK, FullAfter
  <1>14. Decoding(keep, back, in, gone, freed)
    BY Zenon, <1>2, <1>7, <1>8, <1>9, <1>10, <1>11, <1>12, <1>13 DEF Decoding
  <1> QED  BY <1>14, DecodeEffect

-----------------------------------------------------------------------------
(***************************************************************************)
(* The invariant is inductive                                              *)
(***************************************************************************)
\* Before the first request.
LEMMA InitInvariant == Init => IInv
  <1> SUFFICES ASSUME Init PROVE IInv
    OBVIOUS
  <1>1. /\ pending = Empty /\ queue = {} /\ ahead = {} /\ batch = {} /\ last = {} /\ running = {}
        /\ full = FALSE /\ free = [s \in Slot |-> 1] /\ content = [s \in Slot |-> <<>>]
        /\ pc = "inputs" /\ crash = "none" /\ Live = {}
    BY DEF Init, Live
  <1>2. StagedIsOwn
    <2>1. Good(pending, {}) /\ Cardinality(Keys(pending)) <= MaxEntries
      BY <1>1, EmptyGood
    <2>2. Keys(pending) = {}
      BY <1>1 DEF Empty, Keys
    <2> QED  BY <2>1, <2>2 DEF StagedIsOwn
  <1>3. WellTyped(pending)
    BY <1>2 DEF StagedIsOwn, Good
  <1>4. Cardinality({}) = 0 /\ IsFiniteSet({})
    BY FS_EmptySet
  <1>5. Line({}, {})
    BY DEF Line
  <1>6. TypeOK
    <2>1. Cardinality(queue) <= MaxQueued
      BY <1>1, <1>4, BoundsAssumption
    <2>2. DOMAIN content = Slot /\ \A s \in Slot : content[s] \in Seq(Conv \cup {Prompt})
      BY <1>1
    <2>3. free \in [Slot -> Nat]
      BY <1>1
    <2> QED  BY Zenon, <1>1, <1>3, <1>5, <2>1, <2>2, <2>3 DEF TypeOK, Scheduled
  <1>7. SlotsNotShared /\ Phases
    BY <1>1 DEF SlotsNotShared, Phases
  <1>8. RunningWithinLimit
    <2>1. batch \cup Scheduled = {}
      BY <1>1 DEF Scheduled
    <2> QED  BY <1>4, <2>1, MaxRunningAssumption DEF RunningWithinLimit
  <1>9. queue \cup batch = {} /\ Scheduled = {}
    BY <1>1 DEF Scheduled
  <1> QED  BY <1>1, <1>2, <1>4, <1>6, <1>7, <1>8, <1>9 DEF IInv

\* A call.
LEMMA InputsStep ==
    ASSUME IInv, Inputs
    PROVE  IInv' /\ Stable
  <1>1. ASSUME NEW r \in Rid, NEW conv \in Conv \cup {NoId}, NEW left \in 1..MaxTokens,
               NEW invalid \in {FALSE} \cup (IF "invalid" \in Feature THEN {TRUE} ELSE {}),
               GenerateFresh(r, conv, left, invalid) \/ GenerateHydrated(r, conv, left, invalid)
        PROVE  IInv' /\ Stable
    <2>1. invalid \in BOOLEAN
      BY Zenon
    <2> QED  BY <1>1, <2>1, FreshStep, HydratedStep
  <1>2. ASSUME NEW r \in Rid, NEW conv \in Conv \cup {NoId}, GenerateHydrationFails(r, conv, 1)
        PROVE  IInv' /\ Stable
    <2>1. 1 \in 1..MaxTokens /\ FALSE \in BOOLEAN
      BY BoundsAssumption
    <2> QED  BY Zenon, <1>2, <2>1, FreshStep
  <1>3. ASSUME NEW rid \in AllRid, NEW conv \in Conv, RestoreStaged(rid, conv) \/ RestoreLive(rid, conv)
        PROVE  IInv' /\ Stable
    BY <1>3, StagedStep, LiveStep
  <1>4. ASSUME NEW rid \in NewRid, NEW conv \in Conv, NEW left \in 1..MaxTokens,
               RestoreCreate(rid, conv, left)
        PROVE  IInv' /\ Stable
    BY <1>4, CreateStep
  <1>5. ASSUME NEW r \in AllRid, AbortRequest(r)
        PROVE  IInv' /\ Stable
    BY <1>5, AbortStep
  <1> QED  BY Zenon, <1>1, <1>2, <1>3, <1>4, <1>5 DEF Inputs

\* A step of the event loop.
LEMMA RoundStep ==
    ASSUME IInv, Round
    PROVE  IInv' /\ Stable
  <1>1. CASE \E late \in SUBSET queue : MergeLastBatch(late)
    BY <1>1, MergeStep
  <1>2. CASE AdmitRequest
    BY <1>2, AdmitStep
  <1>3. CASE \E noToken \in BOOLEAN : RefuseRequest(noToken)
    BY <1>3, RefuseStep
  <1>4. CASE AdmissionEnds
    BY <1>4, AdmissionStep
  <1>5. CASE RunPrefill
    BY <1>5, PrefillStep
  <1>6. CASE DecodeBatch
    BY <1>6, DecodeStep
  <1>7. CASE \E back \in SUBSET running, doomed \in SUBSET running :
                Cardinality(doomed) <= 1 /\ RetractDecode(back, doomed)
    BY <1>7, RetractStep
  <1> QED  BY <1>1, <1>2, <1>3, <1>4, <1>5, <1>6, <1>7 DEF Round

\* Every step.
LEMMA NextInvariant == IInv /\ [Next]_vars => IInv' /\ (UNCHANGED vars \/ Stable)
  <1> SUFFICES ASSUME IInv, [Next]_vars PROVE IInv' /\ (UNCHANGED vars \/ Stable)
    OBVIOUS
  <1>1. CASE Next
    BY <1>1, InputsStep, RoundStep DEF Next
  <1>2. CASE UNCHANGED vars
    <2>1. /\ pending' = pending /\ req' = req /\ queue' = queue /\ ahead' = ahead /\ batch' = batch
          /\ last' = last /\ running' = running /\ full' = full /\ free' = free
          /\ content' = content /\ pc' = pc /\ crash' = crash
      BY <1>2 DEF vars
    <2>2. Phases' /\ StagedIsOwn'
      BY <2>1 DEF IInv, Phases, StagedIsOwn
    <2>3. /\ full' \in BOOLEAN /\ pc' \in {"inputs", "admit", "prefill", "decode"}
          /\ crash' \in {"none", "alloc", "early_free"}
      BY Zenon, <2>1 DEF IInv, TypeOK
    <2> QED  BY <1>2, <2>1, <2>2, <2>3, QuietStep
  <1> QED  BY <1>1, <1>2

\* The invariant holds in every state of every behaviour.
LEMMA Inductive == Spec => []IInv
  <1>1. IInv /\ [Next]_vars => IInv'
    BY NextInvariant
  <1> QED  BY <1>1, InitInvariant, PTL DEF Spec

-----------------------------------------------------------------------------
(***************************************************************************)
(* The theorems                                                            *)
(***************************************************************************)
\* Type correctness: every request is in one place, and the queue is ordered
\* and within its limit.
THEOREM TypeCorrect == Spec => []TypeOK
  <1>1. IInv => TypeOK
    BY DEF IInv
  <1> QED  BY <1>1, Inductive, PTL

\* No slot of the Mamba pool is freed twice, free while held, or held twice.
THEOREM SlotsOwned == Spec => []SlotsNotShared
  <1>1. IInv => SlotsNotShared
    BY DEF IInv
  <1> QED  BY <1>1, Inductive, PTL

\* The batches stay within max_running_requests.
THEOREM WithinLimit == Spec => []RunningWithinLimit
  <1>1. IInv => RunningWithinLimit
    BY DEF IInv
  <1> QED  BY <1>1, Inductive, PTL

\* No request computes on the state of another conversation.
THEOREM OwnState == Spec => []StateIsOwn
  <1>1. IInv => StateIsOwn
    BY DEF IInv, StateIsOwn, Computing, Absorbed, Runs, Wants
  <1> QED  BY <1>1, Inductive, PTL

\* A request computes on the history it was restored with and on its prompt,
\* unless it was refused, retracted or restored again.
THEOREM KeptState == Spec => []KeptStateIsUsed
  <1>1. IInv => KeptStateIsUsed
    BY DEF IInv, KeptStateIsUsed, Computing, Absorbed, Runs
  <1> QED  BY <1>1, Inductive, PTL

\* Nothing overwrites the state a decoding request has computed.
THEOREM StableState == Spec => DecodingStateIsStable
  <1>1. IInv /\ [Next]_vars =>
            [\A r \in running \cap running' :
                req[r].slot # NoSlot => content'[req[r].slot] = content[req[r].slot]]_vars
    BY NextInvariant DEF Stable
  <1> QED  BY <1>1, Inductive, PTL DEF Spec, DecodingStateIsStable

-----------------------------------------------------------------------------
(***************************************************************************)
(* No slot is lost, in the default configuration                           *)
(***************************************************************************)
LInv == NoSlotLeaks /\ DoneHoldsNothing

\* No request, or none but the finished ones, leaves, and slots are kept.
LEMMA LeakKept ==
    ASSUME IInv, LInv, crash = "none", free' = free, Live' \subseteq Live,
           \A r \in Live : ~req[r].done => r \in Live',
           \A r \in Live' : req'[r].slot = req[r].slot /\ req'[r].done = req[r].done
    PROVE  LInv'
  <1>1. NoSlotLeaks /\ DoneHoldsNothing /\ SlotTypes
    BY RequestFacts DEF LInv
  <1>2. \A r \in Live : req[r].slot \in Slot => r \in Live'
    BY <1>1, NoSlotAssumption DEF DoneHoldsNothing
  <1>3. NoSlotLeaks'
    BY <1>1, <1>2, NoneLost
  <1>4. DoneHoldsNothing'
    BY <1>1 DEF DoneHoldsNothing
  <1> QED  BY <1>3, <1>4 DEF LInv

\* Requests give their slots back.
LEMMA LeakReleased ==
    ASSUME IInv, LInv, crash = "none", NEW rs \in SUBSET Live, free' = Released(rs), Live' \subseteq Live,
           \A r \in Live \ rs : ~req[r].done => r \in Live' /\ req'[r].slot = req[r].slot,
           DoneHoldsNothing'
    PROVE  LInv'
  <1>1. NoSlotLeaks /\ DoneHoldsNothing /\ SlotTypes
    BY RequestFacts DEF LInv
  <1>2. IsFiniteSet(rs)
    BY PlaceFacts, FS_Subset
  <1>3. /\ \A s \in Slot : free[s] > 0 => free'[s] > 0
        /\ \A r \in rs : req[r].slot \in Slot => free'[req[r].slot] > 0
    BY <1>1, <1>2, ReleasedFree
  <1>4. \A r \in Live \ rs : req[r].slot \in Slot => r \in Live' /\ req'[r].slot = req[r].slot
    BY <1>1, NoSlotAssumption DEF DoneHoldsNothing
  <1>5. NoSlotLeaks'
    BY <1>1, <1>3, <1>4, NoneLost
  <1> QED  BY <1>5 DEF LInv

\* A request arrives, perhaps with a slot, and is put on the queue.
LEMMA LeakArrive ==
    ASSUME NothingDropped, IInv, LInv, crash = "none", NEW r \in AllRid, r \notin Live,
           NEW q, q.done = FALSE, Arrive(r, q),
           free' = free \/ \E s \in FreeSlots : q.slot = s /\ free' = Taken(s)
    PROVE  LInv'
  <1>1. PICK in \in Accepted({r}) : req' = IF r \in in THEN With(r, q) ELSE req
    BY DEF Arrive
  <1>2. in = {r}
    <2>1. queue \subseteq AllRid /\ {r} \in SUBSET AllRid /\ {r} \cap queue = {}
      BY PlaceFacts
    <2> QED  BY <1>1, <2>1, AllAccepted
  <1>3. /\ Live' = Live \cup {r} /\ req'[r] = q
        /\ \A x \in Live : x # r /\ req'[x] = req[x]
    BY <1>1, <1>2 DEF Live, With
  <1>4. NoSlotLeaks /\ DoneHoldsNothing /\ SlotTypes
    BY RequestFacts DEF LInv
  <1>5. DoneHoldsNothing'
    BY <1>3, <1>4 DEF DoneHoldsNothing
  <1>6. ASSUME NEW s \in Slot, free[s] > 0
        PROVE  free'[s] > 0 \/ \E x \in Live' : req'[x].slot = s
    <2>1. CASE free' = free
      BY <1>6, <2>1
    <2>2. ASSUME NEW t \in FreeSlots, q.slot = t, free' = Taken(t)
          PROVE  free'[s] > 0 \/ \E x \in Live' : req'[x].slot = s
      <3>1. CASE s = t
        BY <1>3, <2>2, <3>1
      <3>2. CASE s # t
        BY <1>4, <1>6, <2>2, <3>2 DEF Taken, SlotTypes
      <3> QED  BY <3>1, <3>2
    <2> QED  BY <2>1, <2>2
  <1>7. NoSlotLeaks'
    BY <1>3, <1>4, <1>6, NoneLost
  <1> QED  BY <1>5, <1>7 DEF LInv

\* The calls that make a request.
LEMMA LeakGenerate ==
    ASSUME NothingDropped, IInv, LInv, NEW r \in AllRid, NEW conv, NEW left, NEW invalid,
           \/ GenerateFresh(r, conv, left, invalid)
           \/ GenerateHydrated(r, conv, left, invalid)
           \/ GenerateHydrationFails(r, conv, left)
           \/ RestoreCreate(r, conv, left)
    PROVE  LInv'
  <1>1. crash = "none" /\ r \notin Live
    BY Zenon DEF GenerateFresh, GenerateHydrated, GenerateHydrationFails, RestoreCreate, Ready
  <1>2. CASE GenerateFresh(r, conv, left, invalid)
    <2>1. PICK q : q.done = FALSE /\ Arrive(r, q) /\ free' = free
      BY <1>2 DEF GenerateFresh
    <2> QED  BY Zenon, <1>1, <2>1, LeakArrive
  <1>3. CASE GenerateHydrated(r, conv, left, invalid)
    <2>1. PICK k \in Lookup(pending, r, conv), s \in FreeSlots, prompt \in {<<>>, <<Prompt>>} :
              /\ Arrive(r, [conv |-> HydratedConversation(pending, r, conv, k), slot |-> s,
                            restored |-> TRUE, tokens |-> prompt,
                            want |-> <<pending.entry[k].snap>> \o prompt, abort |-> invalid,
                            left |-> left, done |-> FALSE, spoilt |-> FALSE])
              /\ free' = Taken(s)
      BY Zenon, <1>3 DEF GenerateHydrated
    <2>2. PICK q : q = [conv |-> HydratedConversation(pending, r, conv, k), slot |-> s,
                        restored |-> TRUE, tokens |-> prompt,
                        want |-> <<pending.entry[k].snap>> \o prompt, abort |-> invalid,
                        left |-> left, done |-> FALSE, spoilt |-> FALSE]
      BY Zenon
    <2>3. q.done = FALSE /\ q.slot = s /\ Arrive(r, q)
      BY <2>1, <2>2
    <2> QED  BY Zenon, <1>1, <2>1, <2>3, LeakArrive
  <1>4. CASE GenerateHydrationFails(r, conv, left)
    <2>1. PICK q : q.done = FALSE /\ Arrive(r, q) /\ free' = free
      BY <1>4 DEF GenerateHydrationFails
    <2> QED  BY Zenon, <1>1, <2>1, LeakArrive
  <1>5. CASE RestoreCreate(r, conv, left)
    <2>1. PICK s \in FreeSlots :
              /\ Arrive(r, [conv |-> conv, slot |-> s, restored |-> FALSE,
                            tokens |-> <<conv, Prompt>>, want |-> <<conv, Prompt>>,
                            abort |-> FALSE, left |-> left, done |-> FALSE, spoilt |-> FALSE])
              /\ free' = Taken(s)
      BY Zenon, <1>5 DEF RestoreCreate
    <2>2. PICK q : q = [conv |-> conv, slot |-> s, restored |-> FALSE,
                        tokens |-> <<conv, Prompt>>, want |-> <<conv, Prompt>>,
                        abort |-> FALSE, left |-> left, done |-> FALSE, spoilt |-> FALSE]
      BY Zenon
    <2>3. q.done = FALSE /\ q.slot = s /\ Arrive(r, q)
      BY <2>1, <2>2
    <2> QED  BY Zenon, <1>1, <2>1, <2>3, LeakArrive
  <1> QED  BY <1>2, <1>3, <1>4, <1>5

\* A restore into a live request.
LEMMA LeakLive ==
    ASSUME IInv, LInv, NEW rid \in AllRid, NEW conv \in Conv, RestoreLive(rid, conv)
    PROVE  LInv'
  <1>1. PICK u, v : /\ u = Spoilt(req[rid])
                    /\ v = [u EXCEPT !.conv = conv, !.tokens = <<conv>>, !.want = <<conv>>]
    BY Zenon
  <1>2. rid \in Live /\ crash = "none" /\ free' = free /\ req' = With(rid, v)
    BY <1>1 DEF RestoreLive, RestoreOutcome, Ready
  <1>3. u \in Request /\ u.slot = req[rid].slot /\ u.done = req[rid].done
    BY <1>1, <1>2, RequestFacts, SpoiltFields
  <1>4. v.slot = req[rid].slot /\ v.done = req[rid].done
    BY <1>1, <1>3 DEF Request
  <1>5. Live' = Live /\ \A x \in Live : req'[x] = IF x = rid THEN v ELSE req[x]
    BY <1>2 DEF Live, With
  <1> QED  BY Zenon, <1>2, <1>4, <1>5, LeakKept

\* An abort: a waiting request that holds a slot stops the scheduler.
LEMMA LeakAbort ==
    ASSUME IInv, LInv, NEW r \in AllRid, AbortRequest(r)
    PROVE  LInv'
  <1>1. r \in Live /\ crash = "none" /\ free' = free
    BY DEF AbortRequest, Ready
  <1>2. NoSlotLeaks /\ DoneHoldsNothing /\ SlotTypes
    BY RequestFacts DEF LInv
  <1>3. CASE r \in queue
    <2>1. Live' = Live \ {r} /\ crash' = EarlyFree(req[r]) /\ \A x \in Live' : req'[x] = req[x]
      BY <1>3 DEF AbortRequest, Live, Without
    <2>2. DoneHoldsNothing'
      BY <1>2, <2>1 DEF DoneHoldsNothing
    <2>3. CASE req[r].slot = NoSlot
      <3>1. \A x \in Live : req[x].slot \in Slot => x \in Live'
        BY <2>1, <2>3, NoSlotAssumption
      <3>2. NoSlotLeaks'
        BY Zenon, <1>1, <1>2, <2>1, <3>1, NoneLost
      <3> QED  BY <2>2, <3>2 DEF LInv
    <2>4. CASE req[r].slot # NoSlot
      BY <2>1, <2>2, <2>4 DEF LInv, NoSlotLeaks, EarlyFree
    <2> QED  BY <2>3, <2>4
  <1>4. CASE r \notin queue
    <2>1. PICK v : v = [req[r] EXCEPT !.abort = TRUE]
      BY Zenon
    <2>2. req' = With(r, v)
      BY <1>4, <2>1 DEF AbortRequest
    <2>3. v.slot = req[r].slot /\ v.done = req[r].done
      BY <1>1, <2>1, RequestFacts DEF Request
    <2>4. Live' = Live /\ \A x \in Live : req'[x] = IF x = r THEN v ELSE req[x]
      BY <1>1, <2>2 DEF Live, With
    <2> QED  BY <1>1, <2>3, <2>4, LeakKept
  <1> QED  BY <1>3, <1>4

\* Steps that move requests from one place to another, and the merge, which
\* drops the finished ones and, without a timeout, no other.
LEMMA LeakMoves ==
    ASSUME NothingDropped, IInv, LInv,
           \/ \E rid \in AllRid, conv \in Conv : RestoreStaged(rid, conv)
           \/ \E late \in SUBSET queue : MergeLastBatch(late)
           \/ AdmitRequest
           \/ AdmissionEnds
    PROVE  LInv'
  <1>1. CASE \E late \in SUBSET queue : MergeLastBatch(late)
    <2>1. PICK late, over : MergeLastBatch(late) /\ over = Finished(last)
      BY <1>1
    <2>2. late = {} /\ crash = "none" /\ free' = free /\ req' = Without(late \cup over)
      BY <2>1 DEF MergeLastBatch, NothingDropped, Ready
    <2>3. \A r \in over : req[r].done
      BY <2>1 DEF Finished
    <2>4. Live' = Live \ over /\ \A r \in Live' : req'[r] = req[r]
      BY <2>2 DEF Live, Without
    <2> QED  BY <2>2, <2>3, <2>4, LeakKept
  <1>2. CASE ~\E late \in SUBSET queue : MergeLastBatch(late)
    <2>1. crash = "none" /\ free' = free /\ req' = req
      BY <1>2 DEF RestoreStaged, AdmitRequest, AdmissionEnds, Ready
    <2>2. Live' = Live
      BY <2>1 DEF Live
    <2> QED  BY <2>1, <2>2, LeakKept
  <1> QED  BY <1>1, <1>2

\* A refusal.
LEMMA LeakRefuse ==
    ASSUME IInv, LInv, NEW noToken, RefuseRequest(noToken)
    PROVE  LInv'
  <1>1. PICK r \in queue : /\ free' = Released({r})
                           /\ req' = With(r, [Spoilt(req[r]) EXCEPT !.slot = NoSlot])
    BY Zenon DEF RefuseRequest, First
  <1>2. PICK v : v = [Spoilt(req[r]) EXCEPT !.slot = NoSlot]
    BY Zenon
  <1>3. r \in Live /\ crash = "none" /\ DoneHoldsNothing
    BY PlaceFacts DEF RefuseRequest, Ready, LInv
  <1>4. v.slot = NoSlot
    <2>1. req[r] \in Request /\ Waits(req[r], content[req[r].slot])
      BY <1>3, RequestFacts, StateFacts
    <2> QED  BY <1>2, <2>1, RefusedWaits
  <1>5. Live' = Live /\ \A x \in Live : req'[x] = IF x = r THEN v ELSE req[x]
    BY <1>1, <1>2, <1>3 DEF Live, With
  <1>6. DoneHoldsNothing'
    BY <1>3, <1>4, <1>5 DEF DoneHoldsNothing
  <1>7. {r} \in SUBSET Live
    BY <1>3
  <1> QED  BY <1>1, <1>3, <1>5, <1>6, <1>7, LeakReleased

\* A prefill: the slots of the batch are those of its requests, or free again.
LEMMA LeakPrefill ==
    ASSUME IInv, LInv, RunPrefill
    PROVE  LInv'
  <1>1. crash = "none" /\ NoSlotLeaks /\ DoneHoldsNothing /\ SlotTypes
    BY RequestFacts DEF RunPrefill, Ready, LInv
  <1>2. CASE Allocations = {}
    <2>1. req' = req /\ Live' = Live /\ crash' = "alloc"
      BY <1>2 DEF RunPrefill, Live
    <2> QED  BY <1>1, <2>1 DEF LInv, NoSlotLeaks, DoneHoldsNothing
  <1>3. CASE Allocations # {}
    <2>1. PICK given \in Allocations : Prefill(SlotOf(given))
      BY <1>3 DEF RunPrefill
    <2>2. PICK slot : slot = SlotOf(given)
      OBVIOUS
    <2>3. OwnSlots(slot) /\ Prefill(slot)
      BY <2>1, <2>2, PrefillSlots
    <2>4. /\ Live' = Live /\ batch \subseteq Live
          /\ \A r \in batch : req'[r].slot = IF Ending(req[r]) THEN NoSlot ELSE slot[r]
          /\ \A x \in Live \ batch : req'[x] = req[x]
      BY Zenon, <2>3, PrefillRequests
    <2>5. ASSUME NEW r \in batch
          PROVE  req'[r].done <=> Ending(req[r])
      <3>1. PICK u : u = [req[r] EXCEPT !.slot = slot[r]]
        BY Zenon
      <3>2. req'[r] = Stepped(u)
        BY <2>3, <3>1, PrefillRequests
      <3>3. req[r] \in Request /\ slot[r] \in Slot
        BY Zenon, <2>3, <2>4, RequestFacts DEF OwnSlots
      <3>4. u \in Request /\ (Ending(u) <=> Ending(req[r]))
        BY <3>1, <3>3 DEF Request, Ending
      <3> QED  BY <3>2, <3>4, SteppedFields
    <2>6. DoneHoldsNothing'
      BY <1>1, <2>4, <2>5 DEF DoneHoldsNothing
    <2>7. /\ \A r \in batch : slot[r] \in Slot /\ free'[slot[r]] = IF Ending(req[r]) THEN 1 ELSE 0
          /\ \A s \in Slot : (\A r \in batch : slot[r] # s) => free'[s] = free[s]
      BY <2>3, PrefillFrees
    <2>8. ASSUME NEW r \in batch
          PROVE  free'[slot[r]] > 0 \/ \E x \in Live' : req'[x].slot = slot[r]
      <3>1. CASE Ending(req[r])
        BY <2>7, <3>1
      <3>2. CASE ~Ending(req[r])
        BY <2>4, <3>2
      <3> QED  BY <3>1, <3>2
    <2>9. ASSUME NEW s \in Slot, free[s] > 0
          PROVE  free'[s] > 0 \/ \E x \in Live' : req'[x].slot = s
      BY <2>7, <2>8, <2>9
    <2>10. ASSUME NEW x \in Live, req[x].slot \in Slot
           PROVE  free'[req[x].slot] > 0 \/ \E y \in Live' : req'[y].slot = req[x].slot
      <3>1. CASE x \in batch
        <4>1. slot[x] = req[x].slot
          BY <2>3, <2>10, <3>1, NoSlotAssumption DEF OwnSlots, Slotless
        <4> QED  BY <2>8, <3>1, <4>1
      <3>2. CASE x \notin batch
        BY <2>4, <3>2
      <3> QED  BY <3>1, <3>2
    <2>11. NoSlotLeaks'
      BY <1>1, <2>9, <2>10, NoneLost
    <2> QED  BY <2>6, <2>11 DEF LInv
  <1> QED  BY <1>2, <1>3

\* A decode step: requests in keep get a token, those in in wait again, others
\* have given their slots back or are finished.
LEMMA LeakDecoded ==
    ASSUME IInv, LInv, crash = "none", NEW keep \in SUBSET running, NEW in \in SUBSET running,
           NEW freed \in SUBSET Live, {r \in keep : Ending(req[r])} \subseteq freed,
           in \subseteq freed, keep \cap in = {}, free' = Released(freed), Live' \subseteq Live,
           \A r \in Live \ freed : ~req[r].done => r \in Live',
           \A r \in Live' : req'[r] = IF r \in in THEN Retracted(req[r]) ELSE Decoded(r, keep)
    PROVE  LInv'
  <1>1. DoneHoldsNothing /\ \A r \in Live : req[r] \in Request
    BY RequestFacts DEF LInv
  <1>2. ASSUME NEW r \in Live'
        PROVE  /\ req'[r].done => req'[r].slot = NoSlot
               /\ r \notin freed => req'[r].slot = req[r].slot
    <2>1. r \in Live /\ req[r] \in Request
      BY <1>1
    <2>2. CASE r \in in
      BY <2>1, <2>2, RetractedFields
    <2>3. CASE r \notin in /\ r \in keep
      <3>1. req'[r] = Stepped(req[r])
        BY <2>3 DEF Decoded
      <3>2. /\ Stepped(req[r]).done <=> Ending(req[r])
            /\ Stepped(req[r]).slot = IF Ending(req[r]) THEN NoSlot ELSE req[r].slot
        BY Zenon, <2>1, SteppedFields
      <3>3. Ending(req[r]) => r \in freed
        BY <2>3
      <3> QED  BY Zenon, <3>1, <3>2, <3>3
    <2>4. CASE r \notin in /\ r \notin keep
      BY <1>1, <2>1, <2>4 DEF Decoded, DoneHoldsNothing
    <2> QED  BY Zenon, <2>2, <2>3, <2>4
  <1>3. DoneHoldsNothing'
    BY <1>2 DEF DoneHoldsNothing
  <1>4. \A r \in Live \ freed : ~req[r].done => r \in Live' /\ req'[r].slot = req[r].slot
    BY Zenon, <1>2
  <1> QED  BY <1>3, <1>4, LeakReleased

\* A decode step, with or without a retraction: with room in the queue, what is
\* retracted waits again.
LEMMA LeakDecode ==
    ASSUME NothingDropped, IInv, LInv,
           \/ DecodeBatch
           \/ \E back \in SUBSET running, doomed \in SUBSET running : RetractDecode(back, doomed)
    PROVE  LInv'
  <1>1. PICK over : over = Finished(running)
    OBVIOUS
  <1>2. /\ over \subseteq running /\ running \subseteq Live
        /\ \A r \in running : r \in over <=> req[r].done
    BY <1>1, PlaceFacts DEF Finished
  <1>3. CASE DecodeBatch
    <2>1. PICK keep, freed : keep = running \ over /\ freed = {r \in keep : Ending(req[r])}
      BY Zenon
    <2>2. /\ crash = "none" /\ free' = Released(freed)
          /\ req' = [r \in Live \ over |-> Decoded(r, keep)]
      BY Zenon, <1>1, <1>3, <2>1 DEF DecodeBatch, Ready
    <2>3. Live' = Live \ over /\ \A r \in Live' : req'[r] = Decoded(r, keep)
      BY <2>2 DEF Live
    <2>4. keep \in SUBSET running /\ freed \in SUBSET Live
      BY <1>2, <2>1
    <2>5. \A r \in Live \ freed : ~req[r].done => r \in Live'
      BY <1>2, <2>3
    <2>6. \A r \in Live' : req'[r] = IF r \in {} THEN Retracted(req[r]) ELSE Decoded(r, keep)
      BY <2>3
    <2>7. /\ {} \in SUBSET running /\ {} \subseteq freed /\ keep \cap {} = {}
          /\ {r \in keep : Ending(req[r])} \subseteq freed /\ Live' \subseteq Live
      BY <2>1, <2>3
    <2> QED  BY Zenon, <2>2, <2>4, <2>5, <2>6, <2>7, LeakDecoded
  <1>4. CASE \E back \in SUBSET running, doomed \in SUBSET running : RetractDecode(back, doomed)
    <2>1. PICK back \in SUBSET running, doomed \in SUBSET running : RetractDecode(back, doomed)
      BY <1>4
    <2>2. PICK keep, freed : /\ keep = (running \ over) \ (back \cup doomed)
                             /\ freed = back \cup doomed \cup {r \in keep : Ending(req[r])}
      BY Zenon
    <2>3. crash = "none" /\ free' = Released(freed) /\ back \cap doomed = {}
      BY Zenon, <1>1, <2>1, <2>2 DEF RetractDecode, Ready
    <2>4. PICK in \in Accepted(back) :
              req' = [r \in Live \ (over \cup doomed \cup (back \ in)) |->
                         IF r \in in THEN Retracted(req[r]) ELSE Decoded(r, keep)]
      BY <1>1, <2>1, <2>2 DEF RetractDecode
    <2>5. in = back
      <3>1. queue \subseteq AllRid /\ back \in SUBSET AllRid /\ back \cap queue = {}
        BY PlaceFacts
      <3> QED  BY <2>4, <3>1, AllAccepted
    <2>6. /\ Live' = Live \ (over \cup doomed)
          /\ \A r \in Live' : req'[r] = IF r \in back THEN Retracted(req[r]) ELSE Decoded(r, keep)
      BY <2>4, <2>5 DEF Live
    <2>7. keep \in SUBSET running /\ freed \in SUBSET Live /\ keep \cap back = {}
      BY <1>2, <2>2
    <2>8. \A r \in Live \ freed : ~req[r].done => r \in Live'
      BY <1>2, <2>2, <2>6
    <2>9. /\ back \subseteq freed /\ {r \in keep : Ending(req[r])} \subseteq freed
          /\ Live' \subseteq Live
      BY <2>2, <2>6
    <2> QED  BY Zenon, <2>3, <2>6, <2>7, <2>8, <2>9, LeakDecoded
  <1> QED  BY <1>3, <1>4

\* Every step.
LEMMA LeakNext ==
    ASSUME NothingDropped, IInv, LInv, [Next]_vars
    PROVE  LInv'
  <1>1. CASE Inputs
    <2>1. ASSUME NEW r \in Rid, NEW conv, NEW left, NEW invalid,
                 \/ GenerateFresh(r, conv, left, invalid) \/ GenerateHydrated(r, conv, left, invalid)
                 \/ GenerateHydrationFails(r, conv, left)
          PROVE  LInv'
      <3>1. r \in AllRid
        BY DEF AllRid
      <3> QED  BY <2>1, <3>1, LeakGenerate
    <2>2. ASSUME NEW r \in NewRid, NEW conv, NEW left, RestoreCreate(r, conv, left)
          PROVE  LInv'
      <3>1. r \in AllRid
        BY DEF AllRid
      <3> QED  BY <2>2, <3>1, LeakGenerate
    <2>3. ASSUME NEW rid \in AllRid, NEW conv \in Conv, RestoreStaged(rid, conv) \/ RestoreLive(rid, conv)
          PROVE  LInv'
      BY <2>3, LeakMoves, LeakLive
    <2>4. ASSUME NEW r \in AllRid, AbortRequest(r)
          PROVE  LInv'
      BY <2>4, LeakAbort
    <2> QED  BY Zenon, <1>1, <2>1, <2>2, <2>3, <2>4 DEF Inputs
  <1>2. CASE Round
    <2>1. CASE \E noToken \in BOOLEAN : RefuseRequest(noToken)
      BY <2>1, LeakRefuse
    <2>2. CASE RunPrefill
      BY <2>2, LeakPrefill
    <2>3. CASE \/ DecodeBatch
               \/ \E back \in SUBSET running, doomed \in SUBSET running : RetractDecode(back, doomed)
      BY <2>3, LeakDecode
    <2>4. CASE (\E late \in SUBSET queue : MergeLastBatch(late)) \/ AdmitRequest \/ AdmissionEnds
      BY <2>4, LeakMoves
    <2> QED  BY Zenon, <1>2, <2>1, <2>2, <2>3, <2>4 DEF Round
  <1>3. CASE UNCHANGED vars
    <2>1. free' = free /\ req' = req /\ crash' = crash
      BY <1>3 DEF vars
    <2> QED  BY <2>1 DEF LInv, NoSlotLeaks, DoneHoldsNothing, Live
  <1> QED  BY <1>1, <1>2, <1>3 DEF Next

\* In the default configuration every slot is free or held by a live request,
\* under refusals, retractions, aborts and restores, until an assertion fails.
THEOREM NoLeaks ==
    ASSUME NothingDropped
    PROVE  Spec => []NoSlotLeaks
  <1>1. Init => LInv
    BY DEF Init, LInv, NoSlotLeaks, DoneHoldsNothing, Live
  <1>2. IInv /\ LInv /\ [Next]_vars => LInv'
    BY LeakNext
  <1>3. LInv => NoSlotLeaks
    BY DEF LInv
  <1> QED  BY <1>1, <1>2, <1>3, Inductive, PTL DEF Spec

=============================================================================
