---------------------- MODULE RestoreSchedulerInvariant ----------------------
(***************************************************************************)
(* The inductive invariant of RestoreScheduler, what it says of one        *)
(* request, of the queue and of the slots, and that the calls and requests *)
(* that come in keep it.                                                   *)
(***************************************************************************)
EXTENDS RestoreScheduler, PendingRegistryProofs

\* There is much in scope: the provers get more than their default time.
USE SMTT(30), ZenonT(30)

-----------------------------------------------------------------------------
(***************************************************************************)
(* The inductive invariant                                                 *)
(***************************************************************************)
\* What is staged is the state of the conversation it is staged for.
StagedIsOwn ==
    /\ Good(pending, {}) /\ Cardinality(Keys(pending)) <= MaxEntries
    /\ \A k \in Keys(pending) :
          pending.entry[k].conv \in Conv /\ pending.entry[k].snap = pending.entry[k].conv

\* Which batches are empty where in the event loop.
Phases ==
    /\ pc # "inputs" => last = {}
    /\ pc \in {"inputs", "decode"} => batch = {}

\* What a request wants is of its own conversation, and is what it prefills,
\* after what its slot holds if it was restored; unless its state was spoilt.
Wants(q) ==
    /\ Range(q.tokens) \subseteq Range(q.want) /\ Range(q.want) \subseteq {Prompt, q.conv}
    /\ ~q.spoilt /\ ~q.restored => q.tokens = q.want

\* A request q that was not prefilled yet, when its slot holds c.
Waits(q, c) ==
    /\ Wants(q) /\ ~q.done
    /\ q.restored /\ q.slot # NoSlot => Range(c) \subseteq Range(q.want)
    /\ q.restored /\ ~q.spoilt => q.slot # NoSlot /\ c \o q.tokens = q.want

\* A request q that was prefilled, when its slot holds c.
Runs(q, c) ==
    /\ Wants(q)
    /\ ~q.done => q.slot # NoSlot /\ Range(c) \subseteq Range(q.want) /\ (q.spoilt \/ c = q.want)

IInv ==
    /\ TypeOK /\ IsFiniteSet(Live)
    /\ StagedIsOwn /\ SlotsNotShared /\ Phases /\ RunningWithinLimit
    /\ \A r \in queue \cup batch : Waits(req[r], content[req[r].slot])
    /\ \A r \in Scheduled : Runs(req[r], content[req[r].slot])

-----------------------------------------------------------------------------
(***************************************************************************)
(* One request                                                             *)
(***************************************************************************)
History == Seq(Conv \cup {Prompt})

\* What two histories hold, one after the other.
LEMMA Absorbing ==
    ASSUME NEW a \in History, NEW b \in History
    PROVE  a \o b \in History /\ Range(a \o b) = Range(a) \cup Range(b)
  <1>1. a \in Seq(Conv \cup {Prompt}) /\ b \in Seq(Conv \cup {Prompt})
    BY DEF History
  <1>2. a \o b \in Seq(Conv \cup {Prompt})
    BY <1>1
  <1>3. Range(a \o b) = Range(a) \cup Range(b)
    <2>1. PICK c : c = a \o b
      BY Zenon
    <2>2. PICK m \in Nat, n \in Nat : m = Len(a) /\ n = Len(b)
      BY <1>1
    <2>3. DOMAIN a = 1..m /\ DOMAIN b = 1..n /\ DOMAIN c = 1..(m + n)
      BY <1>1, <2>1, <2>2
    <2>4. \A i \in 1..(m + n) : c[i] = IF i <= m THEN a[i] ELSE b[i - m]
      BY <1>1, <2>1, <2>2
    <2>5. \A i \in 1..m : i \in 1..(m + n) /\ c[i] = a[i]
      BY <2>4
    <2>6. \A j \in 1..n : m + j \in 1..(m + n) /\ c[m + j] = b[j]
      BY <2>4
    <2>7. Range(c) \subseteq Range(a) \cup Range(b)
      BY <2>3, <2>4 DEF Range
    <2>8. Range(a) \subseteq Range(c)
      BY <2>3, <2>5 DEF Range
    <2>9. Range(b) \subseteq Range(c)
      BY <2>3, <2>6 DEF Range
    <2> QED  BY <2>1, <2>7, <2>8, <2>9
  <1> QED  BY <1>2, <1>3 DEF History

\* The fields of what the steps make of a request: its state is lost.
LEMMA SpoiltFields ==
    ASSUME NEW q \in Request
    PROVE  /\ Spoilt(q) \in Request
           /\ Spoilt(q).conv = q.conv /\ Spoilt(q).slot = q.slot /\ Spoilt(q).tokens = q.tokens
           /\ Spoilt(q).want = q.want /\ Spoilt(q).done = q.done
           /\ Spoilt(q).restored = q.restored
           /\ Spoilt(q).spoilt <=> q.spoilt \/ q.restored
    BY DEF Spoilt, Request

\* A token, and perhaps the end.
LEMMA SteppedFields ==
    ASSUME NEW q \in Request
    PROVE  /\ Stepped(q) \in Request
           /\ Stepped(q).conv = q.conv /\ Stepped(q).tokens = q.tokens /\ Stepped(q).want = q.want
           /\ Stepped(q).restored = q.restored /\ Stepped(q).spoilt = q.spoilt
           /\ Stepped(q).done <=> Ending(q)
           /\ Stepped(q).slot = IF Ending(q) THEN NoSlot ELSE q.slot
  <1> DEFINE less == IF q.left = 0 THEN 0 ELSE q.left - 1
             end == IF Ending(q) THEN TRUE ELSE FALSE
             slot == IF Ending(q) THEN NoSlot ELSE q.slot
  <1>1. less \in 0..MaxTokens
    BY BoundsAssumption DEF Request
  <1>2. end \in BOOLEAN /\ slot \in Slot \cup {NoSlot}
    BY DEF Request
  <1>3. Stepped(q) = [q EXCEPT !.left = less, !.done = end, !.slot = slot]
    BY Zenon DEF Stepped, Ending
  <1>4. end <=> Ending(q)
    OBVIOUS
  <1> HIDE DEF less, end
  <1> QED  BY Zenon, <1>1, <1>2, <1>3, <1>4 DEF Request

\* A retraction.
LEMMA RetractedFields ==
    ASSUME NEW q \in Request
    PROVE  /\ Retracted(q) \in Request
           /\ Retracted(q).conv = q.conv /\ Retracted(q).tokens = q.tokens
           /\ Retracted(q).want = q.want /\ Retracted(q).done = q.done
           /\ ~Retracted(q).restored /\ Retracted(q).slot = NoSlot
           /\ Retracted(q).spoilt <=> q.spoilt \/ q.restored
  <1>1. PICK u : u = Spoilt(q)
    OBVIOUS
  <1>2. Retracted(q) = [u EXCEPT !.slot = NoSlot, !.restored = FALSE]
    BY <1>1 DEF Retracted
  <1>3. /\ u \in Request
        /\ u.conv = q.conv /\ u.tokens = q.tokens /\ u.want = q.want /\ u.done = q.done
        /\ u.spoilt <=> q.spoilt \/ q.restored
    BY <1>1, SpoiltFields
  <1> QED  BY Zenon, <1>2, <1>3 DEF Request

\* A prefill of a request whose slot holds c: a request that was given a fresh
\* slot, or was not restored, starts from nothing.
LEMMA PrefillRuns ==
    ASSUME NEW q \in Request, NEW c \in History, NEW i \in History, NEW s \in Slot, Waits(q, c),
           i = IF q.restored /\ q.slot # NoSlot THEN c ELSE <<>>
    PROVE  /\ i \o q.tokens \in History
           /\ Stepped([q EXCEPT !.slot = s]) \in Request
           /\ Stepped([q EXCEPT !.slot = s]).slot = IF Ending(q) THEN NoSlot ELSE s
           /\ Runs(Stepped([q EXCEPT !.slot = s]), i \o q.tokens)
  <1>1. PICK u : u = [q EXCEPT !.slot = s]
    BY Zenon
  <1>2. /\ u \in Request /\ u.conv = q.conv /\ u.tokens = q.tokens /\ u.want = q.want
        /\ u.restored = q.restored /\ u.spoilt = q.spoilt /\ u.slot = s
        /\ Ending(u) <=> Ending(q)
    BY <1>1 DEF Request, Ending
  <1>3. q.tokens \in History /\ q.want \in History
    BY DEF Request, History
  <1>4. i \o q.tokens \in History /\ Range(i \o q.tokens) = Range(i) \cup Range(q.tokens)
    BY <1>3, Absorbing
  <1>5. <<>> \o q.tokens = q.tokens /\ Range(<<>>) = {}
    BY <1>3 DEF History, Range
  <1>6. Range(i) \subseteq Range(q.want)
    BY <1>5 DEF Waits
  <1>7. q.spoilt \/ i \o q.tokens = q.want
    BY Zenon, <1>5 DEF Waits, Wants
  <1>8. PICK v : v = Stepped(u)
    OBVIOUS
  <1>9. /\ v \in Request /\ v.conv = q.conv /\ v.tokens = q.tokens /\ v.want = q.want
        /\ v.restored = q.restored /\ v.spoilt = q.spoilt
        /\ v.done <=> Ending(q)
        /\ v.slot = IF Ending(q) THEN NoSlot ELSE s
    BY <1>2, <1>8, SteppedFields
  <1>10. Wants(q)
    BY DEF Waits
  <1>11. Wants(v)
    BY <1>9, <1>10 DEF Wants
  <1>12. Range(i \o q.tokens) \subseteq Range(q.want)
    BY <1>4, <1>6, <1>10 DEF Wants
  <1>13. Runs(v, i \o q.tokens)
    BY Zenon, <1>7, <1>9, <1>11, <1>12, NoSlotAssumption DEF Runs
  <1> QED  BY <1>1, <1>4, <1>8, <1>9, <1>13

\* A decode step, an abort and a retraction of a request that runs.
LEMMA RunningSteps ==
    ASSUME NEW q \in Request, NEW c, Runs(q, c), ~q.done
    PROVE  /\ Runs(Stepped(q), c)
           /\ [q EXCEPT !.abort = TRUE] \in Request /\ [q EXCEPT !.abort = TRUE].slot = q.slot
           /\ Runs([q EXCEPT !.abort = TRUE], c)
           /\ \A d : Waits(Retracted(q), d)
  <1>1. Runs(Stepped(q), c)
    BY SteppedFields DEF Runs, Wants
  <1>2. /\ [q EXCEPT !.abort = TRUE] \in Request /\ [q EXCEPT !.abort = TRUE].slot = q.slot
        /\ Runs([q EXCEPT !.abort = TRUE], c)
    BY Zenon DEF Runs, Wants, Request
  <1>3. \A d : Waits(Retracted(q), d)
    BY RetractedFields DEF Runs, Wants, Waits
  <1> QED  BY <1>1, <1>2, <1>3

\* Short histories.
LEMMA SmallRanges ==
    ASSUME NEW x \in Conv \cup {Prompt}, NEW y \in Conv \cup {Prompt}
    PROVE  /\ <<>> \in History /\ <<x>> \in History /\ <<x, y>> \in History
           /\ Range(<<>>) = {} /\ Range(<<x>>) = {x} /\ Range(<<x, y>>) = {x, y}
  <1>1. <<>> \in History /\ <<x>> \in History /\ <<x, y>> \in History
    BY DEF History
  <1>2. Range(<<>>) = {} /\ Range(<<x>>) = {x}
    BY DEF Range
  <1>3. Range(<<x, y>>) = {x, y}
    BY DEF Range
  <1> QED  BY <1>1, <1>2, <1>3

\* A refusal of a waiting request, which loses its slot.
LEMMA RefusedWaits ==
    ASSUME NEW q \in Request, NEW c, Waits(q, c)
    PROVE  /\ [Spoilt(q) EXCEPT !.slot = NoSlot] \in Request
           /\ [Spoilt(q) EXCEPT !.slot = NoSlot].slot = NoSlot
           /\ \A d : Waits([Spoilt(q) EXCEPT !.slot = NoSlot], d)
  <1>1. PICK u : u = Spoilt(q)
    OBVIOUS
  <1>2. /\ u \in Request /\ u.conv = q.conv /\ u.tokens = q.tokens /\ u.want = q.want
        /\ u.done = q.done /\ u.restored = q.restored
        /\ u.spoilt <=> q.spoilt \/ q.restored
    BY <1>1, SpoiltFields
  <1>3. PICK v : v = [u EXCEPT !.slot = NoSlot]
    BY Zenon
  <1>4. /\ v \in Request /\ v.conv = q.conv /\ v.tokens = q.tokens /\ v.want = q.want
        /\ v.done = q.done /\ v.restored = q.restored /\ v.slot = NoSlot
        /\ v.spoilt <=> q.spoilt \/ q.restored
    BY <1>2, <1>3 DEF Request
  <1>5. \A d : Waits(v, d)
    BY <1>4 DEF Waits, Wants
  <1> QED  BY <1>1, <1>3, <1>4, <1>5

\* A restore into a live request: its slot holds the history, and nothing else
\* is wanted.
LEMMA LiveRestored ==
    ASSUME NEW q \in Request, NEW conv \in Conv, q.slot # NoSlot, NEW v,
           v = [Spoilt(q) EXCEPT !.conv = conv, !.tokens = <<conv>>, !.want = <<conv>>]
    PROVE  /\ v \in Request /\ v.slot = q.slot
           /\ ~q.done => Waits(v, <<conv>>)
           /\ Runs(v, <<conv>>)
  <1>1. PICK u : u = Spoilt(q)
    OBVIOUS
  <1>2. /\ u \in Request /\ u.done = q.done /\ u.restored = q.restored /\ u.slot = q.slot
        /\ u.spoilt <=> q.spoilt \/ q.restored
    BY <1>1, SpoiltFields
  <1>3. <<conv>> \in Seq(Conv \cup {Prompt}) /\ Range(<<conv>>) = {conv} /\ conv \in Key
    BY Zenon, SmallRanges, ConvAssumption DEF Key, History
  <1>4. v = [u EXCEPT !.conv = conv, !.tokens = <<conv>>, !.want = <<conv>>]
    BY <1>1
  <1>5. /\ v \in Request /\ v.conv = conv /\ v.tokens = <<conv>> /\ v.want = <<conv>>
        /\ v.done = q.done /\ v.restored = q.restored /\ v.slot = q.slot
        /\ v.spoilt <=> q.spoilt \/ q.restored
    BY Zenon, <1>2, <1>3, <1>4 DEF Request
  <1>6. Wants(v)
    BY <1>3, <1>5 DEF Wants
  <1> QED  BY <1>3, <1>5, <1>6 DEF Waits, Runs

\* A new request.
LEMMA NewWaits ==
    ASSUME NEW q, NEW c, q.done = FALSE,
           Range(q.tokens) \subseteq Range(q.want), Range(q.want) \subseteq {Prompt, q.conv},
           ~q.restored => q.tokens = q.want,
           q.restored => q.slot # NoSlot /\ c \o q.tokens = q.want /\ Range(c) \subseteq Range(q.want)
    PROVE  Waits(q, c)
    BY DEF Waits, Wants

-----------------------------------------------------------------------------
(***************************************************************************)
(* The queue                                                               *)
(***************************************************************************)
\* Requests that leave do not disturb the order of the others.
LEMMA LeaveLine ==
    ASSUME Line(ahead, queue), NEW rs, Leave(rs)
    PROVE  Line(ahead', queue')
  <1>1. /\ queue' = queue \ rs
        /\ \A e : e \in ahead' <=> e \in ahead /\ e[1] \notin rs /\ e[2] \notin rs
    BY DEF Leave
  <1>2. ahead' \subseteq queue' \X queue'
    BY <1>1 DEF Line
  <1>3. \A r1, r2 \in queue' : <<r1, r2>> \in ahead' => <<r2, r1>> \notin ahead'
    BY <1>1 DEF Line
  <1>4. ASSUME NEW S \in SUBSET queue', S # {}
        PROVE  \E r1 \in S : \A r2 \in S \ {r1} : <<r1, r2>> \in ahead'
    <2>1. S \in SUBSET queue
      BY <1>1
    <2>2. PICK r1 \in S : \A r2 \in S \ {r1} : <<r1, r2>> \in ahead
      BY <1>4, <2>1 DEF Line
    <2>3. \A r2 \in S \ {r1} : <<r1, r2>> \in ahead'
      BY <1>1, <2>2
    <2> QED  BY <2>3
  <1> QED  BY <1>2, <1>3, <1>4 DEF Line

\* Requests that join are behind those that wait.
LEMMA JoinLine ==
    ASSUME Line(ahead, queue), NEW rs, rs \cap queue = {}, Join(rs)
    PROVE  Line(ahead', queue')
  <1>1. PICK o : Line(o, rs) /\ ahead' = ahead \cup (queue \X rs) \cup o
    BY DEF Join
  <1>2. queue' = queue \cup rs
    BY DEF Join
  <1>3. ahead' \subseteq queue' \X queue'
    BY <1>1, <1>2 DEF Line
  <1>4. \A r1, r2 \in queue' : <<r1, r2>> \in ahead' => <<r2, r1>> \notin ahead'
    BY <1>1, <1>2 DEF Line
  <1>5. ASSUME NEW S \in SUBSET queue', S # {}
        PROVE  \E r1 \in S : \A r2 \in S \ {r1} : <<r1, r2>> \in ahead'
    <2>1. CASE S \subseteq rs
      <3>1. PICK r1 \in S : \A r2 \in S \ {r1} : <<r1, r2>> \in o
        BY Zenon, <1>1, <1>5, <2>1 DEF Line
      <3> QED  BY <1>1, <3>1
    <2>2. CASE ~(S \subseteq rs)
      <3>1. S \ rs \in SUBSET queue /\ S \ rs # {}
        BY <1>2, <2>2
      <3>2. PICK r1 \in S \ rs : \A r2 \in (S \ rs) \ {r1} : <<r1, r2>> \in ahead
        BY Zenon, <3>1 DEF Line
      <3>3. r1 \in queue
        BY <3>1
      <3>4. \A r2 \in S \ {r1} : <<r1, r2>> \in ahead'
        BY <1>1, <3>2, <3>3
      <3> QED  BY <3>2, <3>4
    <2> QED  BY <2>1, <2>2
  <1> QED  BY <1>3, <1>4, <1>5 DEF Line

\* The queue stays within its limit.
LEMMA AcceptedFits ==
    ASSUME IsFiniteSet(queue), NEW rs, IsFiniteSet(rs), rs \cap queue = {}, NEW in \in Accepted(rs)
    PROVE  in \subseteq rs /\ Cardinality(queue \cup in) <= MaxQueued
  <1>1. in \subseteq rs /\ Cardinality(queue) + Cardinality(in) <= MaxQueued
    BY BoundsAssumption DEF Accepted
  <1>2. IsFiniteSet(in)
    BY <1>1, FS_Subset
  <1>3. queue \cap in = {}
    BY <1>1
  <1>4. Cardinality(queue \cup in) = Cardinality(queue) + Cardinality(in) - Cardinality(queue \cap in)
    BY <1>2, FS_Union
  <1>5. Cardinality(queue \cap in) = 0
    BY Zenon, <1>3, FS_EmptySet
  <1>6. Cardinality(queue) \in Nat /\ Cardinality(in) \in Nat
    BY <1>2, FS_CardinalityType
  <1> QED  BY <1>1, <1>4, <1>5, <1>6

-----------------------------------------------------------------------------
(***************************************************************************)
(* Slots                                                                   *)
(***************************************************************************)
\* The size of a set whose elements are all equal.
LEMMA AtMostOne ==
    ASSUME NEW T, \A x, y \in T : x = y
    PROVE  Cardinality(T) = IF T = {} THEN 0 ELSE 1
  <1>1. CASE T = {}
    BY <1>1, FS_EmptySet
  <1>2. CASE T # {}
    <2>1. PICK x : T = {x}
      BY <1>2
    <2> QED  BY <1>2, <2>1, FS_Singleton
  <1> QED  BY <1>1, <1>2

SlotTypes == free \in [Slot -> Nat] /\ \A r \in Live : req[r].slot \in Slot \cup {NoSlot}

\* Requests give their slots back.
LEMMA SlotsReleased ==
    ASSUME SlotTypes, SlotsNotShared, NEW rs \in SUBSET Live, free' = Released(rs),
           Live' \subseteq Live,
           \A r \in Live' : req'[r].slot \in {req[r].slot, NoSlot},
           \A r \in Live' \cap rs : req'[r].slot = NoSlot
    PROVE  free' \in [Slot -> Nat] /\ SlotsNotShared'
  <1> DEFINE T(s) == {r \in rs : req[r].slot = s}
  <1>1. \A s \in Slot : free'[s] = free[s] + Cardinality(T(s))
    BY DEF Released
  <1>2. DOMAIN free' = Slot
    BY DEF Released
  <1>3. ASSUME NEW s \in Slot
        PROVE  Cardinality(T(s)) = IF T(s) = {} THEN 0 ELSE 1
    <2>1. \A x, y \in T(s) : x = y
      BY NoSlotAssumption DEF SlotsNotShared
    <2> QED  BY <2>1, AtMostOne
  <1>4. ASSUME NEW s \in Slot
        PROVE  T(s) # {} => free[s] = 0
    BY NoSlotAssumption DEF SlotsNotShared
  <1>5. \A s \in Slot : free[s] \in Nat /\ free[s] <= 1
    BY DEF SlotTypes, SlotsNotShared
  <1> HIDE DEF T
  <1>6. \A s \in Slot : free'[s] = IF T(s) = {} THEN free[s] ELSE 1
    BY <1>1, <1>3, <1>4, <1>5
  <1>7. free' \in [Slot -> Nat]
    <2>1. free' = [s \in Slot |-> free'[s]]
      BY DEF Released
    <2> QED  BY <1>5, <1>6, <2>1
  <1>8. \A s \in Slot : free'[s] <= 1
    BY <1>5, <1>6
  <1>9. ASSUME NEW r \in Live', req'[r].slot # NoSlot
        PROVE  free'[req'[r].slot] = 0
    <2>1. r \in Live /\ r \notin rs /\ req'[r].slot = req[r].slot /\ req[r].slot \in Slot
      BY <1>9 DEF SlotTypes
    <2>2. T(req[r].slot) = {}
      BY <2>1, NoSlotAssumption DEF SlotsNotShared, T
    <2> QED  BY <1>6, <2>1, <2>2, NoSlotAssumption DEF SlotsNotShared
  <1>10. \A r1, r2 \in Live' : req'[r1].slot = req'[r2].slot => r1 = r2 \/ req'[r1].slot = NoSlot
    BY DEF SlotsNotShared
  <1> QED  BY <1>7, <1>8, <1>9, <1>10 DEF SlotsNotShared

\* Nothing is taken or given back.
LEMMA SlotsKept ==
    ASSUME SlotTypes, SlotsNotShared, free' = free, Live' \subseteq Live,
           \A r \in Live' : req'[r].slot \in {req[r].slot, NoSlot}
    PROVE  free' \in [Slot -> Nat] /\ SlotsNotShared'
  <1>1. free' \in [Slot -> Nat] /\ \A s \in Slot : free'[s] <= 1
    BY DEF SlotTypes, SlotsNotShared
  <1>2. \A r \in Live' : req'[r].slot # NoSlot => free'[req'[r].slot] = 0
    BY DEF SlotsNotShared
  <1>3. \A r1, r2 \in Live' : req'[r1].slot = req'[r2].slot => r1 = r2 \/ req'[r1].slot = NoSlot
    BY DEF SlotsNotShared
  <1> QED  BY <1>1, <1>2, <1>3 DEF SlotsNotShared

\* A new request may take a free slot.
LEMMA SlotTaken ==
    ASSUME SlotTypes, SlotsNotShared, NEW s \in FreeSlots, free' = Taken(s), NEW r, r \notin Live,
           Live' \subseteq Live \cup {r}, \A x \in Live' \ {r} : req'[x].slot = req[x].slot,
           r \in Live' => req'[r].slot = s
    PROVE  free' \in [Slot -> Nat] /\ SlotsNotShared'
  <1>1. s \in Slot /\ free[s] = 1
    BY DEF FreeSlots, SlotTypes, SlotsNotShared
  <1>2. \A x \in Slot : free'[x] = IF x = s THEN 0 ELSE free[x]
    BY <1>1 DEF Taken, SlotTypes
  <1>3. free' \in [Slot -> Nat]
    BY <1>1 DEF Taken, SlotTypes
  <1>4. \A x \in Slot : free'[x] <= 1
    BY <1>2 DEF SlotsNotShared
  <1>5. \A x \in Live : req[x].slot # s
    BY <1>1, NoSlotAssumption DEF SlotsNotShared
  <1>6. ASSUME NEW x \in Live', req'[x].slot # NoSlot
        PROVE  free'[req'[x].slot] = 0
    <2>1. CASE x = r
      BY <1>1, <1>2, <2>1
    <2>2. CASE x # r
      <3>1. x \in Live /\ req'[x].slot = req[x].slot /\ req[x].slot \in Slot
        BY <1>6, <2>2 DEF SlotTypes
      <3> QED  BY <1>2, <1>6, <3>1 DEF SlotsNotShared
    <2> QED  BY <2>1, <2>2
  <1>7. \A x, y \in Live' : req'[x].slot = req'[y].slot => x = y \/ req'[x].slot = NoSlot
    BY <1>5 DEF SlotsNotShared
  <1> QED  BY <1>3, <1>4, <1>6, <1>7 DEF SlotsNotShared

-----------------------------------------------------------------------------
(***************************************************************************)
(* What the invariant says of the places, the requests and the slots       *)
(***************************************************************************)
\* Every live request is in one place.
LEMMA PlaceFacts ==
    ASSUME IInv
    PROVE  /\ Live \subseteq AllRid /\ Live = queue \cup batch \cup last \cup running
           /\ queue \cap batch = {} /\ queue \cap last = {} /\ queue \cap running = {}
           /\ batch \cap last = {} /\ batch \cap running = {} /\ last \cap running = {}
           /\ Line(ahead, queue) /\ Cardinality(queue) <= MaxQueued
           /\ IsFiniteSet(Live)
    BY DEF IInv, TypeOK, Scheduled

\* Requests, slots and their contents.
LEMMA RequestFacts ==
    ASSUME IInv
    PROVE  /\ \A r \in Live : req[r] \in Request /\ req[r].slot \in Slot \cup {NoSlot}
           /\ SlotTypes /\ SlotsNotShared
           /\ DOMAIN content = Slot /\ \A s \in Slot : content[s] \in History
           /\ StagedIsOwn
  <1>1. \A r \in Live : req[r] \in Request
    BY DEF IInv, TypeOK
  <1>2. \A r \in Live : req[r].slot \in Slot \cup {NoSlot}
    BY <1>1 DEF Request
  <1>3. free \in [Slot -> Nat] /\ DOMAIN content = Slot /\ \A s \in Slot : content[s] \in History
    BY DEF IInv, TypeOK, History
  <1> QED  BY <1>1, <1>2, <1>3 DEF SlotTypes, IInv

\* What the slots hold.
LEMMA StateFacts ==
    ASSUME IInv
    PROVE  /\ \A r \in queue \cup batch : Waits(req[r], content[req[r].slot])
           /\ \A r \in last \cup running : Runs(req[r], content[req[r].slot])
    BY DEF IInv, Scheduled

\* The pieces the invariant is put together from after a step.
Places ==
    /\ Live \subseteq AllRid /\ Live = queue \cup batch \cup last \cup running
    /\ queue \cap batch = {} /\ queue \cap last = {} /\ queue \cap running = {}
    /\ batch \cap last = {} /\ batch \cap running = {} /\ last \cap running = {}
    /\ IsFiniteSet(Live)

Kinds ==
    /\ \A r \in Live : req[r] \in Request
    /\ free \in [Slot -> Nat]
    /\ DOMAIN content = Slot /\ \A s \in Slot : content[s] \in History
    /\ full \in BOOLEAN
    /\ pc \in {"inputs", "admit", "prefill", "decode"}
    /\ crash \in {"none", "alloc", "early_free"}

States ==
    /\ \A r \in queue \cup batch : Waits(req[r], content[req[r].slot])
    /\ \A r \in last \cup running : Runs(req[r], content[req[r].slot])

\* They make the invariant.
LEMMA Pieces ==
    ASSUME Places', Line(ahead', queue'), Cardinality(queue') <= MaxQueued, Kinds', StagedIsOwn',
           SlotsNotShared', Phases', RunningWithinLimit', States'
    PROVE  IInv'
  <1>1. WellTyped(pending')
    BY DEF StagedIsOwn, Good
  <1>2. TypeOK'
    BY <1>1 DEF TypeOK, Places, Kinds, Scheduled, History
  <1> QED  BY <1>2 DEF IInv, Places, States, Scheduled

\* The slots of other requests are not touched.
LEMMA Unmoved ==
    ASSUME NEW q, NEW c, NEW d, q.slot # NoSlot => d = c
    PROVE  (Waits(q, c) => Waits(q, d)) /\ (Runs(q, c) => Runs(q, d))
    BY Zenon DEF Waits, Runs

\* What a decoding request has computed is not overwritten.
Stable ==
    \A r \in running \cap running' :
        req[r].slot # NoSlot => content'[req[r].slot] = content[req[r].slot]

-----------------------------------------------------------------------------
(***************************************************************************)
(* Slots that are not lost                                                 *)
(***************************************************************************)
\* The default configuration: no waiting timeout, and a queue that has room for
\* every request.
NothingDropped ==
    "timeout" \notin Feature /\ IsFiniteSet(AllRid) /\ Cardinality(AllRid) <= MaxQueued

\* A request gives its slot back when it finishes, before it is filtered out.
DoneHoldsNothing == \A r \in Live : req[r].done => req[r].slot = NoSlot

\* With room for all of them, no request is turned away.
LEMMA AllAccepted ==
    ASSUME NothingDropped, queue \subseteq AllRid, NEW rs \in SUBSET AllRid, rs \cap queue = {},
           NEW in \in Accepted(rs)
    PROVE  in = rs
  <1>1. SUFFICES ASSUME in # rs PROVE FALSE
    OBVIOUS
  <1>2. in \subseteq rs /\ Cardinality(queue) + Cardinality(in) = MaxQueued
    BY <1>1 DEF Accepted
  <1>3. PICK r \in rs : r \notin in
    BY <1>1, <1>2
  <1>4. IsFiniteSet(queue) /\ IsFiniteSet(in)
    BY <1>2, FS_Subset DEF NothingDropped
  <1>5. Cardinality(queue) \in Nat /\ Cardinality(in) \in Nat /\ Cardinality(AllRid) \in Nat
    BY <1>4, FS_CardinalityType DEF NothingDropped
  <1>6. Cardinality(queue \cup in) = Cardinality(queue) + Cardinality(in)
    <2>1. queue \cap in = {}
      BY <1>2
    <2>2. Cardinality(queue \cap in) = 0
      BY Zenon, <2>1, FS_EmptySet
    <2>3. Cardinality(queue \cup in) = Cardinality(queue) + Cardinality(in) - Cardinality(queue \cap in)
      BY <1>4, FS_Union
    <2> QED  BY <1>5, <2>2, <2>3
  <1>7. r \in AllRid /\ r \notin queue \cup in /\ queue \cup in \subseteq AllRid
    BY <1>2, <1>3
  <1>8. IsFiniteSet(queue \cup in)
    BY Zenon, <1>4, FS_Union
  <1>9. Cardinality((queue \cup in) \cup {r}) = Cardinality(queue \cup in) + 1
    BY <1>7, <1>8, FS_AddElement
  <1>10. (queue \cup in) \cup {r} \subseteq AllRid
    BY <1>7
  <1>11. Cardinality((queue \cup in) \cup {r}) <= Cardinality(AllRid)
    BY <1>10, FS_Subset DEF NothingDropped
  <1> QED  BY <1>2, <1>5, <1>6, <1>9, <1>11, BoundsAssumption DEF NothingDropped

\* No slot is lost when what was free stays free or is held, and what was held
\* is still held or is free.
LEMMA NoneLost ==
    ASSUME SlotTypes, NoSlotLeaks, crash = "none",
           \A s \in Slot : free[s] > 0 => free'[s] > 0 \/ \E x \in Live' : req'[x].slot = s,
           \A r \in Live : req[r].slot \in Slot =>
               free'[req[r].slot] > 0 \/ \E x \in Live' : req'[x].slot = req[r].slot
    PROVE  NoSlotLeaks'
  <1>1. \A s \in Slot : free[s] > 0 \/ \E r \in Live : req[r].slot = s
    BY DEF NoSlotLeaks
  <1>2. \A s \in Slot : free'[s] > 0 \/ \E x \in Live' : req'[x].slot = s
    BY <1>1
  <1> QED  BY <1>2 DEF NoSlotLeaks

\* What requests give back is free.
LEMMA ReleasedFree ==
    ASSUME SlotTypes, NEW rs \in SUBSET Live, IsFiniteSet(rs), free' = Released(rs)
    PROVE  /\ \A s \in Slot : free[s] > 0 => free'[s] > 0
           /\ \A r \in rs : req[r].slot \in Slot => free'[req[r].slot] > 0
  <1> DEFINE T(s) == {r \in rs : req[r].slot = s}
  <1>1. \A s \in Slot : free'[s] = free[s] + Cardinality(T(s)) /\ free[s] \in Nat
    BY DEF Released, SlotTypes
  <1>2. ASSUME NEW s \in Slot
        PROVE  Cardinality(T(s)) \in Nat /\ (T(s) # {} => Cardinality(T(s)) > 0)
    <2>1. T(s) \subseteq rs
      OBVIOUS
    <2> HIDE DEF T
    <2>2. IsFiniteSet(T(s))
      BY <2>1, FS_Subset
    <2>3. Cardinality(T(s)) \in Nat /\ (Cardinality(T(s)) = 0 <=> T(s) = {})
      BY Zenon, <2>2, FS_CardinalityType, FS_EmptySet
    <2> QED  BY <2>3
  <1>3. \A r \in rs : T(req[r].slot) # {}
    OBVIOUS
  <1> HIDE DEF T
  <1>4. \A s \in Slot : free[s] > 0 => free'[s] > 0
    BY <1>1, <1>2
  <1>5. \A r \in rs : req[r].slot \in Slot => free'[req[r].slot] > 0
    BY <1>1, <1>2, <1>3
  <1> QED  BY <1>4, <1>5

-----------------------------------------------------------------------------
(***************************************************************************)
(* Requests arrive                                                         *)
(***************************************************************************)
\* A request q is put on the queue or turned away, and with it a slot may be
\* taken and filled.
LEMMA ArriveStep ==
    ASSUME IInv, NEW r \in AllRid, r \notin Live, NEW q \in Request, Ready("inputs"), Arrive(r, q),
           StagedIsOwn', Waits(q, content'[q.slot]),
           \/ q.slot = NoSlot /\ free' = free /\ content' = content
           \/ \E s \in FreeSlots, h \in History :
                 q.slot = s /\ free' = Taken(s) /\ content' = Inject(s, h)
    PROVE  IInv' /\ Stable
  <1>1. PICK in \in Accepted({r}) : Join(in) /\ req' = IF r \in in THEN With(r, q) ELSE req
    BY DEF Arrive
  <1>2. /\ batch' = batch /\ last' = last /\ running' = running /\ full' = full
        /\ pc' = pc /\ crash' = crash /\ queue' = queue \cup in
    BY <1>1 DEF Arrive, Join
  <1>3. r \notin queue /\ r \notin batch /\ r \notin last /\ r \notin running /\ IsFiniteSet(queue)
    BY PlaceFacts, FS_Subset
  <1>4. in \subseteq {r} /\ Cardinality(queue') <= MaxQueued
    <2>1. IsFiniteSet({r}) /\ {r} \cap queue = {}
      BY Zenon, <1>3, FS_Singleton
    <2> QED  BY <1>1, <1>2, <1>3, <2>1, AcceptedFits
  <1>5. Line(ahead', queue')
    <2>1. in \cap queue = {}
      BY <1>3, <1>4
    <2> QED  BY <1>1, <2>1, JoinLine, PlaceFacts
  <1>6. /\ Live' = Live \cup in
        /\ \A x \in Live : x # r /\ req'[x] = req[x]
        /\ r \in in => req'[r] = q
    BY <1>1, <1>4 DEF Live, With
  <1>7. Places'
    <2>1. IsFiniteSet(Live')
      <3>1. IsFiniteSet(in)
        BY Zenon, <1>4, FS_Singleton, FS_Subset
      <3> QED  BY Zenon, <1>6, <3>1, FS_Union, PlaceFacts
    <2>2. Live' \subseteq AllRid /\ Live' = queue' \cup batch' \cup last' \cup running'
      BY <1>2, <1>4, <1>6, PlaceFacts
    <2>3. /\ queue' \cap batch' = {} /\ queue' \cap last' = {} /\ queue' \cap running' = {}
          /\ batch' \cap last' = {} /\ batch' \cap running' = {} /\ last' \cap running' = {}
      BY <1>2, <1>3, <1>4, PlaceFacts
    <2> QED  BY <2>1, <2>2, <2>3 DEF Places
  <1>8. /\ free' \in [Slot -> Nat] /\ SlotsNotShared'
        /\ DOMAIN content' = Slot /\ \A s \in Slot : content'[s] \in History
        /\ \A x \in Live : req[x].slot # NoSlot => content'[req[x].slot] = content[req[x].slot]
    <2>1. CASE q.slot = NoSlot /\ free' = free /\ content' = content
      <3>1. free' \in [Slot -> Nat]
        BY <2>1, RequestFacts DEF SlotTypes
      <3>2. \A s \in Slot : free'[s] <= 1
        BY <2>1, RequestFacts DEF SlotsNotShared
      <3>3. \A x \in Live' : req'[x].slot # NoSlot => free'[req'[x].slot] = 0
        BY <1>4, <1>6, <2>1, RequestFacts DEF SlotsNotShared
      <3>4. \A x, y \in Live' : req'[x].slot = req'[y].slot => x = y \/ req'[x].slot = NoSlot
        BY <1>4, <1>6, <2>1, RequestFacts DEF SlotsNotShared
      <3> QED  BY <2>1, <3>1, <3>2, <3>3, <3>4, RequestFacts DEF SlotsNotShared
    <2>2. ASSUME NEW s \in FreeSlots, NEW h \in History,
                 q.slot = s, free' = Taken(s), content' = Inject(s, h)
          PROVE  /\ free' \in [Slot -> Nat] /\ SlotsNotShared'
                 /\ DOMAIN content' = Slot /\ \A x \in Slot : content'[x] \in History
                 /\ \A x \in Live : req[x].slot # NoSlot =>
                                      content'[req[x].slot] = content[req[x].slot]
      <3>1. Live' \subseteq Live \cup {r} /\ r \in Live' => req'[r].slot = s
        BY <1>3, <1>4, <1>6, <2>2
      <3>2. \A x \in Live' \ {r} : req'[x].slot = req[x].slot
        BY <1>4, <1>6
      <3>3. free' \in [Slot -> Nat] /\ SlotsNotShared'
        BY <1>4, <1>6, <2>2, <3>1, <3>2, RequestFacts, SlotTaken
      <3>4. DOMAIN content' = Slot /\ \A x \in Slot : content'[x] \in History
        BY <2>2, RequestFacts DEF Inject
      <3>5. \A x \in Live : req[x].slot # NoSlot => req[x].slot # s
        BY RequestFacts DEF FreeSlots, SlotsNotShared
      <3>6. \A x \in Live : req[x].slot # NoSlot => content'[req[x].slot] = content[req[x].slot]
        BY <2>2, <3>5, RequestFacts DEF Inject
      <3> QED  BY <3>3, <3>4, <3>6
    <2> QED  BY <2>1, <2>2
  <1>9. Kinds'
    <2>1. \A x \in Live' : req'[x] \in Request
      BY <1>4, <1>6, RequestFacts
    <2>2. full' \in BOOLEAN /\ pc' \in {"inputs", "admit", "prefill", "decode"}
          /\ crash' \in {"none", "alloc", "early_free"}
      BY <1>2 DEF IInv, TypeOK
    <2> QED  BY <1>8, <2>1, <2>2 DEF Kinds
  <1>10. Phases' /\ RunningWithinLimit'
    BY <1>2 DEF IInv, Phases, RunningWithinLimit, Scheduled
  <1>11. States'
    <2>1. ASSUME NEW x \in Live
          PROVE  /\ Waits(req[x], content[req[x].slot]) => Waits(req'[x], content'[req'[x].slot])
                 /\ Runs(req[x], content[req[x].slot]) => Runs(req'[x], content'[req'[x].slot])
      BY <1>6, <1>8, Unmoved
    <2>2. ASSUME NEW x \in queue' \cup batch' PROVE Waits(req'[x], content'[req'[x].slot])
      <3>1. CASE x \in in
        BY <1>4, <1>6, <3>1
      <3>2. CASE x \in queue \cup batch
        BY <2>1, <3>2, PlaceFacts, StateFacts
      <3> QED  BY <1>2, <2>2, <3>1, <3>2
    <2>3. \A x \in last' \cup running' : Runs(req'[x], content'[req'[x].slot])
      BY <1>2, <2>1, PlaceFacts, StateFacts
    <2> QED  BY <2>2, <2>3 DEF States
  <1>12. IInv'
    BY <1>4, <1>5, <1>7, <1>8, <1>9, <1>10, <1>11, Pieces
  <1> QED  BY <1>8, <1>12, PlaceFacts DEF Stable

\* A request without a staged entry, or one that cannot be hydrated.
LEMMA FreshStep ==
    ASSUME IInv, NEW r \in Rid, NEW conv \in Conv \cup {NoId}, NEW left \in 1..MaxTokens,
           NEW invalid \in BOOLEAN,
           GenerateFresh(r, conv, left, invalid) \/ GenerateHydrationFails(r, conv, 1)
    PROVE  IInv' /\ Stable
  <1>1. /\ Ready("inputs") /\ r \in AllRid /\ r \notin Live
        /\ pending' = pending /\ free' = free /\ content' = content
    BY DEF GenerateFresh, GenerateHydrationFails, AllRid
  <1>2. PICK n \in 0..MaxTokens, abort \in BOOLEAN, prompt \in {<<>>, <<Prompt>>} :
            Arrive(r, [conv |-> conv, slot |-> NoSlot, restored |-> FALSE, tokens |-> prompt,
                       want |-> prompt, abort |-> abort, left |-> n, done |-> FALSE,
                       spoilt |-> FALSE])
    <2>1. left \in 0..MaxTokens /\ 1 \in 0..MaxTokens
      BY BoundsAssumption
    <2>2. CASE GenerateFresh(r, conv, left, invalid)
      BY Zenon, <2>1, <2>2 DEF GenerateFresh
    <2>3. CASE GenerateHydrationFails(r, conv, 1)
      BY Zenon, <2>1, <2>3 DEF GenerateHydrationFails
    <2> QED  BY Zenon, <2>2, <2>3
  <1>3. PICK q : q = [conv |-> conv, slot |-> NoSlot, restored |-> FALSE, tokens |-> prompt,
                      want |-> prompt, abort |-> abort, left |-> n, done |-> FALSE,
                      spoilt |-> FALSE]
    BY Zenon
  <1>4. prompt \in History /\ Range(prompt) \subseteq {Prompt} /\ conv \in Key
    BY Zenon, SmallRanges, ConvAssumption DEF Key
  <1>5. q \in Request /\ q.slot = NoSlot /\ Waits(q, content'[q.slot])
    <2>1. q \in Request
      BY <1>3, <1>4 DEF Request, History
    <2>2. /\ q.slot = NoSlot /\ q.restored = FALSE /\ q.done = FALSE
          /\ q.tokens = prompt /\ q.want = prompt /\ q.conv = conv
      BY <1>3
    <2>3. Waits(q, content'[q.slot])
      BY Zenon, <1>4, <2>2, NewWaits
    <2> QED  BY <2>1, <2>2, <2>3
  <1>6. StagedIsOwn'
    BY <1>1, RequestFacts DEF StagedIsOwn
  <1> QED  BY Zenon, <1>1, <1>2, <1>3, <1>5, <1>6, ArriveStep

\* A request hydrated from a staged entry.
LEMMA HydratedStep ==
    ASSUME IInv, NEW r \in Rid, NEW conv \in Conv \cup {NoId}, NEW left \in 1..MaxTokens,
           NEW invalid \in BOOLEAN, GenerateHydrated(r, conv, left, invalid)
    PROVE  IInv' /\ Stable
  <1>1. Ready("inputs") /\ r \in AllRid /\ r \notin Live /\ r \in Id /\ conv \in Key
    BY RidAssumption, ConvAssumption DEF GenerateHydrated, AllRid, Key
  <1>2. PICK k \in Lookup(pending, r, conv), s \in FreeSlots, prompt \in {<<>>, <<Prompt>>} :
            /\ Arrive(r, [conv |-> HydratedConversation(pending, r, conv, k), slot |-> s,
                          restored |-> TRUE, tokens |-> prompt,
                          want |-> <<pending.entry[k].snap>> \o prompt, abort |-> invalid,
                          left |-> left, done |-> FALSE, spoilt |-> FALSE])
            /\ free' = Taken(s)
            /\ content' = Inject(s, <<pending.entry[k].snap>>)
            /\ pending' = MoveToEnd(pending, k)
    BY Zenon DEF GenerateHydrated
  <1>3. PICK c : c = HydratedConversation(pending, r, conv, k)
    OBVIOUS
  <1>4. Good(pending, {})
    BY RequestFacts DEF StagedIsOwn
  <1>5. k \in Keys(pending) /\ c = pending.entry[k].conv
    BY Zenon, <1>1, <1>2, <1>3, <1>4, LookupHit
  <1>6. c \in Conv /\ c \in Key /\ pending.entry[k].snap = c
    BY Zenon, <1>5, RequestFacts, ConvAssumption DEF StagedIsOwn, Key
  <1>7. PICK q : q = [conv |-> c, slot |-> s, restored |-> TRUE, tokens |-> prompt,
                      want |-> <<c>> \o prompt, abort |-> invalid, left |-> left,
                      done |-> FALSE, spoilt |-> FALSE]
    BY Zenon
  <1>8. /\ prompt \in History /\ Range(prompt) \subseteq {Prompt}
        /\ <<c>> \in History /\ Range(<<c>>) = {c}
    BY Zenon, <1>6, SmallRanges
  <1>9. <<c>> \o prompt \in History /\ Range(<<c>> \o prompt) = {c} \cup Range(prompt)
    BY <1>8, Absorbing
  <1>10. s \in Slot /\ s # NoSlot /\ content'[s] = <<c>>
    BY <1>2, <1>6, RequestFacts, NoSlotAssumption DEF Inject, FreeSlots
  <1>11. left \in 0..MaxTokens /\ s \in Slot \cup {NoSlot} /\ TRUE \in BOOLEAN
    BY <1>10
  <1>12. /\ Range(prompt) \subseteq Range(<<c>> \o prompt) /\ Range(<<c>>) \subseteq Range(<<c>> \o prompt)
         /\ Range(<<c>> \o prompt) \subseteq {Prompt, c}
    BY <1>8, <1>9
  <1>13. q \in Request /\ q.slot = s /\ Waits(q, <<c>>)
    <2>1. q \in Request
      BY <1>6, <1>7, <1>8, <1>9, <1>11 DEF Request, History
    <2>2. /\ q.slot = s /\ q.done = FALSE
          /\ q.tokens = prompt /\ q.want = <<c>> \o prompt /\ q.conv = c /\ q.restored = TRUE
      BY <1>7
    <2>3. Waits(q, <<c>>)
      BY Zenon, <1>10, <1>12, <2>2, NewWaits
    <2> QED  BY <2>1, <2>2, <2>3
  <1>14. StagedIsOwn'
    <2>1. Good(pending', {})
      BY <1>2, <1>4, <1>5, MoveToEndGood
    <2>2. pending'.entry = pending.entry /\ Keys(pending') = Keys(pending)
      BY Zenon, <1>2 DEF MoveToEnd, Keys
    <2> QED  BY <2>1, <2>2, RequestFacts DEF StagedIsOwn
  <1>15. Arrive(r, q)
    BY Zenon, <1>2, <1>3, <1>6, <1>7
  <1>16. content' = Inject(s, <<c>>)
    BY <1>2, <1>6
  <1>17. Waits(q, content'[q.slot])
    BY Zenon, <1>10, <1>13
  <1> QED  BY Zenon, <1>1, <1>2, <1>8, <1>13, <1>14, <1>15, <1>16, <1>17, ArriveStep

\* Restore and generate.
LEMMA CreateStep ==
    ASSUME IInv, NEW rid \in NewRid, NEW conv \in Conv, NEW left \in 1..MaxTokens,
           RestoreCreate(rid, conv, left)
    PROVE  IInv' /\ Stable
  <1>1. Ready("inputs") /\ rid \in AllRid /\ rid \notin Live /\ pending' = pending
    BY DEF RestoreCreate, AllRid
  <1>2. PICK s \in FreeSlots :
            /\ Arrive(rid, [conv |-> conv, slot |-> s, restored |-> FALSE,
                            tokens |-> <<conv, Prompt>>, want |-> <<conv, Prompt>>,
                            abort |-> FALSE, left |-> left, done |-> FALSE, spoilt |-> FALSE])
            /\ free' = Taken(s) /\ content' = Inject(s, <<conv>>)
    BY Zenon DEF RestoreCreate
  <1>3. PICK q : q = [conv |-> conv, slot |-> s, restored |-> FALSE,
                      tokens |-> <<conv, Prompt>>, want |-> <<conv, Prompt>>,
                      abort |-> FALSE, left |-> left, done |-> FALSE, spoilt |-> FALSE]
    BY Zenon
  <1>4. /\ <<conv>> \in History /\ <<conv, Prompt>> \in History
        /\ Range(<<conv, Prompt>>) \subseteq {Prompt, conv} /\ conv \in Key
    BY SmallRanges, ConvAssumption DEF Key
  <1>5. left \in 0..MaxTokens /\ s \in Slot \cup {NoSlot} /\ FALSE \in BOOLEAN
    BY DEF FreeSlots
  <1>6. q \in Request /\ q.slot = s /\ Waits(q, content'[s])
    <2>1. q \in Request
      BY <1>3, <1>4, <1>5 DEF Request, History
    <2>2. /\ q.slot = s /\ q.done = FALSE /\ q.restored = FALSE
          /\ q.tokens = <<conv, Prompt>> /\ q.want = <<conv, Prompt>> /\ q.conv = conv
      BY <1>3
    <2>3. Waits(q, content'[s])
      BY Zenon, <1>4, <2>2, NewWaits
    <2> QED  BY <2>1, <2>2, <2>3
  <1>7. StagedIsOwn'
    BY <1>1, RequestFacts DEF StagedIsOwn
  <1>8. Waits(q, content'[q.slot])
    BY <1>6
  <1> QED  BY <1>1, <1>2, <1>3, <1>4, <1>6, <1>7, <1>8, ArriveStep

-----------------------------------------------------------------------------
(***************************************************************************)
(* Restores and aborts                                                     *)
(***************************************************************************)
\* No request, place or slot changes.
LEMMA QuietStep ==
    ASSUME IInv, req' = req, queue' = queue, ahead' = ahead, batch' = batch, last' = last,
           running' = running, free' = free, content' = content, StagedIsOwn', Phases',
           full' \in BOOLEAN, pc' \in {"inputs", "admit", "prefill", "decode"},
           crash' \in {"none", "alloc", "early_free"}
    PROVE  IInv' /\ Stable
  <1>1. Places'
    BY PlaceFacts DEF Places, Live
  <1>2. Line(ahead', queue') /\ Cardinality(queue') <= MaxQueued
    BY PlaceFacts
  <1>3. Kinds'
    BY RequestFacts DEF Kinds, Live, SlotTypes
  <1>4. SlotsNotShared' /\ RunningWithinLimit'
    BY DEF IInv, SlotsNotShared, Live, RunningWithinLimit, Scheduled
  <1>5. States'
    BY StateFacts DEF States
  <1>6. IInv'
    BY <1>1, <1>2, <1>3, <1>4, <1>5, Pieces
  <1> QED  BY <1>6 DEF Stable

\* A restore is staged.
LEMMA StagedStep ==
    ASSUME IInv, NEW rid \in AllRid, NEW conv \in Conv, RestoreStaged(rid, conv)
    PROVE  IInv' /\ Stable
  <1>1. /\ pending' = Staged(pending, rid, conv, conv)
        /\ req' = req /\ queue' = queue /\ ahead' = ahead /\ batch' = batch /\ last' = last
        /\ running' = running /\ free' = free /\ content' = content /\ full' = full
        /\ pc' = pc /\ crash' = crash
    BY DEF RestoreStaged
  <1>2. rid \in Key /\ conv \in Id /\ conv \in Snap
    BY RidAssumption, ConvAssumption DEF AllRid, Key
  <1>3. Good(pending, {}) /\ Cardinality(Keys(pending)) <= MaxEntries
    BY RequestFacts DEF StagedIsOwn
  <1>4. /\ Good(pending', {}) /\ Cardinality(Keys(pending')) <= MaxEntries
        /\ \A k \in Keys(pending') :
             \/ k \in Keys(pending) /\ pending'.entry[k] = pending.entry[k]
             \/ pending'.entry[k] = [conv |-> conv, snap |-> conv]
    BY <1>1, <1>2, <1>3, StagedGood
  <1>5. StagedIsOwn'
    BY <1>4, RequestFacts DEF StagedIsOwn
  <1>6. /\ Phases' /\ full' \in BOOLEAN /\ pc' \in {"inputs", "admit", "prefill", "decode"}
        /\ crash' \in {"none", "alloc", "early_free"}
    BY Zenon, <1>1 DEF IInv, TypeOK, Phases
  <1> QED  BY <1>1, <1>5, <1>6, QuietStep

\* A live request takes the state.
LEMMA LiveStep ==
    ASSUME IInv, NEW rid \in AllRid, NEW conv \in Conv, RestoreLive(rid, conv)
    PROVE  IInv' /\ Stable
  <1>1. PICK v : v = [Spoilt(req[rid]) EXCEPT !.conv = conv, !.tokens = <<conv>>, !.want = <<conv>>]
    OBVIOUS
  <1>2. /\ content' = Inject(req[rid].slot, <<conv>>)
        /\ pending' = Drop(pending, ClearTarget(pending, rid, conv))
        /\ req' = With(rid, v)
        /\ queue' = queue /\ ahead' = ahead /\ batch' = batch /\ last' = last
        /\ running' = running /\ free' = free /\ full' = full /\ pc' = pc /\ crash' = crash
    BY <1>1 DEF RestoreLive
  <1>3. rid \in Live /\ rid \notin running /\ req[rid].slot # NoSlot /\ pc = "inputs"
    BY DEF RestoreLive, RestoreOutcome, Ready
  <1>4. batch = {} /\ rid \in queue \cup last
    BY <1>3, PlaceFacts DEF IInv, Phases
  <1>5. Live' = Live /\ req'[rid] = v /\ \A x \in Live \ {rid} : req'[x] = req[x]
    BY <1>2, <1>3 DEF Live, With
  <1>6. /\ req[rid] \in Request /\ req[rid].slot \in Slot
        /\ <<conv>> \in History
    BY Zenon, <1>3, RequestFacts, SmallRanges
  <1>7. /\ v \in Request /\ v.slot = req[rid].slot
        /\ ~req[rid].done => Waits(v, <<conv>>)
        /\ Runs(v, <<conv>>)
    BY Zenon, <1>1, <1>3, <1>6, LiveRestored
  <1>8. /\ DOMAIN content' = Slot /\ content'[v.slot] = <<conv>>
        /\ \A s \in Slot : content'[s] \in History
        /\ \A s \in Slot \ {req[rid].slot} : content'[s] = content[s]
    BY <1>2, <1>6, <1>7, RequestFacts DEF Inject
  <1>9. ASSUME NEW x \in Live, x # rid, req[x].slot # NoSlot
        PROVE  content'[req[x].slot] = content[req[x].slot]
    <2>1. req[x].slot # req[rid].slot /\ req[x].slot \in Slot
      BY <1>3, <1>9, RequestFacts DEF SlotsNotShared
    <2> QED  BY <1>8, <2>1
  <1>10. Places' /\ Line(ahead', queue') /\ Cardinality(queue') <= MaxQueued
    BY <1>2, <1>5, PlaceFacts DEF Places
  <1>11. free' \in [Slot -> Nat] /\ SlotsNotShared'
    <2>1. \A x \in Live' : req'[x].slot \in {req[x].slot, NoSlot}
      BY <1>5, <1>7
    <2> QED  BY <1>2, <1>5, <2>1, RequestFacts, SlotsKept
  <1>12. Kinds'
    <2>1. \A x \in Live' : req'[x] \in Request
      BY <1>5, <1>7, RequestFacts
    <2>2. /\ full' \in BOOLEAN /\ pc' \in {"inputs", "admit", "prefill", "decode"}
          /\ crash' \in {"none", "alloc", "early_free"}
      BY Zenon, <1>2 DEF IInv, TypeOK
    <2> QED  BY <1>8, <1>11, <2>1, <2>2 DEF Kinds
  <1>13. StagedIsOwn'
    <2>1. Good(pending', {})
      BY Zenon, <1>2, DropGood, RequestFacts DEF StagedIsOwn
    <2>2. /\ Keys(pending') \subseteq Keys(pending)
          /\ \A k \in Keys(pending') : pending'.entry[k] = pending.entry[k]
      <3>1. PICK p : p = Drop(pending, ClearTarget(pending, rid, conv))
        BY Zenon
      <3>2. Keys(p) \subseteq Keys(pending) /\ \A k \in Keys(p) : p.entry[k] = pending.entry[k]
        BY <3>1, DropFields
      <3>3. pending' = p
        BY <1>2, <3>1
      <3> QED  BY Zenon, <3>2, <3>3
    <2>3. IsFiniteSet(Keys(pending)) /\ Cardinality(Keys(pending)) <= MaxEntries
      BY RequestFacts DEF StagedIsOwn, Good, WellTyped
    <2>4. Cardinality(Keys(pending')) <= Cardinality(Keys(pending))
      BY <2>2, <2>3, FS_Subset
    <2>5. Cardinality(Keys(pending')) \in Nat /\ Cardinality(Keys(pending)) \in Nat
      BY <2>1, <2>3, FS_CardinalityType DEF Good, WellTyped
    <2>6. Cardinality(Keys(pending')) <= MaxEntries
      BY <2>3, <2>4, <2>5, MaxEntriesAssumption
    <2> QED  BY <2>1, <2>2, <2>6, RequestFacts DEF StagedIsOwn
  <1>14. Phases' /\ RunningWithinLimit'
    BY Zenon, <1>2 DEF IInv, Phases, RunningWithinLimit, Scheduled
  <1>15. States'
    <2>1. ASSUME NEW x \in Live, x # rid
          PROVE  /\ Waits(req[x], content[req[x].slot]) => Waits(req'[x], content'[req'[x].slot])
                 /\ Runs(req[x], content[req[x].slot]) => Runs(req'[x], content'[req'[x].slot])
      BY <1>5, <1>9, <2>1, Unmoved
    <2>2. ASSUME NEW x \in queue PROVE Waits(req'[x], content'[req'[x].slot])
      <3>1. Waits(req[x], content[req[x].slot]) /\ x \in Live
        BY Zenon, PlaceFacts, StateFacts
      <3>2. CASE x = rid
        BY Zenon, <1>5, <1>7, <1>8, <3>1, <3>2 DEF Waits
      <3> QED  BY <2>1, <3>1, <3>2
    <2>3. ASSUME NEW x \in last \cup running PROVE Runs(req'[x], content'[req'[x].slot])
      <3>1. Runs(req[x], content[req[x].slot]) /\ x \in Live
        BY PlaceFacts, StateFacts
      <3>2. CASE x = rid
        BY Zenon, <1>5, <1>7, <1>8, <3>2
      <3> QED  BY <2>1, <3>1, <3>2
    <2> QED  BY Zenon, <1>2, <1>4, <2>2, <2>3 DEF States
  <1>16. IInv'
    BY <1>10, <1>11, <1>12, <1>13, <1>14, <1>15, Pieces
  <1>17. Stable
    BY <1>3, <1>9, PlaceFacts DEF Stable
  <1> QED  BY <1>16, <1>17

\* Requests move, change or leave; no slot is written.
LEMMA CalmStep ==
    ASSUME IInv, content' = content, pending' = pending, Live' \subseteq Live,
           Live' = queue' \cup batch' \cup last' \cup running',
           queue' \cap batch' = {}, queue' \cap last' = {}, queue' \cap running' = {},
           batch' \cap last' = {}, batch' \cap running' = {}, last' \cap running' = {},
           Line(ahead', queue'), Cardinality(queue') <= MaxQueued,
           \A r \in Live' : req'[r] \in Request,
           free' \in [Slot -> Nat], SlotsNotShared', full' \in BOOLEAN,
           pc' \in {"inputs", "admit", "prefill", "decode"},
           crash' \in {"none", "alloc", "early_free"},
           Phases', RunningWithinLimit',
           \A r \in queue' \cup batch' : Waits(req'[r], content[req'[r].slot]),
           \A r \in last' \cup running' : Runs(req'[r], content[req'[r].slot])
    PROVE  IInv' /\ Stable
  <1>1. Places'
    <2>1. IsFiniteSet(Live') /\ Live' \subseteq AllRid
      BY PlaceFacts, FS_Subset
    <2> QED  BY Zenon, <2>1 DEF Places
  <1>2. Kinds'
    BY RequestFacts DEF Kinds
  <1>3. StagedIsOwn'
    BY RequestFacts DEF StagedIsOwn
  <1>4. States'
    BY Zenon DEF States
  <1>5. IInv'
    BY <1>1, <1>2, <1>3, <1>4, Pieces
  <1> QED  BY <1>5 DEF Stable

\* A queue that requests leave is not longer than before.
LEMMA ShorterQueue ==
    ASSUME IInv, NEW rs, Leave(rs)
    PROVE  /\ queue' = queue \ rs /\ Line(ahead', queue') /\ Cardinality(queue') <= MaxQueued
  <1>1. queue' = queue \ rs /\ Line(ahead', queue')
    BY Zenon, LeaveLine, PlaceFacts DEF Leave
  <1>2. IsFiniteSet(queue)
    BY PlaceFacts, FS_Subset
  <1>3. IsFiniteSet(queue') /\ Cardinality(queue') <= Cardinality(queue)
    BY <1>1, <1>2, FS_Subset
  <1>4. Cardinality(queue') \in Nat /\ Cardinality(queue) \in Nat
    BY <1>2, <1>3, FS_CardinalityType
  <1> QED  BY <1>1, <1>3, <1>4, PlaceFacts, BoundsAssumption

\* An abort.
LEMMA AbortStep ==
    ASSUME IInv, NEW r \in AllRid, AbortRequest(r)
    PROVE  IInv' /\ Stable
  <1>1. /\ r \in Live /\ pc = "inputs" /\ crash = "none"
        /\ pending' = pending /\ batch' = batch /\ last' = last /\ running' = running
        /\ full' = full /\ free' = free /\ content' = content /\ pc' = pc
    BY DEF AbortRequest, Ready
  <1>2. /\ batch = {} /\ Phases' /\ RunningWithinLimit' /\ full' \in BOOLEAN
        /\ pc' \in {"inputs", "admit", "prefill", "decode"}
    BY Zenon, <1>1 DEF IInv, TypeOK, Phases, RunningWithinLimit, Scheduled
  <1>3. CASE r \in queue
    <2>1. Leave({r}) /\ req' = Without({r}) /\ crash' = EarlyFree(req[r])
      BY <1>3 DEF AbortRequest
    <2>2. queue' = queue \ {r} /\ Line(ahead', queue') /\ Cardinality(queue') <= MaxQueued
      BY <2>1, ShorterQueue
    <2>3. Live' = Live \ {r} /\ \A x \in Live' : req'[x] = req[x]
      BY <2>1 DEF Live, Without
    <2>4. Live' = queue' \cup batch' \cup last' \cup running'
      BY Zenon, <1>1, <1>2, <1>3, <2>2, <2>3, PlaceFacts
    <2>5. /\ queue' \cap batch' = {} /\ queue' \cap last' = {} /\ queue' \cap running' = {}
          /\ batch' \cap last' = {} /\ batch' \cap running' = {} /\ last' \cap running' = {}
      BY <1>1, <2>2, PlaceFacts
    <2>6. free' \in [Slot -> Nat] /\ SlotsNotShared'
      <3>1. Live' \subseteq Live /\ \A x \in Live' : req'[x].slot \in {req[x].slot, NoSlot}
        BY <2>3
      <3> QED  BY <1>1, <3>1, RequestFacts, SlotsKept
    <2>7. \A x \in Live' : req'[x] \in Request
      BY <2>3, RequestFacts
    <2>8. crash' \in {"none", "alloc", "early_free"}
      BY <1>1, <2>1 DEF EarlyFree
    <2>9. /\ \A x \in queue' \cup batch' : Waits(req'[x], content[req'[x].slot])
          /\ \A x \in last' \cup running' : Runs(req'[x], content[req'[x].slot])
      BY <1>1, <2>2, <2>3, <2>4, StateFacts
    <2>10. Live' \subseteq Live
      BY <2>3
    <2> QED  BY Zenon, <1>1, <1>2, <2>2, <2>4, <2>5, <2>6, <2>7, <2>8, <2>9, <2>10, CalmStep
  <1>4. CASE r \notin queue
    <2>1. PICK v : v = [req[r] EXCEPT !.abort = TRUE]
      BY Zenon
    <2>2. ~req[r].done /\ req' = With(r, v) /\ queue' = queue /\ ahead' = ahead /\ crash' = crash
      BY <1>4, <2>1 DEF AbortRequest
    <2>3. Live' = Live /\ req'[r] = v /\ \A x \in Live \ {r} : req'[x] = req[x]
      BY <1>1, <2>2 DEF Live, With
    <2>4. r \in last \cup running
      BY <1>1, <1>2, <1>4, PlaceFacts
    <2>5. req[r] \in Request /\ Runs(req[r], content[req[r].slot])
      BY <1>1, <2>4, RequestFacts, StateFacts
    <2>6. v \in Request /\ v.slot = req[r].slot /\ Runs(v, content[v.slot])
      BY <2>1, <2>2, <2>5, RunningSteps
    <2>7. free' \in [Slot -> Nat] /\ SlotsNotShared'
      <3>1. \A x \in Live' : req'[x].slot \in {req[x].slot, NoSlot}
        BY <2>3, <2>6
      <3> QED  BY <1>1, <2>3, <3>1, RequestFacts, SlotsKept
    <2>8. \A x \in Live' : req'[x] \in Request
      BY <2>3, <2>6, RequestFacts
    <2>9. \A x \in queue' \cup batch' : Waits(req'[x], content[req'[x].slot])
      BY Zenon, <1>1, <1>2, <1>4, <2>2, <2>3, StateFacts, PlaceFacts
    <2>10. \A x \in last' \cup running' : Runs(req'[x], content[req'[x].slot])
      BY Zenon, <1>1, <2>3, <2>6, StateFacts, PlaceFacts
    <2>11. crash' \in {"none", "alloc", "early_free"} /\ Live' \subseteq Live
      BY <1>1, <2>2, <2>3
    <2>12. /\ Live' = queue' \cup batch' \cup last' \cup running'
           /\ Line(ahead', queue') /\ Cardinality(queue') <= MaxQueued
      BY <1>1, <2>2, <2>3, PlaceFacts
    <2>13. /\ queue' \cap batch' = {} /\ queue' \cap last' = {} /\ queue' \cap running' = {}
           /\ batch' \cap last' = {} /\ batch' \cap running' = {} /\ last' \cap running' = {}
      BY <1>1, <2>2, PlaceFacts
    <2> QED  BY Zenon, <1>1, <1>2, <2>7, <2>8, <2>9, <2>10, <2>11, <2>12, <2>13, CalmStep
  <1> QED  BY <1>3, <1>4

=============================================================================
