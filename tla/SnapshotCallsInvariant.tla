----------------------- MODULE SnapshotCallsInvariant -----------------------
(***************************************************************************)
(* The snapshot calls, for any number of calls and kinds: the inductive    *)
(* invariant, and the steps of the scheduler and of the tokenizer manager's *)
(* loop.  An answer is always in one place: on its way to the scheduler as *)
(* a call, with a request, on its way back, in its result queue or with a  *)
(* caller.  Hence answers and waiting callers can be counted against each  *)
(* other.                                                                  *)
(***************************************************************************)
EXTENDS SnapshotCalls, FiniteSetTheorems, TLAPS

\* The calls a channel or queue is about, each of them once.
Msgs(s) == Range(s) \ {AbortReq}

Distinct(s) == \A i, j \in DOMAIN s : s[i] = s[j] /\ s[i] # AbortReq => i = j

\* An answer that is still to be taken is in one place.
Places ==
    /\ Distinct(inbox) /\ Distinct(outbox)
    /\ Msgs(inbox) \cap Msgs(outbox) = {}
    /\ \A k \in Kind : /\ Distinct(answers[k])
                       /\ Msgs(answers[k]) \cap (Msgs(inbox) \cup Msgs(outbox)) = {}
                       /\ \A c \in Msgs(answers[k]) : kind[c] = k
    /\ \A c \in Call : job[c] # "none" =>
            /\ c \notin Msgs(inbox) \cup Msgs(outbox)
            /\ \A k \in Kind : c \notin Msgs(answers[k])

\* An answer that has been taken is in none, and with one caller of its kind.
Taken ==
    \A c \in Call : got[c] # NoCall =>
        /\ kind[got[c]] = kind[c] /\ kind[c] # "none" /\ job[got[c]] = "none"
        /\ got[c] \notin Msgs(inbox) \cup Msgs(outbox)
        /\ \A k \in Kind : got[c] \notin Msgs(answers[k])

\* The callers that wait are asleep or have been woken.
Sleepers ==
    \A k \in Kind :
        /\ Distinct(getters[k]) /\ Distinct(woken[k])
        /\ Msgs(getters[k]) \cap Msgs(woken[k]) = {}
        /\ Waiting(k) = Msgs(getters[k]) \cup Msgs(woken[k])

\* A call that has met no other of its kind: nothing else is on the way.
Lone ==
    \A c \in alone :
        /\ kind[c] # "none" /\ got[c] \in {c, NoCall}
        /\ got[c] = NoCall => Owed(kind[c]) \subseteq {c} /\ Waiting(kind[c]) = {c}

IInv ==
    /\ TypeOK /\ Places /\ Taken /\ AnswersTakenOnce /\ Sleepers
    /\ NoAnswerLeftOver /\ NoLostWakeup /\ Lone

-----------------------------------------------------------------------------
(***************************************************************************)
(* Channels and queues                                                     *)
(***************************************************************************)
\* Sending: the message is added to those of the channel.
LEMMA AppendMsgs ==
    ASSUME NEW S, NEW s \in Seq(S), NEW m \in S
    PROVE  /\ Append(s, m) \in Seq(S)
           /\ Msgs(Append(s, m)) = Msgs(s) \cup ({m} \ {AbortReq})
           /\ Distinct(s) /\ m \notin Msgs(s) => Distinct(Append(s, m))
  <1>1. /\ Append(s, m) \in Seq(S) /\ Len(Append(s, m)) = Len(s) + 1
        /\ DOMAIN Append(s, m) = 1 .. Len(s) + 1
        /\ \A i \in 1 .. Len(s) : Append(s, m)[i] = s[i]
        /\ Append(s, m)[Len(s) + 1] = m
        /\ DOMAIN s = 1 .. Len(s) /\ Len(s) \in Nat
    OBVIOUS
  <1>2. Range(Append(s, m)) = Range(s) \cup {m}
    BY <1>1 DEF Range
  <1>3. ASSUME Distinct(s), m \notin Msgs(s)
        PROVE  Distinct(Append(s, m))
    BY <1>1, <1>3 DEF Distinct, Msgs, Range
  <1> QED  BY <1>1, <1>2, <1>3 DEF Msgs

\* Receiving: the first message is gone from the channel.
LEMMA TailMsgs ==
    ASSUME NEW S, NEW s \in Seq(S), s # <<>>, Distinct(s)
    PROVE  /\ Tail(s) \in Seq(S) /\ Head(s) \in S /\ Head(s) \in Range(s)
           /\ Msgs(Tail(s)) = Msgs(s) \ {Head(s)}
           /\ Distinct(Tail(s)) /\ Len(Tail(s)) = Len(s) - 1
  <1>1. /\ Tail(s) \in Seq(S) /\ Len(s) \in Nat \ {0} /\ DOMAIN s = 1 .. Len(s)
        /\ DOMAIN Tail(s) = 1 .. Len(s) - 1 /\ Len(Tail(s)) = Len(s) - 1
        /\ \A i \in 1 .. Len(s) - 1 : Tail(s)[i] = s[i + 1]
        /\ Head(s) = s[1] /\ Head(s) \in S
    OBVIOUS
  <1>2. Distinct(Tail(s))
    <2> SUFFICES ASSUME NEW i \in 1 .. Len(s) - 1, NEW j \in 1 .. Len(s) - 1,
                        Tail(s)[i] = Tail(s)[j], Tail(s)[i] # AbortReq
                 PROVE  i = j
      BY <1>1 DEF Distinct
    <2>1. i + 1 \in DOMAIN s /\ j + 1 \in DOMAIN s /\ s[i + 1] = s[j + 1]
      BY <1>1
    <2>2. i + 1 = j + 1
      BY <1>1, <2>1 DEF Distinct
    <2> QED  BY <2>2
  <1>3. Msgs(Tail(s)) \subseteq Msgs(s) \ {Head(s)}
    <2> SUFFICES ASSUME NEW i \in 1 .. Len(s) - 1, Tail(s)[i] # AbortReq
                 PROVE  s[i + 1] \in Range(s) /\ Tail(s)[i] # s[1]
      BY <1>1 DEF Msgs, Range
    <2>1. i + 1 \in DOMAIN s /\ 1 \in DOMAIN s /\ i + 1 # 1
      BY <1>1
    <2> QED  BY <1>1, <2>1 DEF Distinct, Range
  <1>4. Msgs(s) \ {Head(s)} \subseteq Msgs(Tail(s))
    <2> SUFFICES ASSUME NEW i \in 1 .. Len(s), s[i] # s[1]
                 PROVE  s[i] \in Range(Tail(s))
      BY <1>1 DEF Msgs, Range
    <2>1. i - 1 \in DOMAIN Tail(s) /\ Tail(s)[i - 1] = s[i]
      BY <1>1
    <2> QED  BY Zenon, <2>1 DEF Range
  <1> QED  BY <1>1, <1>2, <1>3, <1>4 DEF Range

\* A queue of distinct calls is as long as the set of its calls is large.
LEMMA LenIsCardinality ==
    ASSUME NEW s \in Seq(Call), Distinct(s)
    PROVE  IsFiniteSet(Msgs(s)) /\ Cardinality(Msgs(s)) = Len(s)
  <1>1. Len(s) \in Nat /\ DOMAIN s = 1 .. Len(s) /\ \A i \in 1 .. Len(s) : s[i] \in Call
    OBVIOUS
  <1>2. Msgs(s) = Range(s)
    BY <1>1, CallAssumption DEF Msgs, Range
  <1>3. s \in Bijection(1 .. Len(s), Range(s))
    BY <1>1, CallAssumption DEF Bijection, Injection, Surjection, Range, Distinct, IsInjective
  <1>4. ExistsBijection(1 .. Len(s), Range(s))
    BY <1>3 DEF ExistsBijection
  <1> QED  BY <1>1, <1>2, <1>4, FS_CountingElements, FS_NatBijection

-----------------------------------------------------------------------------
(***************************************************************************)
(* The steps that leave callers and result queues alone                    *)
(***************************************************************************)
\* Owed in terms of the calls in each place.
LEMMA OwedMsgs ==
    ASSUME TypeOK, NEW k \in Kind
    PROVE  /\ Owed(k) = {c \in Call : /\ kind[c] = k
                                      /\ \/ c \in Msgs(inbox) \cup Msgs(outbox)
                                         \/ c \in Msgs(answers[k]) \/ job[c] # "none"}
           /\ IsFiniteSet(Owed(k)) /\ IsFiniteSet(Waiting(k))
           /\ Cardinality(Owed(k)) \in Nat /\ Cardinality(Waiting(k)) \in Nat
  <1>1. Owed(k) = {c \in Call : /\ kind[c] = k
                                /\ \/ c \in Msgs(inbox) \cup Msgs(outbox)
                                   \/ c \in Msgs(answers[k]) \/ job[c] # "none"}
    BY CallAssumption DEF Owed, Msgs
  <1>2. Owed(k) \in SUBSET Call /\ Waiting(k) \in SUBSET Call
    BY DEF Owed, Waiting
  <1>3. IsFiniteSet(Owed(k)) /\ IsFiniteSet(Waiting(k))
    BY <1>2, FS_Subset, CallAssumption
  <1> QED  BY <1>1, <1>3, FS_CardinalityType

\* A step that moves no caller and adds no answer keeps IInv if it keeps the
\* places of the answers.
LEMMA QuietStep ==
    ASSUME IInv, TypeOK', Places', UNCHANGED <<kind, got, queues, alone>>,
           \A k \in Kind : Owed(k)' \subseteq Owed(k)
    PROVE  IInv'
  <1>1. UNCHANGED <<kind, got, answers, getters, woken, alone>>
    BY DEF queues
  <1>2. \A k \in Kind : Waiting(k)' = Waiting(k)
    BY <1>1 DEF Waiting
  <1>3. Taken'
    <2> SUFFICES ASSUME NEW c \in Call, got[c] # NoCall
                 PROVE  /\ kind[got[c]] = kind[c] /\ kind[c] # "none"
                        /\ job'[got[c]] = "none"
                        /\ got[c] \notin Msgs(inbox') \cup Msgs(outbox')
                        /\ \A k \in Kind : got[c] \notin Msgs(answers[k])
      BY <1>1 DEF Taken, Msgs
    <2>1. /\ kind[got[c]] = kind[c] /\ kind[c] # "none" /\ got[c] \in Call
          /\ job[got[c]] = "none"
          /\ got[c] \notin Msgs(inbox) \cup Msgs(outbox)
          /\ \A k \in Kind : got[c] \notin Msgs(answers[k])
      BY DEF IInv, TypeOK, Taken
    <2>2. kind[c] \in Kind
      BY <2>1 DEF IInv, TypeOK
    <2>3. got[c] \notin Owed(kind[c])
      BY <2>1, <2>2, OwedMsgs DEF IInv
    <2>4. got[c] \notin Owed(kind[c])'
      BY <2>2, <2>3
    <2>5. /\ job'[got[c]] = "none" /\ got[c] \notin Range(inbox') \cup Range(outbox')
      BY <1>1, <2>1, <2>4 DEF Owed
    <2> QED  BY <2>1, <2>5 DEF Msgs
  <1>4. Sleepers' /\ NoLostWakeup' /\ AnswersTakenOnce'
    BY <1>1, <1>2 DEF IInv, Sleepers, NoLostWakeup, AnswersTakenOnce, Msgs, Distinct
  <1>5. NoAnswerLeftOver'
    <2> SUFFICES ASSUME NEW k \in Kind
                 PROVE  Cardinality(Owed(k)') <= Cardinality(Waiting(k)')
      BY DEF NoAnswerLeftOver
    <2>1. IsFiniteSet(Owed(k)) /\ Cardinality(Owed(k)) \in Nat /\ Cardinality(Waiting(k)) \in Nat
      BY OwedMsgs DEF IInv
    <2>2. /\ Cardinality(Owed(k)') <= Cardinality(Owed(k)) /\ IsFiniteSet(Owed(k)')
      BY <2>1, FS_Subset
    <2>3. Cardinality(Owed(k)') \in Nat
      BY <2>2, FS_CardinalityType
    <2>4. Cardinality(Owed(k)) <= Cardinality(Waiting(k))
      BY DEF IInv, NoAnswerLeftOver
    <2> QED  BY <1>2, <2>1, <2>2, <2>3, <2>4
  <1>6. Lone'
    <2> SUFFICES ASSUME NEW c \in alone
                 PROVE  /\ kind[c] # "none" /\ got[c] \in {c, NoCall}
                        /\ got[c] = NoCall =>
                             Owed(kind[c])' \subseteq {c} /\ Waiting(kind[c])' = {c}
      BY <1>1 DEF Lone, Owed, Waiting
    <2>1. kind[c] \in Kind
      BY DEF IInv, TypeOK, Lone
    <2> QED  BY <1>2, <2>1 DEF IInv, Lone
  <1> QED  BY <1>3, <1>4, <1>5, <1>6 DEF IInv

\* Taking a message from the scheduler's channel.
LEMMA ReceiveMsgs ==
    ASSUME IInv, NEW m, Receive(m)
    PROVE  /\ inbox' \in Seq(Call \cup {AbortReq}) /\ m \in Call \cup {AbortReq}
           /\ m \in Range(inbox)
           /\ (m # AbortReq => m \in Msgs(inbox))
           /\ Msgs(inbox') = Msgs(inbox) \ {m} /\ Distinct(inbox')
           /\ Range(inbox') \subseteq Range(inbox)
  <1>1. inbox \in Seq(Call \cup {AbortReq}) /\ inbox # <<>> /\ Distinct(inbox)
        /\ m = Head(inbox) /\ inbox' = Tail(inbox)
    BY DEF IInv, TypeOK, Places, Receive
  <1>2. /\ inbox' \in Seq(Call \cup {AbortReq}) /\ m \in Call \cup {AbortReq}
        /\ m \in Range(inbox) /\ Msgs(inbox') = Msgs(inbox) \ {m} /\ Distinct(inbox')
    BY <1>1, TailMsgs
  <1>3. Range(inbox') \subseteq Range(inbox)
    BY <1>1 DEF Range
  <1> QED  BY <1>2, <1>3 DEF Msgs

\* Sending an answer or an AbortReq to the tokenizer manager.
LEMMA SendMsgs ==
    ASSUME IInv, NEW m \in Call \cup {AbortReq}, m \notin Msgs(outbox),
           outbox' = Append(outbox, m)
    PROVE  /\ outbox' \in Seq(Call \cup {AbortReq}) /\ Distinct(outbox')
           /\ Msgs(outbox') = Msgs(outbox) \cup ({m} \ {AbortReq})
  BY AppendMsgs DEF IInv, TypeOK, Places

\* The scheduler takes a message: an answer moves from the inbox to the outbox,
\* to a request, or is dropped.
LEMMA HandleStep ==
    ASSUME IInv, Handle
    PROVE  IInv'
  <1>1. CASE HandleAbort
    <2>1. /\ Receive(AbortReq)
          /\ job' = [c \in Call |-> IF job[c] = "waiting" THEN "none" ELSE job[c]]
          /\ \/ outbox' = Append(outbox, AbortReq) \/ outbox' = outbox
      BY <1>1 DEF HandleAbort
    <2>2. /\ inbox' \in Seq(Call \cup {AbortReq}) /\ Range(inbox') \subseteq Range(inbox)
          /\ Msgs(inbox') = Msgs(inbox) /\ Distinct(inbox')
      BY <2>1, ReceiveMsgs DEF Msgs
    <2>3. /\ outbox' \in Seq(Call \cup {AbortReq}) /\ Distinct(outbox')
          /\ Msgs(outbox') = Msgs(outbox)
      <3>1. AbortReq \notin Msgs(outbox)
        BY DEF Msgs
      <3>2. CASE outbox' = Append(outbox, AbortReq)
        BY Zenon, <3>1, <3>2, SendMsgs
      <3>3. CASE outbox' = outbox
        BY <3>3 DEF IInv, TypeOK, Places
      <3> QED  BY <2>1, <3>2, <3>3
    <2>4. UNCHANGED <<kind, got, queues, loop, serving, aborts, alone>>
      BY <2>1 DEF Receive
    <2>5. TypeOK'
      <3>1. \A c \in Call : c \in Range(inbox') \cup Range(outbox')
                                => c \in Range(inbox) \cup Range(outbox)
        BY <2>2, <2>3, CallAssumption DEF Msgs
      <3>2. job' \in [Call -> {"none", "waiting", "running"}]
        BY <2>1 DEF IInv, TypeOK
      <3>3. \A c \in Call : job'[c] # "none" => kind[c] = "restore"
        BY <2>1 DEF IInv, TypeOK
      <3> QED  BY <2>2, <2>3, <2>4, <3>1, <3>2, <3>3 DEF IInv, TypeOK, queues
    <2>6. Places'
      <3>1. \A c \in Call : job'[c] # "none" => job[c] # "none"
        BY <2>1
      <3> QED  BY <2>2, <2>3, <2>4, <3>1 DEF IInv, Places, queues, Msgs
    <2>7. \A k \in Kind : Owed(k)' \subseteq Owed(k)
      <3>1. \A c \in Call : job'[c] # "none" => job[c] # "none"
        BY <2>1
      <3>2. \A c \in Call : c \in Range(outbox') => c \in Range(outbox)
        BY <2>3, CallAssumption DEF Msgs
      <3> QED  BY <2>2, <2>4, <3>1, <3>2 DEF Owed, queues
    <2> QED  BY <2>4, <2>5, <2>6, <2>7, QuietStep
  <1>2. ASSUME NEW c \in Call, HandleAtOnce(c) \/ HandleGenerate(c) \/ HandleRejected(c)
        PROVE  IInv'
    <2>1. Receive(c) /\ UNCHANGED <<kind, got, queues, loop, serving, aborts, alone>>
      BY <1>2 DEF HandleAtOnce, HandleGenerate, HandleRejected, Receive
    <2>2. /\ inbox' \in Seq(Call \cup {AbortReq}) /\ Range(inbox') \subseteq Range(inbox)
          /\ Msgs(inbox') = Msgs(inbox) \ {c} /\ Distinct(inbox') /\ c \in Msgs(inbox)
          /\ c \in Range(inbox)
      BY <2>1, ReceiveMsgs, CallAssumption
    <2>3. /\ c \notin Msgs(outbox) /\ job[c] = "none" /\ kind[c] # "none"
          /\ \A k \in Kind : c \notin Msgs(answers[k])
      BY <2>2 DEF IInv, TypeOK, Places
    <2>4. \/ job' = job /\ outbox' = Append(outbox, c)
          \/ job' = [job EXCEPT ![c] = "waiting"] /\ kind[c] = "restore" /\ outbox' = outbox
          \/ job' = job /\ outbox' = Append(outbox, AbortReq)
      BY <1>2 DEF HandleAtOnce, HandleGenerate, HandleRejected
    <2>5. /\ outbox' \in Seq(Call \cup {AbortReq}) /\ Distinct(outbox')
          /\ \/ Msgs(outbox') = Msgs(outbox) \cup {c} /\ job' = job
             \/ Msgs(outbox') = Msgs(outbox)
      <3>1. AbortReq \notin Msgs(outbox) /\ AbortReq # c
        BY CallAssumption DEF Msgs
      <3>2. CASE outbox' = Append(outbox, c) /\ job' = job
        BY <2>3, <3>1, <3>2, SendMsgs
      <3>3. CASE outbox' = Append(outbox, AbortReq)
        BY <3>1, <3>3, SendMsgs
      <3>4. CASE outbox' = outbox
        BY <3>4 DEF IInv, TypeOK, Places
      <3> QED  BY <2>4, <3>2, <3>3, <3>4
    <2>6. /\ job' \in [Call -> {"none", "waiting", "running"}]
          /\ \A d \in Call : d # c => job'[d] = job[d]
          /\ job'[c] # "none" => kind[c] = "restore" /\ outbox' = outbox
      BY Zenon, <2>3, <2>4 DEF IInv, TypeOK
    <2>7. TypeOK'
      <3>1. \A d \in Call : d \in Range(inbox') \cup Range(outbox')
                                => d \in Range(inbox) \cup Range(outbox) \cup {c}
        BY <2>2, <2>5, CallAssumption DEF Msgs
      <3> QED  BY <2>1, <2>2, <2>3, <2>5, <2>6, <3>1 DEF IInv, TypeOK, queues
    <2>8. Places'
      <3>1. Msgs(inbox') \cap Msgs(outbox') = {}
        BY <2>2, <2>5 DEF IInv, Places
      <3>2. \A k \in Kind :
                /\ Distinct(answers[k]')
                /\ Msgs(answers[k]') \cap (Msgs(inbox') \cup Msgs(outbox')) = {}
                /\ \A d \in Msgs(answers[k]') : kind'[d] = k
        BY <2>1, <2>2, <2>3, <2>5 DEF IInv, Places, queues, Msgs
      <3>3. ASSUME NEW d \in Call, job'[d] # "none"
            PROVE  /\ d \notin Msgs(inbox') \cup Msgs(outbox')
                   /\ \A k \in Kind : d \notin Msgs(answers[k]')
        <4>1. d = c \/ job[d] # "none"
          BY <2>6, <3>3
        <4>2. CASE d = c
          BY <2>1, <2>2, <2>3, <2>6, <3>3, <4>2 DEF queues, Msgs
        <4>3. CASE d # c
          BY <2>1, <2>2, <2>5, <4>1, <4>3 DEF queues, Msgs, IInv, Places
        <4> QED  BY <4>2, <4>3
      <3> QED  BY <2>2, <2>5, <3>1, <3>2, <3>3 DEF Places
    <2>9. \A k \in Kind : Owed(k)' \subseteq Owed(k)
      <3>1. \A d \in Call : d \in Range(outbox') => d \in Range(outbox) \/ d = c
        BY <2>5, CallAssumption DEF Msgs
      <3> QED  BY <2>1, <2>2, <2>6, <3>1 DEF Owed, queues
    <2> QED  BY <2>1, <2>7, <2>8, <2>9, QuietStep
  <1> QED  BY <1>1, <1>2 DEF Handle

\* The scheduler's work on the request of a restore, up to its answer.
LEMMA WorkStep ==
    ASSUME IInv, NEW c \in Call, TimeOut(c) \/ Start(c) \/ Retract(c) \/ Finish(c)
    PROVE  IInv'
  <1>1. /\ job[c] # "none" /\ UNCHANGED <<kind, got, inbox, queues, loop, serving, aborts, alone>>
        /\ \/ job' = [job EXCEPT ![c] = "none"] /\ outbox' = Append(outbox, AbortReq)
           \/ job' = [job EXCEPT ![c] = "running"] /\ outbox' = outbox
           \/ job' = [job EXCEPT ![c] = "waiting"] /\ outbox' = outbox
           \/ job' = [job EXCEPT ![c] = "none"] /\ outbox' = Append(outbox, c)
    BY DEF TimeOut, Start, Retract, Finish, Work
  <1>2. /\ c \notin Msgs(inbox) \cup Msgs(outbox) /\ kind[c] = "restore"
        /\ \A k \in Kind : c \notin Msgs(answers[k])
    BY <1>1 DEF IInv, TypeOK, Places
  <1>3. /\ outbox' \in Seq(Call \cup {AbortReq}) /\ Distinct(outbox')
        /\ \/ Msgs(outbox') = Msgs(outbox) \cup {c} /\ job'[c] = "none"
           \/ Msgs(outbox') = Msgs(outbox)
    <2>1. AbortReq \notin Msgs(outbox) /\ AbortReq # c
      BY CallAssumption DEF Msgs
    <2>2. CASE outbox' = Append(outbox, c) /\ job' = [job EXCEPT ![c] = "none"]
      BY <1>2, <2>1, <2>2, SendMsgs DEF IInv, TypeOK
    <2>3. CASE outbox' = Append(outbox, AbortReq)
      BY Zenon, <2>1, <2>3, SendMsgs
    <2>4. CASE outbox' = outbox
      BY <2>4 DEF IInv, TypeOK, Places
    <2> QED  BY <1>1, <2>2, <2>3, <2>4
  <1>4. /\ job' \in [Call -> {"none", "waiting", "running"}]
        /\ \A d \in Call : d # c => job'[d] = job[d]
    BY Zenon, <1>1 DEF IInv, TypeOK
  <1>5. TypeOK'
    <2>1. \A d \in Call : d \in Range(outbox') => d \in Range(outbox) \cup {c}
      BY <1>3, CallAssumption DEF Msgs
    <2> QED  BY <1>1, <1>2, <1>3, <1>4, <2>1 DEF IInv, TypeOK, queues
  <1>6. Places'
    <2>1. Msgs(inbox') \cap Msgs(outbox') = {}
      BY <1>1, <1>2, <1>3 DEF IInv, Places, Msgs
    <2>2. \A k \in Kind :
              /\ Distinct(answers[k]')
              /\ Msgs(answers[k]') \cap (Msgs(inbox') \cup Msgs(outbox')) = {}
              /\ \A d \in Msgs(answers[k]') : kind'[d] = k
      BY <1>1, <1>2, <1>3 DEF IInv, Places, queues, Msgs
    <2>3. ASSUME NEW d \in Call, job'[d] # "none"
          PROVE  /\ d \notin Msgs(inbox') \cup Msgs(outbox')
                 /\ \A k \in Kind : d \notin Msgs(answers[k]')
      <3>1. CASE d = c
        BY <1>1, <1>2, <1>3, <2>3, <3>1 DEF queues, Msgs
      <3>2. CASE d # c
        BY <1>1, <1>3, <1>4, <2>3, <3>2 DEF queues, Msgs, IInv, Places
      <3> QED  BY <3>1, <3>2
    <2> QED  BY <1>1, <1>3, <2>1, <2>2, <2>3 DEF Places, IInv
  <1>7. \A k \in Kind : Owed(k)' \subseteq Owed(k)
    <2>1. \A d \in Call : d \in Range(outbox') => d \in Range(outbox) \/ d = c
      BY <1>3, CallAssumption DEF Msgs
    <2> QED  BY <1>1, <1>4, <2>1 DEF Owed, queues
  <1> QED  BY <1>1, <1>5, <1>6, <1>7, QuietStep

\* Starting the loop, and asking the scheduler to abort.
LEMMA OtherStep ==
    ASSUME IInv, StartLoop \/ SendAbort
    PROVE  IInv'
  <1>1. /\ UNCHANGED <<kind, got, job, outbox, queues, serving, alone>>
        /\ loop' \in BOOLEAN /\ aborts' \in Nat
        /\ inbox' = inbox \/ inbox' = Append(inbox, AbortReq)
    <2>1. loop \in BOOLEAN /\ aborts \in Nat
      BY DEF IInv, TypeOK
    <2>2. CASE StartLoop
      BY <2>1, <2>2 DEF StartLoop
    <2>3. CASE SendAbort
      <3>1. UNCHANGED <<kind, got, job, outbox, queues, loop, serving, alone>>
        BY <2>3, Zenon DEF SendAbort
      <3>2. loop' \in BOOLEAN
        BY <2>1, <3>1, Zenon
      <3>3. aborts' \in Nat /\ inbox' = Append(inbox, AbortReq)
        BY <2>1, <2>3 DEF SendAbort
      <3> QED  BY <3>1, <3>2, <3>3
    <2> QED  BY <2>2, <2>3
  <1>2. /\ inbox' \in Seq(Call \cup {AbortReq}) /\ Distinct(inbox')
        /\ Msgs(inbox') = Msgs(inbox)
    <2>1. CASE inbox' = inbox
      BY <2>1 DEF IInv, TypeOK, Places
    <2>2. CASE inbox' = Append(inbox, AbortReq)
      <3>1. /\ AbortReq \notin Msgs(inbox) /\ AbortReq \in Call \cup {AbortReq}
            /\ inbox \in Seq(Call \cup {AbortReq}) /\ Distinct(inbox)
        BY DEF Msgs, IInv, TypeOK, Places
      <3>2. /\ Append(inbox, AbortReq) \in Seq(Call \cup {AbortReq})
            /\ Msgs(Append(inbox, AbortReq)) = Msgs(inbox) \cup ({AbortReq} \ {AbortReq})
            /\ Distinct(Append(inbox, AbortReq))
        BY <3>1, AppendMsgs
      <3> QED  BY <2>2, <3>2
    <2> QED  BY <1>1, <2>1, <2>2
  <1>3. \A d \in Call : d \in Range(inbox') <=> d \in Range(inbox)
    BY <1>2, CallAssumption DEF Msgs
  <1>4. TypeOK'
    BY <1>1, <1>2, <1>3 DEF IInv, TypeOK, queues
  <1>5. Places'
    BY <1>1, <1>2 DEF IInv, Places, queues, Msgs
  <1>6. \A k \in Kind : Owed(k)' \subseteq Owed(k)
    BY <1>1, <1>3 DEF Owed, queues
  <1> QED  BY <1>1, <1>4, <1>5, <1>6, QuietStep

-----------------------------------------------------------------------------
(***************************************************************************)
(* The steps of the result queues                                          *)
(***************************************************************************)
\* An answer is put into a queue: somebody is woken, if anybody sleeps.
LEMMA PutQueues ==
    ASSUME IInv, NEW k \in Kind, NEW m \in Call, m \notin Msgs(answers[k]), Put(k, m)
    PROVE  /\ answers' \in [Kind -> Seq(Call)] /\ getters' \in [Kind -> Seq(Call)]
           /\ woken' \in [Kind -> Seq(Call)]
           /\ \A j \in Kind \ {k} : /\ answers'[j] = answers[j] /\ getters'[j] = getters[j]
                                    /\ woken'[j] = woken[j]
           /\ Distinct(answers'[k]) /\ Msgs(answers'[k]) = Msgs(answers[k]) \cup {m}
           /\ Len(answers'[k]) = Len(answers[k]) + 1
           /\ Distinct(getters'[k]) /\ Distinct(woken'[k])
           /\ Msgs(getters'[k]) \cap Msgs(woken'[k]) = {}
           /\ Msgs(getters'[k]) \cup Msgs(woken'[k]) = Msgs(getters[k]) \cup Msgs(woken[k])
           /\ \/ getters'[k] = <<>> /\ woken'[k] = woken[k]
              \/ Len(woken'[k]) = Len(woken[k]) + 1
  <1>1. /\ answers \in [Kind -> Seq(Call)] /\ getters \in [Kind -> Seq(Call)]
        /\ woken \in [Kind -> Seq(Call)]
        /\ answers[k] \in Seq(Call) /\ getters[k] \in Seq(Call) /\ woken[k] \in Seq(Call)
        /\ Distinct(answers[k]) /\ Distinct(getters[k]) /\ Distinct(woken[k])
        /\ Msgs(getters[k]) \cap Msgs(woken[k]) = {}
    BY DEF IInv, TypeOK, Places, Sleepers
  <1>2. /\ Append(answers[k], m) \in Seq(Call) /\ Distinct(Append(answers[k], m))
        /\ Msgs(Append(answers[k], m)) = Msgs(answers[k]) \cup ({m} \ {AbortReq})
        /\ Len(Append(answers[k], m)) = Len(answers[k]) + 1
    BY <1>1, AppendMsgs
  <1>3. answers' = [answers EXCEPT ![k] = Append(@, m)]
    BY DEF Put
  <1>4. /\ answers' \in [Kind -> Seq(Call)] /\ answers'[k] = Append(answers[k], m)
        /\ \A j \in Kind \ {k} : answers'[j] = answers[j]
        /\ Distinct(answers'[k]) /\ Msgs(answers'[k]) = Msgs(answers[k]) \cup {m}
        /\ Len(answers'[k]) = Len(answers[k]) + 1
    BY <1>1, <1>2, <1>3, CallAssumption
  <1>5. CASE getters[k] = <<>>
    <2>1. getters' = getters /\ woken' = woken
      BY <1>5 DEF Put
    <2> QED  BY <1>1, <1>4, <1>5, <2>1
  <1>6. CASE getters[k] # <<>>
    <2> DEFINE h == Head(getters[k])
    <2>1. /\ getters' = [getters EXCEPT ![k] = Tail(@)]
          /\ woken' = [woken EXCEPT ![k] = Append(@, h)]
      BY <1>6 DEF Put
    <2>2. /\ Tail(getters[k]) \in Seq(Call) /\ h \in Call /\ h \in Range(getters[k])
          /\ Msgs(Tail(getters[k])) = Msgs(getters[k]) \ {h} /\ Distinct(Tail(getters[k]))
      BY <1>1, <1>6, TailMsgs
    <2>3. h \in Msgs(getters[k]) /\ h \notin Msgs(woken[k]) /\ h # AbortReq
      BY <1>1, <2>2, CallAssumption DEF Msgs
    <2>4. /\ Append(woken[k], h) \in Seq(Call) /\ Distinct(Append(woken[k], h))
          /\ Msgs(Append(woken[k], h)) = Msgs(woken[k]) \cup ({h} \ {AbortReq})
          /\ Len(Append(woken[k], h)) = Len(woken[k]) + 1
      BY <1>1, <2>2, <2>3, AppendMsgs
    <2>5. /\ getters' \in [Kind -> Seq(Call)] /\ woken' \in [Kind -> Seq(Call)]
          /\ getters'[k] = Tail(getters[k]) /\ woken'[k] = Append(woken[k], h)
          /\ \A j \in Kind \ {k} : getters'[j] = getters[j] /\ woken'[j] = woken[j]
      BY <1>1, <2>1, <2>2, <2>4
    <2> QED  BY <1>1, <1>4, <2>2, <2>3, <2>4, <2>5
  <1> QED  BY <1>5, <1>6

\* The tokenizer manager takes a message: the answer moves to its result queue,
\* and a sleeper is woken, or the server goes down.
LEMMA DeliverStep ==
    ASSUME IInv, Deliver
    PROVE  IInv'
  <1>0. PICK m : m = Head(outbox)
    OBVIOUS
  <1>1. /\ outbox # <<>> /\ outbox' = Tail(outbox)
        /\ UNCHANGED <<kind, got, inbox, job, loop, aborts, alone>>
    BY DEF Deliver
  <1>2. /\ outbox' \in Seq(Call \cup {AbortReq}) /\ m \in Call \cup {AbortReq}
        /\ m \in Range(outbox) /\ Distinct(outbox') /\ Msgs(outbox') = Msgs(outbox) \ {m}
    BY <1>0, <1>1, TailMsgs DEF IInv, TypeOK, Places
  <1>3. \A d \in Call : d \in Range(outbox') <=> d \in Range(outbox) \ {m}
    BY <1>2, CallAssumption DEF Msgs
  <1>4. CASE m = AbortReq
    <2>1. serving' = FALSE /\ UNCHANGED queues
      BY Zenon, <1>0, <1>4 DEF Deliver
    <2>2. TypeOK'
      BY Zenon, <1>1, <1>2, <1>3, <2>1 DEF IInv, TypeOK, queues
    <2>3. Places'
      BY <1>1, <1>2, <2>1 DEF IInv, Places, queues, Msgs
    <2>4. \A k \in Kind : Owed(k)' \subseteq Owed(k)
      BY <1>1, <1>3, <2>1 DEF Owed, queues
    <2> QED  BY <1>1, <2>1, <2>2, <2>3, <2>4, QuietStep
  <1>5. CASE m # AbortReq
    <2>0. PICK k : k = kind[m]
      OBVIOUS
    <2>1. m \in Call /\ Put(k, m) /\ serving' = serving
      BY <1>0, <1>2, <1>5, <2>0 DEF Deliver
    <2>2. /\ m \in Msgs(outbox) /\ m \notin Msgs(inbox) /\ job[m] = "none" /\ k \in Kind
          /\ \A j \in Kind : m \notin Msgs(answers[j])
      BY <1>2, <1>5, <2>0, <2>1 DEF IInv, TypeOK, Places, Msgs
    <2>3. /\ answers' \in [Kind -> Seq(Call)] /\ getters' \in [Kind -> Seq(Call)]
          /\ woken' \in [Kind -> Seq(Call)]
          /\ \A j \in Kind \ {k} : /\ answers'[j] = answers[j] /\ getters'[j] = getters[j]
                                   /\ woken'[j] = woken[j]
          /\ Distinct(answers'[k]) /\ Msgs(answers'[k]) = Msgs(answers[k]) \cup {m}
          /\ Len(answers'[k]) = Len(answers[k]) + 1
          /\ Distinct(getters'[k]) /\ Distinct(woken'[k])
          /\ Msgs(getters'[k]) \cap Msgs(woken'[k]) = {}
          /\ Msgs(getters'[k]) \cup Msgs(woken'[k]) = Msgs(getters[k]) \cup Msgs(woken[k])
          /\ \/ getters'[k] = <<>> /\ woken'[k] = woken[k]
             \/ Len(woken'[k]) = Len(woken[k]) + 1
      BY Zenon, <2>1, <2>2, PutQueues
    <2>4. TypeOK'
      BY Zenon, <1>1, <1>2, <1>3, <2>1, <2>3 DEF IInv, TypeOK
    <2>5. Places'
      <3>1. Distinct(inbox') /\ Distinct(outbox') /\ Msgs(inbox') \cap Msgs(outbox') = {}
        BY <1>1, <1>2 DEF IInv, Places, Msgs
      <3>2. ASSUME NEW j \in Kind
            PROVE  /\ Distinct(answers'[j])
                   /\ Msgs(answers'[j]) \cap (Msgs(inbox') \cup Msgs(outbox')) = {}
                   /\ \A c \in Msgs(answers'[j]) : kind'[c] = j
        <4>1. Msgs(inbox') = Msgs(inbox)
          BY SMTT(60), <1>1
        <4>2. CASE j = k
          <5>1. /\ Msgs(answers[k]) \cap (Msgs(inbox) \cup Msgs(outbox)) = {}
                /\ \A c \in Msgs(answers[k]) : kind[c] = k
            BY SMTT(60), <2>2 DEF IInv, Places
          <5>2. Msgs(answers'[k]) \cap (Msgs(inbox') \cup Msgs(outbox')) = {}
            BY SMTT(60), <1>2, <2>2, <2>3, <4>1, <5>1
          <5>3. \A c \in Msgs(answers'[k]) : kind'[c] = k
            BY Zenon, <1>1, <2>0, <2>3, <5>1
          <5> QED  BY <2>3, <4>2, <5>2, <5>3
        <4>3. CASE j # k
          BY ZenonT(60), <1>1, <1>2, <2>3, <4>1, <4>3 DEF IInv, Places
        <4> QED  BY <4>2, <4>3
      <3>3. ASSUME NEW c \in Call, job'[c] # "none"
            PROVE  /\ c \notin Msgs(inbox') \cup Msgs(outbox')
                   /\ \A j \in Kind : c \notin Msgs(answers'[j])
        BY Zenon, <1>1, <1>2, <2>2, <2>3, <3>3 DEF IInv, Places, Msgs
      <3> QED  BY <3>1, <3>2, <3>3 DEF Places
    <2>6. \A j \in Kind : Waiting(j)' = Waiting(j)
      BY <1>1 DEF Waiting
    <2>7. ASSUME NEW j \in Kind
          PROVE  Owed(j)' = Owed(j)
      <3>1. \A c \in Call : c \in Range(answers'[j]) <=>
                c \in Range(answers[j]) \/ (c = m /\ j = k)
        BY Zenon, <2>3, CallAssumption DEF Msgs
      <3>2. \A c \in Call : kind[c] = j =>
                (c \in Range(inbox') \cup Range(outbox') \cup Range(answers'[j]) <=>
                 c \in Range(inbox) \cup Range(outbox) \cup Range(answers[j]))
        BY <1>1, <1>2, <1>3, <2>0, <3>1
      <3> QED  BY <1>1, <3>2 DEF Owed
    <2>8. Taken'
      <3> SUFFICES ASSUME NEW c \in Call, got[c] # NoCall
                   PROVE  /\ kind[got[c]] = kind[c] /\ kind[c] # "none" /\ job[got[c]] = "none"
                          /\ got[c] \notin Msgs(inbox) \cup Msgs(outbox')
                          /\ \A j \in Kind : got[c] \notin Msgs(answers'[j])
        BY <1>1 DEF Taken, Msgs
      <3>1. /\ kind[got[c]] = kind[c] /\ kind[c] # "none" /\ job[got[c]] = "none"
            /\ got[c] \notin Msgs(inbox) \cup Msgs(outbox)
            /\ \A j \in Kind : got[c] \notin Msgs(answers[j])
        BY DEF IInv, Taken
      <3>2. got[c] # m
        BY <2>2, <3>1
      <3> QED  BY Zenon, <1>2, <2>3, <3>1, <3>2
    <2>9. AnswersTakenOnce'
      BY SMTT(60), <1>1 DEF IInv, AnswersTakenOnce
    <2>10. Sleepers'
      BY Zenon, <2>3, <2>6 DEF IInv, Sleepers
    <2>11. NoAnswerLeftOver'
      BY <2>6, <2>7 DEF IInv, NoAnswerLeftOver
    <2>12. NoLostWakeup'
      <3> SUFFICES ASSUME NEW j \in Kind
                   PROVE  Len(answers'[j]) <= Len(woken'[j])
        BY DEF NoLostWakeup
      <3>1. /\ Len(answers[j]) <= Len(woken[j]) /\ Len(answers[j]) \in Nat
            /\ Len(woken[j]) \in Nat /\ answers'[j] \in Seq(Call) /\ woken'[j] \in Seq(Call)
            /\ Len(answers'[j]) \in Nat /\ Len(woken'[j]) \in Nat
        BY SMTT(60), <2>3 DEF IInv, TypeOK, NoLostWakeup
      <3>2. CASE j # k
        BY SMTT(60), <2>3, <3>1, <3>2
      <3>3. CASE j = k /\ Len(woken'[k]) = Len(woken[k]) + 1
        BY <2>3, <3>1, <3>3
      <3>4. CASE j = k /\ getters'[k] = <<>>
        <4>1. Msgs(getters'[j]) = {}
          BY <3>4 DEF Msgs, Range
        <4>2. Waiting(j)' = Msgs(woken'[j])
          BY SMTT(60), <2>10, <4>1 DEF Sleepers
        <4>3. /\ Cardinality(Msgs(woken'[j])) = Len(woken'[j])
              /\ Cardinality(Msgs(answers'[j])) = Len(answers'[j])
          BY <2>3, <3>1, <3>4, LenIsCardinality
        <4>4. Msgs(answers'[j]) \in SUBSET Owed(j)'
          <5>1. Msgs(answers'[j]) \subseteq Call
            BY <3>1 DEF Msgs, Range
          <5>2. \A c \in Msgs(answers'[j]) : kind'[c] = j
            BY <2>5 DEF Places
          <5> QED  BY <5>1, <5>2 DEF Owed, Msgs
        <4>5. IsFiniteSet(Owed(j)') /\ Cardinality(Owed(j)') \in Nat
          BY <2>7, OwedMsgs DEF IInv
        <4>6. Cardinality(Msgs(answers'[j])) <= Cardinality(Owed(j)')
          BY <4>4, <4>5, FS_Subset
        <4>7. Cardinality(Owed(j)') <= Cardinality(Waiting(j)')
          BY <2>11 DEF NoAnswerLeftOver
        <4> QED  BY <3>1, <4>2, <4>3, <4>5, <4>6, <4>7
      <3> QED  BY <2>3, <3>2, <3>3, <3>4
    <2>13. Lone'
      <3> SUFFICES ASSUME NEW c \in alone
                   PROVE  /\ kind[c] # "none" /\ got[c] \in {c, NoCall}
                          /\ got[c] = NoCall =>
                               Owed(kind[c])' \subseteq {c} /\ Waiting(kind[c])' = {c}
        BY <1>1 DEF Lone, Owed, Waiting
      <3>1. kind[c] \in Kind /\ kind' = kind
        BY <1>1 DEF IInv, TypeOK, Lone
      <3>2. Owed(kind[c])' = Owed(kind[c]) /\ Waiting(kind[c])' = Waiting(kind[c])
        BY <2>6, <2>7, <3>1
      <3> QED  BY <3>2 DEF IInv, Lone
    <2> QED  BY <2>4, <2>5, <2>8, <2>9, <2>10, <2>11, <2>12, <2>13 DEF IInv
  <1> QED  BY <1>4, <1>5

=============================================================================
