------------------------ MODULE SnapshotCallsProofs ------------------------
(***************************************************************************)
(* The steps of the callers, and the theorems about the snapshot calls.    *)
(***************************************************************************)
EXTENDS SnapshotCallsInvariant

\* An answer is taken from a queue.
LEMMA TakeAnswer ==
    ASSUME IInv, NEW k \in Kind, answers[k] # <<>>,
           answers' = [answers EXCEPT ![k] = Tail(@)], NEW h, h = Head(answers[k])
    PROVE  /\ h \in Call /\ kind[h] = k /\ job[h] = "none"
           /\ h \notin Msgs(inbox) \cup Msgs(outbox)
           /\ h \in Owed(k) /\ \A d \in Call : got[d] # h
           /\ answers' \in [Kind -> Seq(Call)] /\ Distinct(answers'[k])
           /\ Msgs(answers'[k]) = Msgs(answers[k]) \ {h}
           /\ Len(answers'[k]) = Len(answers[k]) - 1
           /\ \A j \in Kind \ {k} : answers'[j] = answers[j] /\ h \notin Msgs(answers[j])
  <1>1. answers \in [Kind -> Seq(Call)] /\ answers[k] \in Seq(Call) /\ Distinct(answers[k])
    BY DEF IInv, TypeOK, Places
  <1>2. /\ Tail(answers[k]) \in Seq(Call) /\ h \in Call /\ h \in Range(answers[k])
        /\ Msgs(Tail(answers[k])) = Msgs(answers[k]) \ {h}
        /\ Distinct(Tail(answers[k])) /\ Len(Tail(answers[k])) = Len(answers[k]) - 1
    BY <1>1, TailMsgs
  <1>3. h \in Msgs(answers[k])
    BY <1>2, CallAssumption DEF Msgs
  <1>4. kind[h] = k /\ h \notin Msgs(inbox) \cup Msgs(outbox)
    BY <1>3 DEF IInv, Places
  <1>5. job[h] = "none" /\ \A j \in Kind \ {k} : h \notin Msgs(answers[j])
    BY <1>2, <1>3, <1>4 DEF IInv, Places
  <1>6. \A d \in Call : got[d] # h
    BY <1>2, <1>3, CallAssumption DEF IInv, Taken, NoCall
  <1>7. h \in Owed(k)
    BY <1>2, <1>4 DEF Owed
  <1>8. /\ answers' \in [Kind -> Seq(Call)] /\ answers'[k] = Tail(answers[k])
        /\ \A j \in Kind \ {k} : answers'[j] = answers[j]
    BY <1>1, <1>2
  <1> QED  BY <1>2, <1>4, <1>5, <1>6, <1>7, <1>8

\* A woken caller goes on.
LEMMA ResumeStep ==
    ASSUME IInv, NEW k \in Kind, Resume(k)
    PROVE  IInv'
  <1> DEFINE c == Head(woken[k])
  <1>1. /\ woken[k] # <<>> /\ woken' = [woken EXCEPT ![k] = Tail(@)] /\ Get(c, k)
        /\ UNCHANGED <<kind, inbox, job, outbox, loop, serving, aborts, alone>>
    BY DEF Resume
  <1>2. /\ woken \in [Kind -> Seq(Call)] /\ getters \in [Kind -> Seq(Call)]
        /\ woken[k] \in Seq(Call) /\ Distinct(woken[k])
        /\ getters[k] \in Seq(Call) /\ Distinct(getters[k])
        /\ Msgs(getters[k]) \cap Msgs(woken[k]) = {}
        /\ Waiting(k) = Msgs(getters[k]) \cup Msgs(woken[k])
    BY DEF IInv, TypeOK, Sleepers
  <1>3. /\ Tail(woken[k]) \in Seq(Call) /\ c \in Call /\ c \in Range(woken[k])
        /\ Msgs(Tail(woken[k])) = Msgs(woken[k]) \ {c} /\ Distinct(Tail(woken[k]))
        /\ Len(Tail(woken[k])) = Len(woken[k]) - 1
    BY <1>1, <1>2, TailMsgs
  <1>4. /\ woken' \in [Kind -> Seq(Call)] /\ woken'[k] = Tail(woken[k])
        /\ \A j \in Kind \ {k} : woken'[j] = woken[j]
    BY <1>1, <1>2, <1>3
  <1>5. c \in Msgs(woken[k]) /\ c \in Waiting(k) /\ c # AbortReq /\ kind[c] = k /\ got[c] = NoCall
    BY <1>2, <1>3, CallAssumption DEF Msgs, Waiting
  <1> HIDE DEF c
  <1>6. CASE answers[k] = <<>>
    <2>1. /\ getters' = [getters EXCEPT ![k] = Append(@, c)] /\ got' = got
          /\ answers' = answers
      BY <1>1, <1>6 DEF Get
    <2>2. c \notin Msgs(getters[k])
      BY <1>2, <1>5
    <2>3. /\ Append(getters[k], c) \in Seq(Call) /\ Distinct(Append(getters[k], c))
          /\ Msgs(Append(getters[k], c)) = Msgs(getters[k]) \cup ({c} \ {AbortReq})
      BY <1>2, <1>3, <2>2, AppendMsgs
    <2>4. /\ getters' \in [Kind -> Seq(Call)] /\ getters'[k] = Append(getters[k], c)
          /\ \A j \in Kind \ {k} : getters'[j] = getters[j]
      BY <1>2, <2>1, <2>3
    <2>5. \A j \in Kind : Waiting(j)' = Waiting(j) /\ Owed(j)' = Owed(j)
      BY <1>1, <2>1 DEF Waiting, Owed
    <2>6. TypeOK'
      BY Zenon, <1>1, <1>4, <2>1, <2>4 DEF IInv, TypeOK
    <2>7. Places' /\ Taken' /\ AnswersTakenOnce'
      <3>1. Places'
        BY <1>1, <2>1 DEF IInv, Places
      <3>2. Taken'
        BY <1>1, <2>1 DEF IInv, Taken
      <3> QED  BY <2>1, <3>1, <3>2 DEF IInv, AnswersTakenOnce
    <2>8. Sleepers'
      <3> SUFFICES ASSUME NEW j \in Kind
                   PROVE  /\ Distinct(getters'[j]) /\ Distinct(woken'[j])
                          /\ Msgs(getters'[j]) \cap Msgs(woken'[j]) = {}
                          /\ Waiting(j) = Msgs(getters'[j]) \cup Msgs(woken'[j])
        BY <2>5 DEF Sleepers
      <3>1. CASE j = k
        <4>1. /\ Msgs(getters'[k]) = Msgs(getters[k]) \cup {c}
              /\ Msgs(woken'[k]) = Msgs(woken[k]) \ {c}
          BY <1>3, <1>4, <1>5, <2>3, <2>4
        <4>2. Waiting(k) = Msgs(getters'[k]) \cup Msgs(woken'[k])
          BY <1>2, <1>5, <4>1
        <4> QED  BY Zenon, <1>2, <1>3, <1>4, <2>3, <2>4, <3>1, <4>1, <4>2
      <3>2. CASE j # k
        BY Zenon, <1>4, <2>4, <3>2 DEF IInv, Sleepers
      <3> QED  BY <3>1, <3>2
    <2>9. NoAnswerLeftOver'
      BY <2>5 DEF IInv, NoAnswerLeftOver
    <2>10. NoLostWakeup'
      <3> SUFFICES ASSUME NEW j \in Kind
                   PROVE  Len(answers[j]) <= Len(woken'[j])
        BY <2>1 DEF NoLostWakeup
      <3>1. CASE j = k
        BY <1>4, <1>6, <3>1
      <3>2. CASE j # k
        BY <1>4, <3>2 DEF IInv, NoLostWakeup
      <3> QED  BY <3>1, <3>2
    <2>11. Lone'
      <3> SUFFICES ASSUME NEW d \in alone
                   PROVE  /\ kind[d] # "none" /\ got[d] \in {d, NoCall}
                          /\ got[d] = NoCall =>
                               Owed(kind[d])' \subseteq {d} /\ Waiting(kind[d])' = {d}
        BY <1>1, <2>1 DEF Lone, Owed, Waiting
      <3>1. kind[d] \in Kind /\ kind' = kind
        BY <1>1 DEF IInv, TypeOK, Lone
      <3>2. Owed(kind[d])' = Owed(kind[d]) /\ Waiting(kind[d])' = Waiting(kind[d])
        BY <2>5, <3>1
      <3> QED  BY <3>2 DEF IInv, Lone
    <2> QED  BY <2>6, <2>7, <2>8, <2>9, <2>10, <2>11 DEF IInv
  <1>7. CASE answers[k] # <<>>
    <2> DEFINE h == Head(answers[k])
    <2>1. /\ got' = [got EXCEPT ![c] = h] /\ answers' = [answers EXCEPT ![k] = Tail(@)]
          /\ getters' = getters
      BY <1>1, <1>7 DEF Get
    <2>2. /\ h \in Call /\ kind[h] = k /\ job[h] = "none"
          /\ h \notin Msgs(inbox) \cup Msgs(outbox)
          /\ h \in Owed(k) /\ \A d \in Call : got[d] # h
          /\ answers' \in [Kind -> Seq(Call)] /\ Distinct(answers'[k])
          /\ Msgs(answers'[k]) = Msgs(answers[k]) \ {h}
          /\ Len(answers'[k]) = Len(answers[k]) - 1
          /\ \A j \in Kind \ {k} : answers'[j] = answers[j] /\ h \notin Msgs(answers[j])
      BY Zenon, <1>7, <2>1, TakeAnswer
    <2> HIDE DEF h
    <2>3. /\ got' \in [Call -> Call \cup {NoCall}] /\ got'[c] = h /\ h # NoCall
          /\ \A d \in Call \ {c} : got'[d] = got[d]
      BY <1>3, <2>1, <2>2, CallAssumption DEF IInv, TypeOK, NoCall
    <2>4. TypeOK'
      BY <1>1, <1>4, <2>1, <2>2, <2>3 DEF IInv, TypeOK
    <2>5. Places'
      <3>1. \A j \in Kind : Distinct(answers'[j]) /\ Msgs(answers'[j]) \subseteq Msgs(answers[j])
        BY <2>2 DEF IInv, Places
      <3> QED  BY Zenon, <1>1, <3>1 DEF IInv, Places, Msgs
    <2>6. Taken'
      <3> SUFFICES ASSUME NEW d \in Call, got'[d] # NoCall
                   PROVE  /\ kind[got'[d]] = kind[d] /\ kind[d] # "none"
                          /\ job[got'[d]] = "none"
                          /\ got'[d] \notin Msgs(inbox) \cup Msgs(outbox)
                          /\ \A j \in Kind : got'[d] \notin Msgs(answers'[j])
        BY <1>1 DEF Taken, Msgs
      <3>1. CASE d = c
        BY <1>5, <2>2, <2>3, <3>1, CallAssumption
      <3>2. CASE d # c
        <4>1. got'[d] = got[d]
          BY <2>3, <3>2
        <4> QED  BY <2>2, <4>1 DEF IInv, Taken
      <3> QED  BY <3>1, <3>2
    <2>7. AnswersTakenOnce'
      BY <2>2, <2>3 DEF IInv, AnswersTakenOnce
    <2>8. /\ Waiting(k)' = Waiting(k) \ {c} /\ Owed(k)' = Owed(k) \ {h}
          /\ \A j \in Kind \ {k} : Waiting(j)' = Waiting(j) /\ Owed(j)' = Owed(j)
      <3>1. Waiting(k)' = Waiting(k) \ {c}
        BY <1>1, <1>3, <2>3 DEF Waiting
      <3>2. \A j \in Kind \ {k} : Waiting(j)' = Waiting(j)
        BY <1>1, <1>5, <2>3 DEF Waiting
      <3>3. \A d \in Call : d \in Range(answers'[k]) <=> d \in Range(answers[k]) \ {h}
        BY <2>2, CallAssumption DEF Msgs
      <3>4. h \notin Range(inbox) \cup Range(outbox)
        BY <2>2, CallAssumption DEF Msgs
      <3>5. Owed(k)' = Owed(k) \ {h}
        BY <1>1, <2>2, <3>3, <3>4 DEF Owed
      <3>6. \A j \in Kind \ {k} : Owed(j)' = Owed(j)
        BY <1>1, <2>2 DEF Owed
      <3> QED  BY <3>1, <3>2, <3>5, <3>6
    <2>9. Sleepers'
      <3> SUFFICES ASSUME NEW j \in Kind
                   PROVE  /\ Distinct(getters[j]) /\ Distinct(woken'[j])
                          /\ Msgs(getters[j]) \cap Msgs(woken'[j]) = {}
                          /\ Waiting(j)' = Msgs(getters[j]) \cup Msgs(woken'[j])
        BY <2>1 DEF Sleepers
      <3>1. CASE j = k
        <4>1. /\ Msgs(woken'[k]) = Msgs(woken[k]) \ {c} /\ Distinct(woken'[k])
              /\ c \notin Msgs(getters[k])
          BY <1>2, <1>3, <1>4, <1>5
        <4>2. Waiting(k) \ {c} = Msgs(getters[k]) \cup Msgs(woken'[k])
          BY <1>2, <4>1
        <4>3. Msgs(getters[k]) \cap Msgs(woken'[k]) = {}
          BY <1>2, <4>1
        <4>4. Waiting(k)' = Msgs(getters[k]) \cup Msgs(woken'[k])
          BY <2>8, <4>2
        <4> QED  BY <1>2, <3>1, <4>1, <4>3, <4>4
      <3>2. CASE j # k
        BY Zenon, <1>4, <2>8, <3>2 DEF IInv, Sleepers
      <3> QED  BY <3>1, <3>2
    <2>10. NoAnswerLeftOver'
      <3>1. /\ IsFiniteSet(Owed(k)) /\ IsFiniteSet(Waiting(k))
            /\ Cardinality(Owed(k)) \in Nat /\ Cardinality(Waiting(k)) \in Nat
        BY OwedMsgs DEF IInv
      <3>2. /\ Cardinality(Owed(k) \ {h}) = Cardinality(Owed(k)) - 1
            /\ Cardinality(Waiting(k) \ {c}) = Cardinality(Waiting(k)) - 1
        BY Zenon, <1>5, <2>2, <3>1, FS_RemoveElement
      <3>3. \A j \in Kind : Cardinality(Owed(j)) <= Cardinality(Waiting(j))
        BY DEF IInv, NoAnswerLeftOver
      <3>4. Cardinality(Owed(k) \ {h}) <= Cardinality(Waiting(k) \ {c})
        BY <3>1, <3>2, <3>3
      <3>5. Cardinality(Owed(k)') <= Cardinality(Waiting(k)')
        BY <2>8, <3>4
      <3>6. \A j \in Kind \ {k} : Cardinality(Owed(j)') <= Cardinality(Waiting(j)')
        BY <2>8, <3>3
      <3> QED  BY <3>5, <3>6 DEF NoAnswerLeftOver
    <2>11. NoLostWakeup'
      <3> SUFFICES ASSUME NEW j \in Kind
                   PROVE  Len(answers'[j]) <= Len(woken'[j])
        BY DEF NoLostWakeup
      <3>1. /\ Len(answers[j]) <= Len(woken[j]) /\ Len(answers[j]) \in Nat
            /\ Len(woken[j]) \in Nat
        BY DEF IInv, TypeOK, NoLostWakeup
      <3>2. CASE j = k
        BY <1>3, <1>4, <2>2, <3>1, <3>2
      <3>3. CASE j # k
        BY <1>4, <2>2, <3>1, <3>3
      <3> QED  BY <3>2, <3>3
    <2>12. Lone'
      <3> SUFFICES ASSUME NEW d \in alone
                   PROVE  /\ kind[d] # "none" /\ got'[d] \in {d, NoCall}
                          /\ got'[d] = NoCall =>
                               Owed(kind[d])' \subseteq {d} /\ Waiting(kind[d])' = {d}
        BY <1>1 DEF Lone, Owed, Waiting
      <3>1. kind[d] \in Kind /\ kind' = kind /\ d \in Call
        BY <1>1 DEF IInv, TypeOK, Lone
      <3>2. /\ kind[d] # "none" /\ got[d] \in {d, NoCall}
            /\ got[d] = NoCall => Owed(kind[d]) \subseteq {d} /\ Waiting(kind[d]) = {d}
        BY DEF IInv, Lone
      <3>3. CASE d = c
        <4>1. h = d
          BY <1>5, <2>2, <3>2, <3>3
        <4> QED  BY <2>3, <3>2, <3>3, <4>1
      <3>4. CASE d # c
        <4>1. got'[d] = got[d]
          BY <2>3, <3>1, <3>4
        <4>2. got[d] = NoCall => kind[d] # k
          BY <1>5, <3>2, <3>4
        <4> QED  BY <2>8, <3>1, <3>2, <4>1, <4>2
      <3> QED  BY <3>3, <3>4
    <2> QED  BY <2>4, <2>5, <2>6, <2>7, <2>9, <2>10, <2>11, <2>12 DEF IInv
  <1> QED  BY <1>6, <1>7

\* A call is made: nothing in the system is about it yet.
LEMMA NewCall ==
    ASSUME IInv, NEW c \in Call, kind[c] = "none"
    PROVE  /\ c \notin Msgs(inbox) \cup Msgs(outbox) /\ job[c] = "none"
           /\ got[c] = NoCall /\ \A d \in Call : got[d] # c
           /\ c \notin alone
           /\ \A k \in Kind : /\ c \notin Msgs(answers[k]) /\ c \notin Waiting(k)
                              /\ c \notin Msgs(getters[k]) \cup Msgs(woken[k])
                              /\ c \notin Owed(k)
  <1>1. c \notin Msgs(inbox) \cup Msgs(outbox) /\ job[c] = "none"
    BY DEF IInv, TypeOK, Msgs
  <1>2. got[c] = NoCall /\ \A d \in Call : got[d] # c
    BY CallAssumption DEF IInv, Taken, NoCall
  <1>3. c \notin alone
    BY DEF IInv, Lone
  <1>4. ASSUME NEW k \in Kind
        PROVE  /\ c \notin Msgs(answers[k]) /\ c \notin Waiting(k)
               /\ c \notin Msgs(getters[k]) \cup Msgs(woken[k]) /\ c \notin Owed(k)
    <2>1. k # "none"
      BY CallAssumption
    <2>2. c \notin Msgs(answers[k])
      BY <2>1 DEF IInv, Places
    <2>3. c \notin Waiting(k) /\ c \notin Owed(k)
      BY <2>1 DEF Waiting, Owed
    <2> QED  BY <2>2, <2>3 DEF IInv, Sleepers
  <1> QED  BY <1>1, <1>2, <1>3, <1>4

\* A call is sent, and its caller goes to sleep or takes an answer that is there.
LEMMA IssueStep ==
    ASSUME IInv, NEW c \in Call, NEW k \in Kind, Issue(c, k)
    PROVE  IInv'
  <1>a. /\ kind[c] = "none" /\ kind' = [kind EXCEPT ![c] = k]
        /\ inbox' = Append(inbox, c) /\ Get(c, k)
    BY DEF Issue
  <1>b. alone' = IF Waiting(k) = {} THEN alone \cup {c} ELSE alone \ Waiting(k)
    BY DEF Issue
  <1>1. /\ job' = job /\ outbox' = outbox /\ woken' = woken /\ loop' = loop
        /\ serving' = serving /\ aborts' = aborts
    BY DEF Issue
  <1>2. c \notin Msgs(inbox) \cup Msgs(outbox) /\ job[c] = "none" /\ c \notin alone
    BY <1>a, NewCall
  <1>c. got[c] = NoCall /\ \A d \in Call : got[d] # c
    BY <1>a, NewCall
  <1>d. \A j \in Kind : c \notin Waiting(j) /\ c \notin Owed(j)
    BY <1>a, NewCall
  <1>e. \A j \in Kind : c \notin Msgs(answers[j])
    BY <1>a, NewCall
  <1>f. c \notin Msgs(getters[k]) \cup Msgs(woken[k])
    BY <1>a, NewCall
  <1>3. /\ kind' \in [Call -> Kind \cup {"none"}] /\ kind'[c] = k /\ k # "none"
        /\ kind[c] = "none" /\ \A d \in Call \ {c} : kind'[d] = kind[d]
    BY <1>a, CallAssumption DEF IInv, TypeOK
  <1>4. /\ inbox' \in Seq(Call \cup {AbortReq}) /\ Distinct(inbox')
        /\ Msgs(inbox') = Msgs(inbox) \cup {c}
    <2>1. /\ inbox \in Seq(Call \cup {AbortReq}) /\ c \in Call \cup {AbortReq}
          /\ Distinct(inbox) /\ c \notin Msgs(inbox) /\ c # AbortReq
      BY <1>2, CallAssumption DEF IInv, TypeOK, Places
    <2>2. /\ Append(inbox, c) \in Seq(Call \cup {AbortReq}) /\ Distinct(Append(inbox, c))
          /\ Msgs(Append(inbox, c)) = Msgs(inbox) \cup ({c} \ {AbortReq})
      BY <2>1, AppendMsgs
    <2> QED  BY <1>a, <2>1, <2>2
  <1>5. \A d \in Call : d \in Range(inbox') <=> d \in Range(inbox) \/ d = c
    BY <1>4, CallAssumption DEF Msgs
  <1>6. alone' \subseteq Call
    BY <1>b DEF IInv, TypeOK
  <1>7. \A j \in Kind : c \notin Range(answers[j])
    BY <1>e, CallAssumption DEF Msgs
  <1>h. /\ outbox' \in Seq(Call \cup {AbortReq})
        /\ job' \in [Call -> {"none", "waiting", "running"}] /\ woken' \in [Kind -> Seq(Call)]
        /\ loop' \in BOOLEAN /\ serving' \in BOOLEAN /\ aborts' \in Nat
        /\ \A d \in Call : job'[d] # "none" => kind'[d] = "restore"
        /\ \A d \in Call : d \in Range(inbox') \cup Range(outbox') => kind'[d] # "none"
    <2>1. /\ outbox' \in Seq(Call \cup {AbortReq})
          /\ job' \in [Call -> {"none", "waiting", "running"}] /\ woken' \in [Kind -> Seq(Call)]
          /\ loop' \in BOOLEAN /\ serving' \in BOOLEAN /\ aborts' \in Nat
      BY Zenon, <1>1 DEF IInv, TypeOK
    <2>2. \A d \in Call : job'[d] # "none" => kind'[d] = "restore"
      BY <1>1, <1>2, <1>3 DEF IInv, TypeOK
    <2>3. \A d \in Call : d \in Range(inbox) \cup Range(outbox) => kind[d] # "none"
      BY DEF IInv, TypeOK
    <2>4. \A d \in Call : d \in Range(inbox') \cup Range(outbox') => kind'[d] # "none"
      BY <1>1, <1>3, <1>5, <2>3
    <2> QED  BY <2>1, <2>2, <2>4
  <1>8. CASE answers[k] = <<>>
    <2>1. /\ getters' = [getters EXCEPT ![k] = Append(@, c)] /\ got' = got
          /\ answers' = answers
      BY <1>a, <1>8 DEF Get
    <2>2. getters \in [Kind -> Seq(Call)] /\ getters[k] \in Seq(Call) /\ Distinct(getters[k])
      BY DEF IInv, TypeOK, Sleepers
    <2>3. /\ Append(getters[k], c) \in Seq(Call) /\ Distinct(Append(getters[k], c))
          /\ Msgs(Append(getters[k], c)) = Msgs(getters[k]) \cup ({c} \ {AbortReq})
      BY <1>f, <2>2, AppendMsgs
    <2>4. /\ getters' \in [Kind -> Seq(Call)] /\ Distinct(getters'[k])
          /\ Msgs(getters'[k]) = Msgs(getters[k]) \cup {c}
          /\ \A j \in Kind \ {k} : getters'[j] = getters[j]
      BY <2>1, <2>2, <2>3, CallAssumption
    <2>5. /\ Waiting(k)' = Waiting(k) \cup {c} /\ Owed(k)' = Owed(k) \cup {c}
          /\ \A j \in Kind \ {k} : Waiting(j)' = Waiting(j) /\ Owed(j)' = Owed(j)
      <3>1. Waiting(k)' = Waiting(k) \cup {c}
        BY <1>c, <1>3, <2>1, CallAssumption DEF Waiting
      <3>2. \A j \in Kind \ {k} : Waiting(j)' = Waiting(j)
        BY <1>c, <1>3, <2>1, CallAssumption DEF Waiting
      <3>3. Owed(k)' = Owed(k) \cup {c}
        BY <1>1, <1>3, <1>5, <2>1 DEF Owed
      <3>4. \A j \in Kind \ {k} : Owed(j)' = Owed(j)
        BY <1>1, <1>2, <1>3, <1>5, <1>7, <2>1, CallAssumption DEF Owed
      <3> QED  BY <3>1, <3>2, <3>3, <3>4
    <2>6. TypeOK'
      <3>1. got' \in [Call -> Call \cup {NoCall}] /\ answers' \in [Kind -> Seq(Call)]
        BY <2>1 DEF IInv, TypeOK
      <3> QED  BY <1>3, <1>4, <1>6, <1>h, <2>4, <3>1 DEF TypeOK
    <2>7. Places'
      <3>1. \A j \in Kind : \A d \in Msgs(answers[j]) : d \in Call /\ d # c
        BY <1>e DEF IInv, TypeOK, Msgs, Range
      <3>2. \A j \in Kind : \A d \in Msgs(answers[j]) : kind'[d] = j
        BY <1>3, <3>1 DEF IInv, Places
      <3>3. Msgs(inbox') \cap Msgs(outbox) = {}
        BY <1>2, <1>4 DEF IInv, Places
      <3>4. ASSUME NEW j \in Kind
            PROVE  /\ Distinct(answers[j])
                   /\ Msgs(answers[j]) \cap (Msgs(inbox') \cup Msgs(outbox)) = {}
        BY <1>4, <1>e DEF IInv, Places
      <3>5. ASSUME NEW d \in Call, job[d] # "none"
            PROVE  /\ d \notin Msgs(inbox') \cup Msgs(outbox)
                   /\ \A j \in Kind : d \notin Msgs(answers[j])
        BY <1>2, <1>4, <3>5 DEF IInv, Places
      <3>6. Distinct(outbox)
        BY DEF IInv, Places
      <3> QED  BY <1>1, <1>4, <2>1, <3>2, <3>3, <3>4, <3>5, <3>6 DEF Places
    <2>8. Taken' /\ AnswersTakenOnce'
      <3>1. ASSUME NEW d \in Call, got[d] # NoCall
            PROVE  /\ kind'[got[d]] = kind'[d] /\ kind'[d] # "none" /\ job[got[d]] = "none"
                   /\ got[d] \notin Msgs(inbox') \cup Msgs(outbox)
                   /\ \A j \in Kind : got[d] \notin Msgs(answers[j])
        <4>1. d # c /\ got[d] # c /\ got[d] \in Call
          BY <1>c, <3>1 DEF IInv, TypeOK
        <4> QED  BY <1>3, <1>4, <3>1, <4>1 DEF IInv, Taken
      <3>2. Taken'
        BY <1>1, <2>1, <3>1 DEF Taken
      <3> QED  BY <2>1, <3>2 DEF IInv, AnswersTakenOnce
    <2>9. Sleepers'
      <3>1. /\ Distinct(getters'[k]) /\ Distinct(woken[k])
            /\ Msgs(getters'[k]) \cap Msgs(woken[k]) = {}
            /\ Waiting(k)' = Msgs(getters'[k]) \cup Msgs(woken[k])
        <4>1. /\ Distinct(woken[k]) /\ Msgs(getters[k]) \cap Msgs(woken[k]) = {}
              /\ Waiting(k) = Msgs(getters[k]) \cup Msgs(woken[k])
          BY DEF IInv, Sleepers
        <4>2. Waiting(k) \cup {c} = Msgs(getters'[k]) \cup Msgs(woken[k])
          BY <2>4, <4>1
        <4> QED  BY <1>f, <2>4, <2>5, <4>1, <4>2
      <3>2. \A j \in Kind \ {k} :
                /\ Distinct(getters'[j]) /\ Distinct(woken[j])
                /\ Msgs(getters'[j]) \cap Msgs(woken[j]) = {}
                /\ Waiting(j)' = Msgs(getters'[j]) \cup Msgs(woken[j])
        BY Zenon, <2>4, <2>5 DEF IInv, Sleepers
      <3> QED  BY <1>1, <3>1, <3>2 DEF Sleepers
    <2>10. NoAnswerLeftOver'
      <3>1. /\ IsFiniteSet(Owed(k)) /\ IsFiniteSet(Waiting(k))
            /\ Cardinality(Owed(k)) \in Nat /\ Cardinality(Waiting(k)) \in Nat
        BY OwedMsgs DEF IInv
      <3>2. /\ Cardinality(Owed(k) \cup {c}) = Cardinality(Owed(k)) + 1
            /\ Cardinality(Waiting(k) \cup {c}) = Cardinality(Waiting(k)) + 1
        BY Zenon, <1>d, <3>1, FS_AddElement
      <3>3. \A j \in Kind : Cardinality(Owed(j)) <= Cardinality(Waiting(j))
        BY DEF IInv, NoAnswerLeftOver
      <3>4. Cardinality(Owed(k) \cup {c}) <= Cardinality(Waiting(k) \cup {c})
        BY <3>1, <3>2, <3>3
      <3>5. Cardinality(Owed(k)') <= Cardinality(Waiting(k)')
        BY <2>5, <3>4
      <3>6. \A j \in Kind \ {k} : Cardinality(Owed(j)') <= Cardinality(Waiting(j)')
        BY <2>5, <3>3
      <3> QED  BY <3>5, <3>6 DEF NoAnswerLeftOver
    <2>11. NoLostWakeup'
      BY <1>1, <2>1 DEF IInv, NoLostWakeup
    <2>12. Lone'
      <3>1. ASSUME NEW d \in alone', d # c
            PROVE  /\ kind'[d] \in Kind /\ got[d] \in {d, NoCall}
                   /\ \A j \in Kind : kind'[d] = j /\ got[d] = NoCall =>
                        Owed(j)' \subseteq {d} /\ Waiting(j)' = {d}
        <4>1. d \in alone /\ d \in Call /\ kind'[d] = kind[d] /\ d \notin Waiting(k)
          BY <1>b, <1>3, <1>6, <3>1
        <4>2. /\ kind[d] \in Kind /\ got[d] \in {d, NoCall}
              /\ got[d] = NoCall => Owed(kind[d]) \subseteq {d} /\ Waiting(kind[d]) = {d}
          BY Zenon, <4>1 DEF IInv, Lone, TypeOK
        <4>3. got[d] = NoCall => kind[d] # k
          BY <4>1 DEF Waiting
        <4>4. ASSUME NEW j \in Kind, kind'[d] = j, got[d] = NoCall
              PROVE  Owed(j)' \subseteq {d} /\ Waiting(j)' = {d}
          BY <2>5, <4>1, <4>2, <4>3, <4>4
        <4> QED  BY <4>1, <4>2, <4>4
      <3>2. ASSUME c \in alone'
            PROVE  Owed(k)' \subseteq {c} /\ Waiting(k)' = {c}
        <4>1. Waiting(k) = {}
          BY <1>b, <1>2, <3>2
        <4>2. Cardinality(Waiting(k)) = 0
          BY <4>1, FS_EmptySet
        <4>3. Cardinality(Owed(k)) <= 0 /\ IsFiniteSet(Owed(k)) /\ Cardinality(Owed(k)) \in Nat
          BY <4>2, OwedMsgs DEF IInv, NoAnswerLeftOver
        <4>4. Owed(k) = {}
          BY <4>3, FS_EmptySet
        <4> QED  BY <2>5, <4>1, <4>4
      <3>3. ASSUME NEW d \in alone'
            PROVE  /\ kind'[d] \in Kind /\ got'[d] \in {d, NoCall}
                   /\ \A j \in Kind : kind'[d] = j /\ got'[d] = NoCall =>
                        Owed(j)' \subseteq {d} /\ Waiting(j)' = {d}
        <4>1. CASE d # c
          BY Zenon, <2>1, <3>1, <4>1
        <4>2. CASE d = c
          <5>1. kind'[c] = k /\ got'[c] = NoCall
            BY <1>c, <1>3, <2>1
          <5> QED  BY <3>2, <4>2, <5>1
        <4> QED  BY <4>1, <4>2
      <3>4. ASSUME NEW d \in alone', got'[d] = NoCall
            PROVE  (Owed(kind[d]) \subseteq {d} /\ Waiting(kind[d]) = {d})'
        BY <3>3, <3>4 DEF Owed, Waiting
      <3> QED  BY <3>3, <3>4, CallAssumption DEF Lone
    <2> QED  BY <2>6, <2>7, <2>8, <2>9, <2>10, <2>11, <2>12 DEF IInv
  <1>9. CASE answers[k] # <<>>
    <2> DEFINE h == Head(answers[k])
    <2>1. /\ got' = [got EXCEPT ![c] = h] /\ answers' = [answers EXCEPT ![k] = Tail(@)]
          /\ getters' = getters
      BY <1>a, <1>9 DEF Get
    <2>2. /\ h \in Call /\ kind[h] = k /\ job[h] = "none"
          /\ h \notin Msgs(inbox) \cup Msgs(outbox)
          /\ h \in Owed(k) /\ \A d \in Call : got[d] # h
      BY Zenon, <1>9, <2>1, TakeAnswer
    <2>a. /\ answers' \in [Kind -> Seq(Call)] /\ Distinct(answers'[k])
          /\ Msgs(answers'[k]) = Msgs(answers[k]) \ {h}
          /\ \A j \in Kind \ {k} : answers'[j] = answers[j] /\ h \notin Msgs(answers[j])
      BY Zenon, <1>9, <2>1, TakeAnswer
    <2>b. Len(answers'[k]) = Len(answers[k]) - 1
      BY Zenon, <1>9, <2>1, TakeAnswer
    <2> HIDE DEF h
    <2>3. /\ got' \in [Call -> Call \cup {NoCall}] /\ got'[c] = h /\ h # NoCall /\ h # c
          /\ \A d \in Call \ {c} : got'[d] = got[d]
      BY <1>c, <1>d, <2>1, <2>2, CallAssumption DEF IInv, TypeOK, NoCall
    <2>4. TypeOK'
      <3>1. getters' \in [Kind -> Seq(Call)]
        BY <2>1 DEF IInv, TypeOK
      <3> QED  BY <1>3, <1>4, <1>6, <1>h, <2>a, <2>3, <3>1 DEF TypeOK
    <2>5. Places'
      <3>1. \A j \in Kind : Distinct(answers'[j]) /\ Msgs(answers'[j]) \subseteq Msgs(answers[j])
        BY <2>a DEF IInv, Places
      <3>2. \A j \in Kind : \A d \in Msgs(answers[j]) : d \in Call /\ d # c
        BY <1>e DEF IInv, TypeOK, Msgs, Range
      <3>3. \A j \in Kind : \A d \in Msgs(answers'[j]) : kind'[d] = j
        BY <1>3, <3>1, <3>2 DEF IInv, Places
      <3>4. /\ Distinct(outbox) /\ Msgs(inbox) \cap Msgs(outbox) = {}
            /\ \A j \in Kind : Msgs(answers[j]) \cap (Msgs(inbox) \cup Msgs(outbox)) = {}
            /\ \A d \in Call : job[d] # "none" =>
                    /\ d \notin Msgs(inbox) \cup Msgs(outbox)
                    /\ \A j \in Kind : d \notin Msgs(answers[j])
        BY DEF IInv, Places
      <3>5. /\ Msgs(inbox') \cap Msgs(outbox) = {}
            /\ \A j \in Kind : Msgs(answers'[j]) \cap (Msgs(inbox') \cup Msgs(outbox)) = {}
            /\ \A d \in Call : job[d] # "none" =>
                    /\ d \notin Msgs(inbox') \cup Msgs(outbox)
                    /\ \A j \in Kind : d \notin Msgs(answers'[j])
        <4>1. Msgs(inbox') \cap Msgs(outbox) = {}
          BY <1>2, <1>4, <3>4
        <4>2. ASSUME NEW j \in Kind
              PROVE  Msgs(answers'[j]) \cap (Msgs(inbox') \cup Msgs(outbox)) = {}
          <5>1. /\ Msgs(answers'[j]) \subseteq Msgs(answers[j]) /\ c \notin Msgs(answers[j])
                /\ Msgs(answers[j]) \cap (Msgs(inbox) \cup Msgs(outbox)) = {}
            BY <1>e, <3>1, <3>4
          <5> QED  BY <1>4, <5>1
        <4>3. ASSUME NEW d \in Call, job[d] # "none"
              PROVE  /\ d \notin Msgs(inbox') \cup Msgs(outbox)
                     /\ \A j \in Kind : d \notin Msgs(answers'[j])
          <5>1. d # c /\ d \notin Msgs(inbox) \cup Msgs(outbox)
            BY <1>2, <3>4, <4>3
          <5>2. \A j \in Kind : d \notin Msgs(answers[j])
            BY <3>4, <4>3
          <5>3. d \notin Msgs(inbox') \cup Msgs(outbox)
            BY <1>4, <5>1
          <5> QED  BY <3>1, <5>2, <5>3
        <4> QED  BY <4>1, <4>2, <4>3
      <3> QED  BY <1>1, <1>4, <3>1, <3>3, <3>4, <3>5 DEF Places, Msgs
    <2>6. Taken'
      <3> SUFFICES ASSUME NEW d \in Call, got'[d] # NoCall
                   PROVE  /\ kind'[got'[d]] = kind'[d] /\ kind'[d] # "none"
                          /\ job[got'[d]] = "none"
                          /\ got'[d] \notin Msgs(inbox') \cup Msgs(outbox)
                          /\ \A j \in Kind : got'[d] \notin Msgs(answers'[j])
        BY <1>1 DEF Taken, Msgs
      <3>1. CASE d = c
        <4>1. got'[d] = h /\ kind'[d] = k /\ kind'[h] = k
          BY <1>3, <2>2, <2>3, <3>1
        <4>2. h \notin Msgs(inbox') \cup Msgs(outbox)
          BY <1>4, <2>2, <2>3
        <4>3. \A j \in Kind : h \notin Msgs(answers'[j])
          BY <2>a
        <4> QED  BY <1>3, <2>2, <4>1, <4>2, <4>3
      <3>2. CASE d # c
        <4>1. got'[d] = got[d] /\ got[d] # c /\ got[d] \in Call
          BY <1>c, <2>3, <3>2 DEF IInv, TypeOK
        <4>2. /\ kind[got[d]] = kind[d] /\ kind[d] # "none" /\ job[got[d]] = "none"
              /\ got[d] \notin Msgs(inbox) \cup Msgs(outbox)
              /\ \A j \in Kind : got[d] \notin Msgs(answers[j])
          BY <4>1 DEF IInv, Taken
        <4>3. kind'[got[d]] = kind'[d] /\ kind'[d] # "none"
          BY <1>3, <3>2, <4>1, <4>2
        <4>4. got[d] \notin Msgs(inbox') \cup Msgs(outbox)
          BY <1>4, <4>1, <4>2
        <4>5. \A j \in Kind : got[d] \notin Msgs(answers'[j])
          BY <2>a, <4>2
        <4> QED  BY <4>1, <4>2, <4>3, <4>4, <4>5
      <3> QED  BY <3>1, <3>2
    <2>7. AnswersTakenOnce'
      BY <2>2, <2>3 DEF IInv, AnswersTakenOnce
    <2>8. /\ Waiting(k)' = Waiting(k) /\ Owed(k)' = (Owed(k) \ {h}) \cup {c}
          /\ \A j \in Kind \ {k} : Waiting(j)' = Waiting(j) /\ Owed(j)' = Owed(j)
      <3>1. Waiting(k)' = Waiting(k)
        BY <1>c, <1>3, <2>3, CallAssumption DEF Waiting
      <3>2. \A j \in Kind \ {k} : Waiting(j)' = Waiting(j)
        BY <1>c, <1>3, <2>3, CallAssumption DEF Waiting
      <3>3. \A d \in Call : d \in Range(answers'[k]) <=> d \in Range(answers[k]) \ {h}
        BY <2>a, CallAssumption DEF Msgs
      <3>4. h \notin Range(inbox) \cup Range(outbox)
        BY <2>2, CallAssumption DEF Msgs
      <3>5. Owed(k)' = (Owed(k) \ {h}) \cup {c}
        BY SMTT(60), <1>1, <1>3, <1>5, <2>2, <2>3, <3>3, <3>4 DEF Owed
      <3>6. \A j \in Kind \ {k} : Owed(j)' = Owed(j)
        BY SMTT(60), <1>1, <1>2, <1>3, <1>5, <1>7, <2>a, CallAssumption DEF Owed
      <3> QED  BY <3>1, <3>2, <3>5, <3>6
    <2>9. Sleepers'
      <3>1. \A j \in Kind : Waiting(j)' = Waiting(j)
        BY <2>8
      <3> QED  BY <1>1, <2>1, <3>1 DEF IInv, Sleepers, Msgs
    <2>10. /\ IsFiniteSet(Owed(k)) /\ Cardinality(Owed(k)) \in Nat
           /\ Cardinality(Waiting(k)) \in Nat
           /\ Cardinality(Owed(k) \ {h}) = Cardinality(Owed(k)) - 1
           /\ Cardinality(Owed(k)) <= Cardinality(Waiting(k))
      <3>1. IsFiniteSet(Owed(k)) /\ Cardinality(Owed(k)) \in Nat /\ Cardinality(Waiting(k)) \in Nat
        BY OwedMsgs DEF IInv
      <3> QED  BY Zenon, <2>2, <3>1, FS_RemoveElement DEF IInv, NoAnswerLeftOver
    <2>11. NoAnswerLeftOver'
      <3>1. IsFiniteSet(Owed(k) \ {h}) /\ c \notin Owed(k) \ {h}
        BY <1>d, <2>10, FS_Subset
      <3>2. Cardinality((Owed(k) \ {h}) \cup {c}) = Cardinality(Owed(k) \ {h}) + 1
        BY Zenon, <3>1, FS_AddElement
      <3>3. Cardinality((Owed(k) \ {h}) \cup {c}) <= Cardinality(Waiting(k))
        BY <2>10, <3>2
      <3>4. Cardinality(Owed(k)') <= Cardinality(Waiting(k)')
        BY <2>8, <3>3
      <3>5. \A j \in Kind \ {k} : Cardinality(Owed(j)') <= Cardinality(Waiting(j)')
        BY <2>8 DEF IInv, NoAnswerLeftOver
      <3> QED  BY <3>4, <3>5 DEF NoAnswerLeftOver
    <2>12. NoLostWakeup'
      <3> SUFFICES ASSUME NEW j \in Kind
                   PROVE  Len(answers'[j]) <= Len(woken[j])
        BY <1>1 DEF NoLostWakeup
      <3>1. /\ Len(answers[j]) <= Len(woken[j]) /\ Len(answers[j]) \in Nat
            /\ Len(woken[j]) \in Nat
        BY DEF IInv, TypeOK, NoLostWakeup
      <3>2. CASE j = k
        BY <2>b, <3>1, <3>2
      <3>3. CASE j # k
        BY <2>a, <3>1, <3>3
      <3> QED  BY <3>2, <3>3
    <2>13. Lone'
      <3>1. Waiting(k) # {}
        <4>1. Cardinality(Owed(k)) # 0
          BY <2>2, <2>10, FS_EmptySet
        <4>2. Cardinality(Waiting(k)) # 0
          BY <2>10, <4>1
        <4> QED  BY <4>2, FS_EmptySet
      <3>2. ASSUME NEW d \in alone'
            PROVE  /\ kind'[d] \in Kind /\ got'[d] \in {d, NoCall}
                   /\ \A j \in Kind : kind'[d] = j /\ got'[d] = NoCall =>
                        Owed(j)' \subseteq {d} /\ Waiting(j)' = {d}
        <4>1. d \in alone /\ d \in Call /\ d # c /\ d \notin Waiting(k)
          BY <1>b, <1>2, <1>6, <3>1
        <4>2. kind'[d] = kind[d] /\ got'[d] = got[d]
          BY <1>3, <2>3, <4>1
        <4>3. /\ kind[d] \in Kind /\ got[d] \in {d, NoCall}
              /\ got[d] = NoCall => Owed(kind[d]) \subseteq {d} /\ Waiting(kind[d]) = {d}
          BY Zenon, <4>1 DEF IInv, Lone, TypeOK
        <4>4. got[d] = NoCall => kind[d] # k
          BY <4>1 DEF Waiting
        <4>5. ASSUME NEW j \in Kind, kind'[d] = j, got'[d] = NoCall
              PROVE  Owed(j)' \subseteq {d} /\ Waiting(j)' = {d}
          BY <2>8, <4>2, <4>3, <4>4, <4>5
        <4> QED  BY <4>2, <4>3, <4>5
      <3>3. ASSUME NEW d \in alone', got'[d] = NoCall
            PROVE  (Owed(kind[d]) \subseteq {d} /\ Waiting(kind[d]) = {d})'
        BY <3>2, <3>3 DEF Owed, Waiting
      <3> QED  BY <3>2, <3>3, CallAssumption DEF Lone
    <2> QED  BY <2>4, <2>5, <2>6, <2>7, <2>9, <2>11, <2>12, <2>13 DEF IInv
  <1> QED  BY <1>8, <1>9

-----------------------------------------------------------------------------
(***************************************************************************)
(* The invariant, and what follows from it                                 *)
(***************************************************************************)
\* Nothing has been called.
LEMMA InitStep == Init => IInv
  <1> SUFFICES ASSUME Init PROVE IInv
    OBVIOUS
  <1>1. /\ kind = [c \in Call |-> "none"] /\ got = [c \in Call |-> NoCall]
        /\ inbox = <<>> /\ outbox = <<>> /\ job = [c \in Call |-> "none"]
        /\ answers = [k \in Kind |-> <<>>] /\ getters = [k \in Kind |-> <<>>]
        /\ woken = [k \in Kind |-> <<>>]
        /\ loop = FALSE /\ serving = TRUE /\ aborts = 0 /\ alone = {}
    BY DEF Init
  <1>2. Range(<<>>) = {} /\ Distinct(<<>>) /\ Msgs(<<>>) = {}
    BY DEF Range, Distinct, Msgs
  <1>3. \A k \in Kind : Waiting(k) = {} /\ Owed(k) = {}
    BY <1>1, CallAssumption DEF Waiting, Owed
  <1>4. TypeOK
    <2>1. loop \in BOOLEAN /\ serving \in BOOLEAN /\ aborts \in Nat /\ alone \subseteq Call
      BY Zenon, <1>1
    <2>2. /\ kind \in [Call -> Kind \cup {"none"}] /\ got \in [Call -> Call \cup {NoCall}]
          /\ inbox \in Seq(Call \cup {AbortReq}) /\ outbox \in Seq(Call \cup {AbortReq})
          /\ job \in [Call -> {"none", "waiting", "running"}]
          /\ answers \in [Kind -> Seq(Call)] /\ getters \in [Kind -> Seq(Call)]
          /\ woken \in [Kind -> Seq(Call)]
      BY <1>1
    <2>3. \A c \in Call : job[c] = "none" /\ c \notin Range(inbox) \cup Range(outbox)
      BY <1>1, <1>2
    <2> QED  BY <2>1, <2>2, <2>3 DEF TypeOK
  <1>5. Places /\ Taken /\ AnswersTakenOnce
    BY <1>1, <1>2 DEF Places, Taken, AnswersTakenOnce
  <1>6. Sleepers
    BY <1>1, <1>2, <1>3 DEF Sleepers
  <1>7. NoAnswerLeftOver
    BY <1>3, FS_EmptySet DEF NoAnswerLeftOver
  <1>8. NoLostWakeup /\ Lone
    BY <1>1 DEF NoLostWakeup, Lone
  <1> QED  BY <1>4, <1>5, <1>6, <1>7, <1>8 DEF IInv

\* A step that changes nothing.
LEMMA StutterStep ==
    ASSUME IInv, UNCHANGED vars
    PROVE  IInv'
  <1>1. /\ UNCHANGED <<kind, got, inbox, job, outbox, alone>> /\ UNCHANGED queues
        /\ UNCHANGED <<answers, getters, woken, loop, serving, aborts>>
    BY DEF vars, queues
  <1>2. TypeOK'
    BY <1>1 DEF IInv, TypeOK
  <1>3. Places'
    BY <1>1 DEF IInv, Places, Msgs, Distinct
  <1>4. \A k \in Kind : Owed(k)' \subseteq Owed(k)
    BY <1>1 DEF Owed
  <1> QED  BY <1>1, <1>2, <1>3, <1>4, QuietStep DEF queues

\* Every step of the calls, the event loop and the scheduler keeps IInv.
LEMMA NextStep == IInv /\ [Next]_vars => IInv'
  <1> SUFFICES ASSUME IInv, [Next]_vars PROVE IInv'
    OBVIOUS
  <1>1. CASE \E c \in Call, k \in Kind : Issue(c, k)
    BY <1>1, IssueStep
  <1>2. CASE \E k \in Kind : Resume(k)
    BY <1>2, ResumeStep
  <1>3. CASE StartLoop \/ SendAbort
    BY <1>3, OtherStep
  <1>4. CASE Deliver
    BY <1>4, DeliverStep
  <1>5. CASE Handle
    BY <1>5, HandleStep
  <1>6. CASE \E c \in Call : TimeOut(c) \/ Start(c) \/ Retract(c) \/ Finish(c)
    BY <1>6, WorkStep
  <1>7. CASE UNCHANGED vars
    BY <1>7, StutterStep
  <1> QED  BY <1>1, <1>2, <1>3, <1>4, <1>5, <1>6, <1>7 DEF Next

\* Each of IInv's parts holds throughout.
LEMMA Inductive == Spec => []IInv
  <1> QED  BY InitStep, NextStep, PTL DEF Spec

\* Type correctness: messages are about calls that have been made, and only a
\* restore ever has a request.
THEOREM TypeCorrect == Spec => []TypeOK
  <1>1. IInv => TypeOK
    BY DEF IInv
  <1> QED  BY <1>1, Inductive, PTL

\* However many calls and kinds there are, and whatever is aborted, timed out
\* or rejected, there is never an answer under way for which no caller waits.
THEOREM NothingLeftOver == Spec => []NoAnswerLeftOver
  <1>1. IInv => NoAnswerLeftOver
    BY DEF IInv
  <1> QED  BY <1>1, Inductive, PTL

\* No answer is handed to two callers.
THEOREM TakenOnce == Spec => []AnswersTakenOnce
  <1>1. IInv => AnswersTakenOnce
    BY DEF IInv
  <1> QED  BY <1>1, Inductive, PTL

\* A call that meets no other of its kind returns with its own answer, if it
\* returns: nothing of an earlier call can be in the queue or reach it later.
THEOREM LoneCalls == Spec => []LoneCallGetsItsAnswer
  <1>1. IInv => LoneCallGetsItsAnswer
    BY DEF IInv, Lone, LoneCallGetsItsAnswer
  <1> QED  BY <1>1, Inductive, PTL

\* The queues lose no wakeup, although a new caller may take the answer for
\* which another was woken.
THEOREM NoneSleepsOn == Spec => []NoLostWakeup
  <1>1. IInv => NoLostWakeup
    BY DEF IInv
  <1> QED  BY <1>1, Inductive, PTL

=============================================================================
