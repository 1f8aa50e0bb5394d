-------------------------- MODULE RestoreScheduler --------------------------
(***************************************************************************)
(* Restored state on its way through the scheduler: from the staged entry, *)
(* through the Mamba slot that hydration or a restore fills, the waiting   *)
(* queue, the admission loop, the prefill that should build on it, and the *)
(* decode batch, with the retractions, timeouts, aborts and queue limits   *)
(* that can intervene.  The configuration is the documented one: no prefix *)
(* cache (ChunkCache), a slot per running request, FCFS, one token per     *)
(* step.                                                                   *)
(*                                                                         *)
(* The event loop handles the received calls (pc = "inputs"), then merges  *)
(* the last prefill batch, admits waiting requests and runs one prefill or *)
(* one decode step; calls arrive only between two such rounds.             *)
(***************************************************************************)
EXTENDS PendingRegistry, Sequences, Functions

CONSTANTS
    Rid,         \* rids chosen by clients
    NewRid,      \* rids made by the server for restore-and-generate
    Conv,        \* conversations that have a snapshot on disk
    Slot,        \* the slots of the Mamba pool
    NoSlot,      \* mamba_pool_idx is None
    Prompt,      \* the new tokens of a request, as opposed to a history
    MaxRunning,  \* max_running_requests, the size of req_to_token_pool
    MaxQueued,   \* max_queued_requests
    MaxTokens,   \* bound on max_new_tokens
    Feature      \* what can happen: "refuse", "retract", "timeout", "abort",
                 \* "live", "new", "invalid"

ASSUME MaxRunningAssumption == MaxRunning \in Nat \ {0}
ASSUME NoSlotAssumption == NoSlot \notin Slot
ASSUME PromptAssumption == Prompt \notin Conv
ASSUME RidAssumption == Rid \subseteq Id /\ NewRid \subseteq Id /\ Rid \cap NewRid = {}
ASSUME ConvAssumption == Conv \subseteq Id /\ Conv \subseteq Snap
ASSUME BoundsAssumption == MaxQueued \in Nat /\ MaxTokens \in Nat \ {0}

VARIABLES
    pending,  \* the registry of staged restores
    req,      \* rid -> the live request object
    queue,    \* the requests of waiting_queue
    ahead,    \* its order: the pairs <<r1, r2>> with r1 ahead of r2
    batch,    \* can_run_list, then the batch being prefilled
    last,     \* last_batch, when it was a prefill not merged yet
    running,  \* running_batch.reqs
    full,     \* running_batch.batch_is_full
    free,     \* slot -> how many times it is in free_slots
    content,  \* slot -> the histories and prompts its state has absorbed
    pc,       \* where the event loop is
    crash     \* the assertion that has stopped the scheduler

vars == <<pending, req, queue, ahead, batch, last, running, full, free, content, pc, crash>>

AllRid == Rid \cup NewRid
Live == DOMAIN req
Scheduled == last \cup running

(***************************************************************************)
(* A request: its conversation, its slot, mamba_has_restored_state, the    *)
(* tokens it will prefill, whether to_finish is an abort, the tokens it    *)
(* may still generate and whether it has finished.  Two fields are not in  *)
(* the code: want, what the state should have absorbed once the request is *)
(* prefilled, and spoilt, that a restored request was refused, retracted   *)
(* or restored once more.                                                  *)
(***************************************************************************)
Request == [conv : Key, slot : Slot \cup {NoSlot}, restored : BOOLEAN,
            tokens : Seq(Conv \cup {Prompt}), want : Seq(Conv \cup {Prompt}),
            abort : BOOLEAN, left : 0..MaxTokens, done : BOOLEAN, spoilt : BOOLEAN]

\* The state of a restored request is lost or overwritten.
Spoilt(q) == [q EXCEPT !.spoilt = @ \/ q.restored]

Without(rs) == [r \in Live \ rs |-> req[r]]
With(r, q) == [x \in Live \cup {r} |-> IF x = r THEN q ELSE req[x]]

FreeSlots == {s \in Slot : free[s] > 0}
Taken(s) == [free EXCEPT ![s] = @ - 1]

\* Mutant: the slots are forgotten.
ReleasedNothing(rs) == free

\* mamba_pool.free of the slots these requests hold.
Released(rs) == [s \in Slot |-> free[s] + Cardinality({r \in rs : req[r].slot = s})]

\* inject_state_to_pool: the slot holds the history h and nothing else.
Inject(s, h) == [content EXCEPT ![s] = h]

\* The order of a queue: among any of its requests one is the first.
Line(o, rs) ==
    /\ o \subseteq rs \X rs
    /\ \A r1, r2 \in rs : <<r1, r2>> \in o => <<r2, r1>> \notin o
    /\ \A S \in SUBSET rs : S # {} => \E r1 \in S : \A r2 \in S \ {r1} : <<r1, r2>> \in o

First == {r \in queue : \A x \in queue \ {r} : <<r, x>> \in ahead}

Leave(rs) ==
    /\ queue' = queue \ rs
    /\ ahead' = {e \in ahead : e[1] \notin rs /\ e[2] \notin rs}

Join(rs) ==
    /\ queue' = queue \cup rs
    /\ \E o \in SUBSET (rs \X rs) : Line(o, rs) /\ ahead' = ahead \cup (queue \X rs) \cup o

\* Mutant: requests are enqueued whatever the limit.
AcceptedAlways(rs) == {rs}

\* _add_request_to_queue, of one request after the other: what a full queue
\* does not turn away.
Accepted(rs) ==
    {in \in SUBSET rs :
        IF in = rs THEN Cardinality(queue) + Cardinality(rs) <= MaxQueued
        ELSE Cardinality(queue) + Cardinality(in) = MaxQueued}

-----------------------------------------------------------------------------
Init ==
    /\ pending = Empty
    /\ req = [r \in {} |-> {}]
    /\ queue = {} /\ ahead = {} /\ batch = {} /\ last = {} /\ running = {}
    /\ full = FALSE
    /\ free = [s \in Slot |-> 1]
    /\ content = [s \in Slot |-> <<>>]
    /\ pc = "inputs" /\ crash = "none"

Ready(here) == pc = here /\ crash = "none"

\* Put a new request on the queue; a request turned away leaves nothing behind.
Arrive(r, q) ==
    /\ \E in \in Accepted({r}) : Join(in) /\ req' = IF r \in in THEN With(r, q) ELSE req
    /\ UNCHANGED <<batch, last, running, full, pc, crash>>

\* handle_generate_request without a staged entry; validation may fail it.
GenerateFresh(r, conv, left, invalid) ==
    /\ Ready("inputs") /\ r \notin Live /\ Lookup(pending, r, conv) = {}
    /\ LET prompt == IF invalid THEN <<>> ELSE <<Prompt>>
       IN  Arrive(r, [conv |-> conv, slot |-> NoSlot, restored |-> FALSE, tokens |-> prompt,
                      want |-> prompt, abort |-> invalid, left |-> left, done |-> FALSE, spoilt |-> FALSE])
    /\ UNCHANGED <<pending, free, content>>

\* The request hits a staged entry: a slot is filled with its state and the
\* request, valid or not, waits with that slot.
GenerateHydrated(r, conv, left, invalid) ==
    /\ Ready("inputs") /\ r \notin Live
    /\ \E k \in Lookup(pending, r, conv), s \in FreeSlots :
        LET c == HydratedConversation(pending, r, conv, k)
            state == <<pending.entry[k].snap>>
            prompt == IF invalid THEN <<>> ELSE <<Prompt>>
        IN  /\ Arrive(r, [conv |-> c, slot |-> s, restored |-> TRUE, tokens |-> prompt,
                          want |-> state \o prompt, abort |-> invalid, left |-> left,
                          done |-> FALSE, spoilt |-> FALSE])
            /\ free' = Taken(s)
            /\ content' = Inject(s, state)
            /\ pending' = MoveToEnd(pending, k)

\* The request hits a staged entry and the pool is exhausted: it is failed,
\* and runs one cheap prefill to report it.
GenerateHydrationFails(r, conv, left) ==
    /\ Ready("inputs") /\ r \notin Live
    /\ Lookup(pending, r, conv) # {} /\ FreeSlots = {}
    /\ Arrive(r, [conv |-> conv, slot |-> NoSlot, restored |-> FALSE, tokens |-> <<>>,
                  want |-> <<>>, abort |-> TRUE, left |-> left, done |-> FALSE, spoilt |-> FALSE])
    /\ UNCHANGED <<pending, free, content>>

(***************************************************************************)
(* handle_restore_snapshot.  What it does with a rid depends on where      *)
(* _find_request_by_rid finds it.                                          *)
(***************************************************************************)
\* Mutant: any live request with a slot is taken to be idle.
RestoreIgnoresRunning(rid) ==
    IF rid \notin Live THEN "staged"
    ELSE IF req[rid].slot = NoSlot THEN "stateless" ELSE "live"

RestoreOutcome(rid) ==
    IF rid \notin Live THEN "staged"
    ELSE IF rid \in running THEN "running"
         ELSE IF req[rid].slot = NoSlot THEN "stateless" ELSE "live"

\* No such request: the snapshot is loaded and staged.
RestoreStaged(rid, conv) ==
    /\ Ready("inputs") /\ RestoreOutcome(rid) = "staged"
    /\ pending' = Staged(pending, rid, conv, conv)
    /\ UNCHANGED <<req, queue, ahead, batch, last, running, full, free, content, pc, crash>>

\* A live request with a slot: its state and its tokens are replaced.
RestoreLive(rid, conv) ==
    /\ "live" \in Feature
    /\ Ready("inputs") /\ RestoreOutcome(rid) = "live"
    /\ content' = Inject(req[rid].slot, <<conv>>)
    /\ pending' = Drop(pending, ClearTarget(pending, rid, conv))
    /\ req' = With(rid, [Spoilt(req[rid]) EXCEPT !.conv = conv, !.tokens = <<conv>>, !.want = <<conv>>])
    /\ UNCHANGED <<queue, ahead, batch, last, running, full, free, pc, crash>>

\* Restore and generate: a new request with the whole history as its tokens.
\* Its slot is filled too, but it is not marked as restored.
RestoreCreate(rid, conv, left) ==
    /\ "new" \in Feature
    /\ Ready("inputs") /\ rid \notin Live
    /\ \E s \in FreeSlots :
        /\ Arrive(rid, [conv |-> conv, slot |-> s, restored |-> FALSE,
                        tokens |-> <<conv, Prompt>>, want |-> <<conv, Prompt>>,
                        abort |-> FALSE, left |-> left, done |-> FALSE, spoilt |-> FALSE])
        /\ free' = Taken(s)
        /\ content' = Inject(s, <<conv>>)
    /\ UNCHANGED pending

\* release_kv_cache of a request that was never prefilled: without
\* MambaRadixCache it asserts that the request holds no slot.
EarlyFree(q) == IF q.slot = NoSlot THEN crash ELSE "early_free"

\* abort_request: a waiting request is popped, and one that holds a slot is
\* released; a scheduled one is told to finish.
AbortRequest(r) ==
    /\ "abort" \in Feature
    /\ Ready("inputs") /\ r \in Live
    /\ IF r \in queue
       THEN /\ Leave({r})
            /\ req' = Without({r})
            /\ crash' = EarlyFree(req[r])
       ELSE /\ ~req[r].done
            /\ req' = With(r, [req[r] EXCEPT !.abort = TRUE])
            /\ UNCHANGED <<queue, ahead, crash>>
    /\ UNCHANGED <<pending, batch, last, running, full, free, content, pc>>

-----------------------------------------------------------------------------
(***************************************************************************)
(* get_next_batch_to_run.                                                  *)
(***************************************************************************)
Finished(rs) == {r \in rs : req[r].done}

\* Mutant: a batch that shrinks leaves the full mark.
FullStays(shrunk, replaced) == full

\* batch_is_full is cleared when the batch shrinks or is another object.
FullAfter(shrunk, replaced) == full /\ ~shrunk /\ ~replaced

\* Requests that waited too long are dropped, then the last prefill batch,
\* without the requests that have finished, joins the running batch.
MergeLastBatch(late) ==
    /\ Ready("inputs")
    /\ late \subseteq queue /\ (late # {} => "timeout" \in Feature)
    /\ LET over == Finished(last)
       IN  /\ req' = Without(late \cup over)
           /\ Leave(late)
           /\ running' = running \cup (last \ over)
           /\ last' = {}
           /\ full' = FullAfter(over # {}, running = {} /\ last \ over # {})
    /\ pc' = "admit"
    /\ UNCHANGED <<pending, batch, free, content, crash>>

\* Mutant: the running requests are not counted.
BatchIsFullOfNew == full \/ Cardinality(batch) >= MaxRunning

\* get_num_allocatable_reqs.
BatchIsFull == full \/ Cardinality(batch) >= MaxRunning - Cardinality(running)

\* add_one_req has room for a request that is alone; the tokens it may lack are
\* those of requests that run or were admitted before it.
TokensTaken == batch # {} \/ running # {}

\* The head of the queue fits and joins the new batch.
AdmitRequest ==
    /\ Ready("admit") /\ ~BatchIsFull
    /\ \E r \in First : batch' = batch \cup {r} /\ Leave({r})
    /\ UNCHANGED <<pending, req, last, running, full, free, content, pc, crash>>

\* The head of the queue does not fit for want of KV tokens (noToken) or of
\* prefill budget: its slot is given back and admission ends.
RefuseRequest(noToken) ==
    /\ "refuse" \in Feature
    /\ Ready("admit") /\ ~BatchIsFull
    /\ TokensTaken
    /\ \E r \in First :
           /\ free' = Released({r})
           /\ req' = With(r, [Spoilt(req[r]) EXCEPT !.slot = NoSlot])
    /\ full' = (full \/ noToken)
    /\ pc' = IF batch = {} THEN "decode" ELSE "prefill"
    /\ UNCHANGED <<pending, queue, ahead, batch, last, running, content, crash>>

\* The queue is exhausted or the batch is full.
AdmissionEnds ==
    /\ Ready("admit") /\ (queue = {} \/ BatchIsFull)
    /\ full' = (full \/ queue # {})
    /\ pc' = IF batch = {} THEN "decode" ELSE "prefill"
    /\ UNCHANGED <<pending, req, queue, ahead, batch, last, running, free, content, crash>>

\* update_finish_state: a request finishes with its last token or when it is to
\* be aborted.
Ending(q) == q.abort \/ q.left <= 1

\* What a forward pass does to a request: it gets a token, and if it finishes
\* its slot is freed.
Stepped(q) ==
    [q EXCEPT !.left = IF @ = 0 THEN 0 ELSE @ - 1, !.done = Ending(q),
              !.slot = IF Ending(q) THEN NoSlot ELSE @]

\* process_batch_result_decode of the requests rs.
Decoded(r, rs) == IF r \in rs THEN Stepped(req[r]) ELSE req[r]

\* Mutant: a slot taken for a request marked as restored is not cleared.
NotCleared(fresh, s) == content[s]

\* The state a slot holds when the prefill starts: a freshly allocated slot
\* is cleared.
Cleared(fresh, s) == IF fresh THEN <<>> ELSE content[s]

\* Mutant: the restored mask is left out.
NeverInitial(q, fresh, s) == <<>>

\* has_initial_states: without a cached prefix only a request marked as
\* restored builds on what is in its slot.
InitialState(q, fresh, s) == IF q.restored THEN Cleared(fresh, s) ELSE <<>>

\* The requests of the new batch that have no slot, and the slots that
\* req_to_token_pool.alloc may give them, each its own; there are none to give
\* when the pool is too small.
Slotless == {r \in batch : req[r].slot = NoSlot}
Allocations ==
    {given \in [Slotless -> FreeSlots] :
        \A r1, r2 \in Slotless : given[r1] = given[r2] => r1 = r2}

\* The slots the batch is prefilled into.
SlotOf(given) == [r \in batch |-> IF r \in Slotless THEN given[r] ELSE req[r].slot]

\* The forward pass over the new batch, and process_batch_result_prefill: the
\* requests that finish with their first token give their slots back.
Prefill(slot) ==
    /\ content' = [s \in Slot |->
           IF \E r \in batch : slot[r] = s
           THEN LET r == CHOOSE x \in batch : slot[x] = s
                IN  InitialState(req[r], r \in Slotless, s) \o req[r].tokens
           ELSE content[s]]
    /\ req' = [r \in Live |->
           IF r \in batch THEN Stepped([req[r] EXCEPT !.slot = slot[r]]) ELSE req[r]]
    /\ free' = [s \in Slot |->
           free[s] - Cardinality({r \in Slotless : slot[r] = s})
                   + Cardinality({r \in batch : slot[r] = s /\ Ending(req[r])})]
    /\ last' = batch /\ batch' = {}
    /\ pc' = "inputs"
    /\ UNCHANGED <<pending, queue, ahead, running, full, crash>>

\* prepare_for_extend asserts that there is a free slot for every request that
\* has none; then the batch is prefilled.
RunPrefill ==
    /\ Ready("prefill")
    /\ IF Allocations = {}
       THEN /\ crash' = "alloc"
            /\ UNCHANGED <<pending, req, queue, ahead, batch, last, running, full, free,
                           content, pc>>
       ELSE \E given \in Allocations : Prefill(SlotOf(given))

\* update_running_batch without memory pressure: the finished requests are
\* filtered out, the others decode a token.
DecodeBatch ==
    /\ Ready("decode")
    /\ LET over == Finished(running)
           rs == running \ over
           finishing == {r \in rs : Ending(req[r])}
       IN  /\ running' = rs
           /\ full' = FullAfter(over # {}, FALSE)
           /\ req' = [r \in Live \ over |-> Decoded(r, rs)]
           /\ free' = Released(finishing)
    /\ pc' = "inputs"
    /\ UNCHANGED <<pending, queue, ahead, batch, last, content, crash>>

\* Mutant: a retracted request keeps its slot while the slot is freed.
RetractedKeepsSlot(q) == [Spoilt(q) EXCEPT !.restored = FALSE]

\* reset_for_retract
Retracted(q) == [Spoilt(q) EXCEPT !.slot = NoSlot, !.restored = FALSE]

\* update_running_batch when the KV pool is exhausted: the requests in back
\* are released and put on the queue again, in some order, and the one in
\* doomed, if even that is not enough, is aborted; the others decode.
RetractDecode(back, doomed) ==
    /\ "retract" \in Feature
    /\ Ready("decode")
    /\ LET over == Finished(running)
           rs == running \ over
           keep == rs \ (back \cup doomed)
           finishing == {r \in keep : Ending(req[r])}
       IN  /\ back \cup doomed \subseteq rs /\ back \cap doomed = {}
           /\ IF doomed = {} THEN back # {} /\ keep # {} ELSE keep = {}
           /\ running' = keep
           /\ full' = FullAfter(keep # running, FALSE)
           /\ \E in \in Accepted(back) :
               /\ Join(in)
               /\ req' = [r \in Live \ (over \cup doomed \cup (back \ in)) |->
                             IF r \in in THEN Retracted(req[r]) ELSE Decoded(r, keep)]
           /\ free' = Released(back \cup doomed \cup finishing)
    /\ pc' = "inputs"
    /\ UNCHANGED <<pending, batch, last, content, crash>>

Inputs ==
    \/ \E r \in Rid, conv \in Conv \cup {NoId}, left \in 1..MaxTokens,
          invalid \in {FALSE} \cup (IF "invalid" \in Feature THEN {TRUE} ELSE {}) :
        \/ GenerateFresh(r, conv, left, invalid)
        \/ GenerateHydrated(r, conv, left, invalid)
    \/ \E r \in Rid, conv \in Conv \cup {NoId} : GenerateHydrationFails(r, conv, 1)
    \/ \E rid \in AllRid, conv \in Conv : RestoreStaged(rid, conv) \/ RestoreLive(rid, conv)
    \/ \E rid \in NewRid, conv \in Conv, left \in 1..MaxTokens : RestoreCreate(rid, conv, left)
    \/ \E r \in AllRid : AbortRequest(r)

Round ==
    \/ \E late \in SUBSET queue : MergeLastBatch(late)
    \/ AdmitRequest
    \/ \E noToken \in BOOLEAN : RefuseRequest(noToken)
    \/ AdmissionEnds
    \/ RunPrefill
    \/ DecodeBatch
    \/ \E back \in SUBSET running, doomed \in SUBSET running :
          Cardinality(doomed) <= 1 /\ RetractDecode(back, doomed)

Next == Inputs \/ Round

Spec == Init /\ [][Next]_vars

\* The event loop runs forever, whatever calls arrive.
FairSpec == Spec /\ WF_vars(Round)
-----------------------------------------------------------------------------
\* Every live request is in exactly one place: waiting (within the limit), in
\* the batch being built, in the last batch or in the running batch.
TypeOK ==
    /\ WellTyped(pending)
    /\ Live \subseteq AllRid /\ \A r \in Live : req[r] \in Request
    /\ Live = queue \cup batch \cup Scheduled
    /\ queue \cap (batch \cup Scheduled) = {} /\ batch \cap Scheduled = {} /\ last \cap running = {}
    /\ Line(ahead, queue) /\ Cardinality(queue) <= MaxQueued
    /\ full \in BOOLEAN
    /\ free \in [Slot -> Nat]
    /\ DOMAIN content = Slot /\ \A s \in Slot : content[s] \in Seq(Conv \cup {Prompt})
    /\ pc \in {"inputs", "admit", "prefill", "decode"}
    /\ crash \in {"none", "alloc", "early_free"}

\* No slot of the Mamba pool is freed twice, free while a request holds it, or
\* held by two requests, whichever of hydration, restore, admission, refusal,
\* retraction and completion took it and gave it back.
SlotsNotShared ==
    /\ \A s \in Slot : free[s] <= 1
    /\ \A r \in Live : req[r].slot # NoSlot => free[req[r].slot] = 0
    /\ \A r1, r2 \in Live : req[r1].slot = req[r2].slot => r1 = r2 \/ req[r1].slot = NoSlot

\* A slot is free or held by a request that will give it back.
NoSlotLeaks ==
    crash = "none" => \A s \in Slot : free[s] > 0 \/ \E r \in Live : req[r].slot = s

Computing == {r \in Scheduled : ~req[r].done}
Absorbed(r) == content[req[r].slot]

\* A request never computes on the state of another conversation: a slot left
\* dirty by its previous holder is cleared, or not read, before it is used,
\* also for a request that is marked as restored and has lost its slot.
StateIsOwn ==
    \A r \in Computing :
        /\ Range(Absorbed(r)) \subseteq Range(req[r].want)
        /\ Range(req[r].want) \subseteq {Prompt, req[r].conv}

\* A request that was hydrated computes on the restored history and then its
\* prompt; a fresh one on its prompt only; a restore-and-generate one on the
\* history, once, whatever is refused, retracted or restored around it.  Only a
\* hydrated request that was itself refused, retracted or restored again may
\* miss its history.
KeptStateIsUsed == \A r \in Computing : req[r].spoilt \/ Absorbed(r) = req[r].want

\* The batches never hold more requests than max_running_requests: not with
\* requests that finish in prefill, a batch merged late, or retractions.
RunningWithinLimit == Cardinality(batch \cup Scheduled) <= MaxRunning

\* What a decoding request has computed is not overwritten under it by a
\* restore, by the hydration of another request or by another prefill.
DecodingStateIsStable ==
    [][\A r \in running \cap running' :
        req[r].slot # NoSlot => content'[req[r].slot] = content[req[r].slot]]_vars

\* A waiting request does not starve behind later arrivals, refusals or
\* requests that were retracted: it is prefilled or leaves the queue.
EveryRequestIsAdmitted == \A r \in AllRid : r \in queue ~> r \notin queue

\* Every request is answered, if prefills do not keep the loop from decoding
\* forever: it survives its retractions and leaves the scheduler.
EveryRequestCompletes ==
    []<>(pc = "decode") => \A r \in AllRid : r \in Live ~> r \notin Live
-----------------------------------------------------------------------------
(***************************************************************************)
(* What comments and assertions of the code say, and the code does not     *)
(* keep.                                                                   *)
(***************************************************************************)
\* "Only free if the slot was freshly allocated in this batch": the slot a
\* request was hydrated into is not freed when admission refuses the request,
\* so it builds on the restored history.
RestoredStateIsUsed == \A r \in Computing : Absorbed(r) = req[r].want
=============================================================================
