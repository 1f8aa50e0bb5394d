-------------------------- MODULE MambaRadixCache --------------------------
(***************************************************************************)
(* The prefix cache of a hybrid model (mem_cache/mamba_radix_cache.py) and *)
(* the scheduler steps that use it: a radix tree whose nodes own the KV    *)
(* entries of their tokens and, most of them, one Mamba state.  A request  *)
(* starts from a copy of the deepest state on its prefix, donates a state  *)
(* after its prefill and its last one when it finishes, and the least      *)
(* recently used unlocked nodes are evicted when a pool runs out.          *)
(*                                                                         *)
(* A node is named by the tokens from the root to its end, so that the     *)
(* tree is a set of sequences, a parent the longest proper prefix in the   *)
(* set, and splitting a node adds a prefix to it.  A Mamba state is the    *)
(* sequence of tokens it has absorbed.  The cache is one record:           *)
(*   node      path -> [mamba, fullRef, mambaRef]   (TreeNode)             *)
(*   fullLru, mambaLru     the two LRU lists, most recently used first     *)
(*   fullEv, mambaEv       the evictable sizes the admission test reads    *)
(*   kv        the number of free KV entries                               *)
(*   free      MambaPool.free_slots, a FIFO                                *)
(*   state     slot -> the tokens absorbed by the state stored in it       *)
(*   crash     the assertion or exception that stopped the scheduler       *)
(* The version modelled is the one without extra buffers (page size 1), in *)
(* the scheduler loop without overlap, chunking and speculative decoding.  *)
(***************************************************************************)
EXTENDS Integers, Sequences, FiniteSets, SequencesExt

CONSTANTS
    Output,         \* tokens the model may sample
    Request,        \* requests that may arrive
    Prompt,         \* the prompts they may bring, sequences of tokens
    MaxNew,         \* sampling_params.max_new_tokens of every request
    MaxRunning,     \* max_running_requests
    KvSize,         \* KV entries
    MambaSize,      \* max_mamba_cache_size
    RetractSteps,   \* SGLANG_RETRACT_DECODE_STEPS
    TestRetract,    \* whether SGLANG_TEST_RETRACT is set
    MaxArrivals     \* bound: requests in all

\* MAMBA_STATE_PER_REQ_PREFIX_CACHE, and the ratio of the pool configuration.
StatesPerReq == 3

\* _resolve_max_num_reqs keeps three states for each running request, and
\* validation turns away a request that could never fit.
ASSUME SizesAssumption ==
    /\ MaxNew \in Nat \ {0} /\ MaxRunning \in Nat \ {0} /\ RetractSteps \in Nat
    /\ MaxArrivals \in Nat /\ TestRetract \in BOOLEAN
    /\ StatesPerReq * MaxRunning <= MambaSize
    /\ \A p \in Prompt : p # <<>> /\ Len(p) + MaxNew + 1 < KvSize

VARIABLES
    cache,      \* the tree, its LRU lists and counters, and the two pools
    req,        \* request -> its record, in the life of the request
    batch,      \* can_run_list: admitted in this round, not yet prefilled
    running,    \* running_batch
    closed,     \* "round": no more admissions in this round,
                \* "full": batch_is_full
    arrivals    \* the number of requests that have arrived

vars == <<cache, req, batch, running, closed, arrivals>>

Root == <<>>
Slot == 1 .. MambaSize
NoSlot == 0

-----------------------------------------------------------------------------
(***************************************************************************)
(* The tree                                                                *)
(***************************************************************************)
Parent(c, p) ==
    LET above == {q \in DOMAIN c.node : IsStrictPrefix(q, p)}
    IN  CHOOSE q \in above : \A o \in above : Len(o) <= Len(q)

\* len(node.value)
Size(c, p) == Len(p) - Len(Parent(c, p))

Children(c, p) == {q \in DOMAIN c.node \ {Root} : Parent(c, q) = p}

\* The KV entries of a set of nodes.
Tokens(c, ps) == FoldSet(LAMBDA p, n : n + Size(c, p), 0, ps)

\* The nodes from p up to the root, the root excluded.
Branch(c, p) == {q \in DOMAIN c.node \ {Root} : IsPrefix(q, p)}

HasState(c, p) == c.node[p].mamba # NoSlot

Without(list, gone) == SelectSeq(list, LAMBDA p : p \notin gone)

ToFront(list, p) == <<p>> \o Without(list, {p})

\* LRUList.reset_node_and_parents_mru on both lists: children come first.
ToFrontAll(list, up) == up \o Without(list, ToSet(up))

ResetAll(c, up) ==
    [c EXCEPT !.fullLru = ToFrontAll(@, up),
              !.mambaLru = ToFrontAll(@, SelectSeq(up, LAMBDA q : HasState(c, q)))]

ResetMru(c, p) ==
    ResetAll(c, SetToSortSeq(Branch(c, p), LAMBDA a, b : Len(a) > Len(b)))

\* Mutant: the upper part does not inherit the lock.
MutantSplitNode(c, p, child) ==
    [c EXCEPT !.node = (p :> [mamba |-> NoSlot, fullRef |-> 0, mambaRef |-> 0]) @@ @,
              !.fullLru = <<child, p>> \o Without(@, {child}),
              !.mambaLru = IF HasState(c, child) THEN ToFront(@, child) ELSE @]

\* _split_node: the upper part is a tombstone that inherits the full lock;
\* both parts become the most recently used, the lower one first.
SplitNode(c, p, child) ==
    [c EXCEPT !.node = (p :> [mamba |-> NoSlot, fullRef |-> c.node[child].fullRef,
                              mambaRef |-> 0]) @@ @,
              !.fullLru = <<child, p>> \o Without(@, {child}),
              !.mambaLru = IF HasState(c, child) THEN ToFront(@, child) ELSE @]

\* How much of key the tree holds, with or without a state at its end.
Matched(c, key) ==
    LET held(n) == \E p \in DOMAIN c.node : IsPrefix(SubSeq(key, 1, n), p)
    IN  CHOOSE n \in 0 .. Len(key) :
            held(n) /\ \A m \in n + 1 .. Len(key) : ~held(m)

\* The node in which the prefix k of the tree ends.
Ending(c, k) ==
    LET below == {p \in DOMAIN c.node : IsPrefix(k, p)}
    IN  CHOOSE p \in below : \A o \in below : Len(p) <= Len(o)

SplitAt(c, k) == IF k \in DOMAIN c.node THEN c ELSE SplitNode(c, k, Ending(c, k))

\* best_last_node: the deepest node on the path of key that has a state.
Best(c, key) ==
    LET with == {p \in Branch(c, key) : HasState(c, p)}
    IN  IF with = {} THEN Root
        ELSE CHOOSE p \in with : \A o \in with : Len(o) <= Len(p)

\* match_prefix, without the copy on write.
MatchPrefix(c, key) ==
    IF key = <<>> THEN c
    ELSE ResetMru(SplitAt(c, SubSeq(key, 1, Matched(c, key))), Best(c, key))

\* _insert_helper: the nodes on the way become the most recently used, the
\* KV entries of key that the tree already holds beyond prev are freed, and
\* the state goes to a new leaf or into a tombstone, unless there is one.
MambaExist(c, key) == key \in DOMAIN c.node /\ HasState(c, key)

WalkTo(c, k) == IF k = <<>> THEN c ELSE SplitAt(ResetMru(c, Ending(c, k)), k)

\* Mutant: the entries below prev are freed too.
MutantFreeDuplicates(c, m, prev) == [c EXCEPT !.kv = @ + m]

FreeDuplicates(c, m, prev) == [c EXCEPT !.kv = @ + (IF m > prev THEN m - prev ELSE 0)]

StoreState(c, key, slot, m) ==
    IF m < Len(key)
    THEN [c EXCEPT
            !.node = (key :> [mamba |-> slot, fullRef |-> 0, mambaRef |-> 0]) @@ @,
            !.fullLru = <<key>> \o @, !.mambaLru = <<key>> \o @,
            !.fullEv = @ + Len(key) - m, !.mambaEv = @ + 1]
    ELSE IF HasState(c, key)
    THEN [c EXCEPT !.fullLru = ToFront(@, key), !.mambaLru = ToFront(@, key)]
    ELSE [c EXCEPT !.node[key].mamba = slot,
                   !.fullLru = ToFront(@, key),
                   !.mambaLru = <<key>> \o @, !.mambaEv = @ + 1]

InsertFrom(c, key, slot, prev, m) ==
    StoreState(FreeDuplicates(WalkTo(c, SubSeq(key, 1, m)), m, prev), key, slot, m)

Insert(c, key, slot, prev) == InsertFrom(c, key, slot, prev, Matched(c, key))

\* Mutant: entries that are locked already are counted out again.
MutantIncLockRef(c, p) ==
    [c EXCEPT !.node = [q \in DOMAIN @ |->
                            IF q \in Branch(c, p) THEN [@[q] EXCEPT !.fullRef = @ + 1]
                            ELSE @[q]],
              !.fullEv = @ - Tokens(c, Branch(c, p))]

\* inc_lock_ref and dec_lock_ref: the state of the node itself, and the KV
\* entries of the whole branch.
IncLockRef(c, p) ==
    LET up == Branch(c, p)
        new == {q \in up : c.node[q].fullRef = 0}
        own == p # Root /\ HasState(c, p)
    IN  [c EXCEPT !.node = [q \in DOMAIN @ |->
                                [@[q] EXCEPT !.fullRef = IF q \in up THEN @ + 1 ELSE @,
                                             !.mambaRef = IF q = p /\ own THEN @ + 1 ELSE @]],
                  !.fullEv = @ - Tokens(c, new),
                  !.mambaEv = IF own /\ c.node[p].mambaRef = 0 THEN @ - 1 ELSE @]

DecLockRef(c, p) ==
    LET up == Branch(c, p)
        last == {q \in up : c.node[q].fullRef = 1}
        own == p # Root /\ HasState(c, p)
    IN  IF \/ \E q \in up : c.node[q].fullRef = 0
           \/ own /\ c.node[p].mambaRef = 0
        THEN [c EXCEPT !.crash = "assert"]
        ELSE [c EXCEPT !.node = [q \in DOMAIN @ |->
                                    [@[q] EXCEPT !.fullRef = IF q \in up THEN @ - 1 ELSE @,
                                                 !.mambaRef = IF q = p /\ own THEN @ - 1 ELSE @]],
                       !.fullEv = @ + Tokens(c, last),
                       !.mambaEv = IF own /\ c.node[p].mambaRef = 1 THEN @ + 1 ELSE @]

-----------------------------------------------------------------------------
(***************************************************************************)
(* Eviction                                                                *)
(***************************************************************************)
\* _evict_leaf_node: the leaf goes, and with it every ancestor that is left
\* an unlocked childless tombstone (_iteratively_delete_tombstone_leaf).
Doomed(c, x) ==
    {q \in Branch(c, x) : \A p \in Branch(c, x) \ {x} :
        IsPrefix(q, p) => /\ ~HasState(c, p)
                          /\ c.node[p].fullRef = 0
                          /\ Cardinality(Children(c, p)) = 1}

DeleteNodes(c, x, gone, tokens) ==
    [c EXCEPT !.node = [p \in DOMAIN @ \ gone |-> @[p]],
              !.fullLru = Without(@, gone), !.mambaLru = Without(@, {x}),
              !.fullEv = @ - tokens, !.mambaEv = @ - 1,
              !.kv = @ + tokens, !.free = Append(@, c.node[x].mamba)]

EvictLeafNode(c, x) ==
    IF c.node[x].fullRef > 0 \/ c.node[x].mambaRef > 0 \/ ~HasState(c, x)
    THEN [c EXCEPT !.crash = "assert"]
    ELSE DeleteNodes(c, x, Doomed(c, x), Tokens(c, Doomed(c, x)))

\* Mutant: the evictable size is not counted down.
MutantTombstoneInternalNode(c, x) ==
    [c EXCEPT !.node[x].mamba = NoSlot, !.mambaLru = Without(@, {x}),
              !.free = Append(@, c.node[x].mamba)]

TombstoneInternalNode(c, x) ==
    [c EXCEPT !.node[x].mamba = NoSlot, !.mambaLru = Without(@, {x}),
              !.mambaEv = @ - 1, !.free = Append(@, c.node[x].mamba)]

\* The loops below follow a cursor that is always the least recently used
\* node that is not locked (and is a leaf): no lock changes in between.
Unlocked(c) == SelectSeq(c.mambaLru, LAMBDA p : c.node[p].mambaRef = 0)

UnlockedLeaves(c) ==
    SelectSeq(c.fullLru, LAMBDA p : c.node[p].fullRef = 0 /\ Children(c, p) = {})

EvictState(c, x) ==
    IF Children(c, x) = {} THEN EvictLeafNode(c, x) ELSE TombstoneInternalNode(c, x)

RECURSIVE EvictMamba(_, _)
EvictMamba(c, n) ==
    IF n <= 0 \/ c.crash # "none" \/ Unlocked(c) = <<>> THEN c
    ELSE EvictMamba(EvictState(c, Last(Unlocked(c))), n - 1)

RECURSIVE EvictFull(_, _)
EvictFull(c, n) ==
    IF n <= 0 \/ c.crash # "none" \/ UnlockedLeaves(c) = <<>> THEN c
    ELSE EvictFull(EvictLeafNode(c, Last(UnlockedLeaves(c))),
                   n - Tokens(c, Doomed(c, Last(UnlockedLeaves(c)))))

\* evict_from_tree_cache
EvictForTokens(c, n) == IF c.kv < n THEN EvictFull(c, n) ELSE c

-----------------------------------------------------------------------------
(***************************************************************************)
(* What the scheduler does with a request                                  *)
(***************************************************************************)
Fresh(p) == [fill |-> p, prompt |-> Len(p), slot |-> NoSlot, cow |-> NoSlot,
             last |-> Root]

Waiting == DOMAIN req \ (ToSet(batch) \union ToSet(running))

\* cache_protected_len: the KV entries of q that belong to the tree.
Protected(q) == Len(q.last)

\* The tokens q has still to generate, at most.
NewLeft(q) == MaxNew - (Len(q.fill) - q.prompt)

\* extend_input_len
ExtendLen(q) == Len(q.fill) - Protected(q)

TakeSlot(c) ==
    IF c.free = <<>> THEN [c EXCEPT !.crash = "alloc"] ELSE [c EXCEPT !.free = Tail(@)]

FreeSlot(c, slot) == [c EXCEPT !.free = Append(@, slot)]

FirstFree(c) == IF c.free = <<>> THEN NoSlot ELSE Head(c.free)

\* init_next_round_input: the prefix is matched short of its last token; with
\* a state on it, a slot is taken (evicting with the matched node locked) and
\* the source of the copy recorded.  Without one the old source stays.
EvictAround(c, best) ==
    IF c.free # <<>> THEN c
    ELSE DecLockRef(EvictMamba(IncLockRef(c, best), 1), best)

CopyOnWrite(c, q, best) ==
    [c |-> TakeSlot(c),
     q |-> [q EXCEPT !.last = best, !.slot = FirstFree(c), !.cow = c.node[best].mamba]]

StartFrom(c, q, best) ==
    IF best = Root THEN [c |-> c, q |-> [q EXCEPT !.last = Root]]
    ELSE CopyOnWrite(EvictAround(c, best), q, best)

Committed(q) == SubSeq(q.fill, 1, Len(q.fill) - 1)

InitNextRound(c, q) ==
    StartFrom(MatchPrefix(c, Committed(q)), q, Best(c, Committed(q)))

\* rem_total_tokens with what the running requests may still need counted
\* from nothing (new_token_ratio near 0) or in full (ratio 1), and what this
\* round has already admitted (_update_prefill_budget).
Sum(f, s) == FoldSeq(LAMBDA r, n : n + f[r], 0, s)
RemTotal(c, ratio) ==
    c.kv + c.fullEv
      - ratio * Sum([r \in DOMAIN req |-> NewLeft(req[r])], running)
      - Sum([r \in DOMAIN req |-> ExtendLen(req[r]) + MaxNew + 1], batch)

\* add_one_req, before and after the matched node is locked.
Fits(c, q, ratio) ==
    \A d \in {c, IncLockRef(c, q.last)} :
        ExtendLen(q) + NewLeft(q) + 1 < RemTotal(d, ratio)

Round == cache.crash = "none" /\ closed = "no" /\ Len(running) + Len(batch) < MaxRunning

Arrive(r) ==
    /\ cache.crash = "none" /\ r \notin DOMAIN req
    /\ arrivals < MaxArrivals /\ arrivals' = arrivals + 1
    /\ \E p \in Prompt : req' = (r :> Fresh(p)) @@ req
    /\ UNCHANGED <<cache, batch, running, closed>>

\* calc_priority of a cache-aware policy matches the waiting prompts.
CalcPriority(r) ==
    /\ Round /\ batch = <<>> /\ r \in Waiting
    /\ cache' = MatchPrefix(cache, req[r].fill)
    /\ UNCHANGED <<req, batch, running, closed, arrivals>>

Admit(r) ==
    /\ Round /\ r \in Waiting
    /\ \E n \in {InitNextRound(cache, req[r])} :
        /\ n.c.crash = "none" => Fits(n.c, n.q, 0)
        /\ cache' = IF n.c.crash = "none" THEN IncLockRef(n.c, n.q.last) ELSE n.c
        /\ req' = [req EXCEPT ![r] = n.q]
        /\ batch' = Append(batch, r)
    /\ UNCHANGED <<running, closed, arrivals>>

\* NO_TOKEN, or OTHER for a request that exceeds the round's token budget:
\* the slot goes back, the recorded source does not.
Refuse(r) ==
    /\ Round /\ r \in Waiting
    /\ \E n \in {InitNextRound(cache, req[r])} :
        /\ n.c.crash = "none"
        /\ \/ ~Fits(n.c, n.q, 1) /\ closed' = "full"
           \/ batch # <<>> /\ closed' = "round"
        /\ cache' = IF n.q.slot = NoSlot THEN n.c ELSE FreeSlot(n.c, n.q.slot)
        /\ req' = [req EXCEPT ![r] = [n.q EXCEPT !.slot = NoSlot]]
    /\ UNCHANGED <<batch, running, arrivals>>

-----------------------------------------------------------------------------
\* cache_finished_req: the request's own slot goes to the tree, or back to
\* the pool when the tree has a state there or nothing is inserted.
CacheFinished(c, q, key, insert) ==
    DecLockRef(IF ~insert
               THEN FreeSlot([c EXCEPT !.kv = @ + Len(key) - Protected(q)], q.slot)
               ELSE IF MambaExist(c, key)
               THEN FreeSlot(Insert(c, key, q.slot, Protected(q)), q.slot)
               ELSE Insert(c, key, q.slot, Protected(q)), q.last)

\* cache_unfinished_req: a copy of the state is donated to the tree, and the
\* request moves its lock to the node that now holds its whole prefix.
Donate(c, q, slot) ==
    Insert([TakeSlot(c) EXCEPT !.state[slot] = c.state[q.slot]], q.fill, slot, Protected(q))

\* Mutant: a donation the tree does not take is forgotten.
MutantDonateOrFree(c, q, slot) == Donate(c, q, slot)

DonateOrFree(c, q, slot) ==
    IF MambaExist(c, q.fill) THEN FreeSlot(Donate(c, q, slot), slot) ELSE Donate(c, q, slot)

\* Mutant: the old lock is kept.
MutantMoveLock(c, q, best) ==
    [c |-> IncLockRef(c, best), q |-> [q EXCEPT !.last = best]]

MoveLock(c, q, best) ==
    [c |-> IncLockRef(DecLockRef(c, q.last), best), q |-> [q EXCEPT !.last = best]]

\* old is the cache before the donation: its asserts compare with it.
Rematch(old, c, q, best) ==
    IF /\ MambaExist(old, q.fill) \/ c.node[best].mamba = FirstFree(old)
       /\ Protected(q) <= Len(best)
       /\ Matched(old, q.fill) <= Len(best)
    THEN MoveLock(c, q, best)
    ELSE [c |-> [c EXCEPT !.crash = "assert"], q |-> q]

CacheAfterDonation(old, c, q) == Rematch(old, MatchPrefix(c, q.fill), q, Best(c, q.fill))

CacheWithRoom(c, q) ==
    IF c.crash # "none" \/ c.free = <<>> THEN [c |-> TakeSlot(c), q |-> q]
    ELSE CacheAfterDonation(c, DonateOrFree(c, q, FirstFree(c)), q)

CacheUnfinished(c, q) ==
    CacheWithRoom(IF c.free = <<>> THEN EvictMamba(c, 1) ELSE c, q)

\* alloc_req_slots: three states are made available for each request, and
\* those that have no slot yet take one.
AllocReqSlots(s) ==
    LET take(r, t) == IF t.q[r].slot # NoSlot THEN t
                      ELSE [c |-> TakeSlot(t.c),
                            q |-> [t.q EXCEPT ![r].slot = FirstFree(t.c)]]
    IN  FoldSeq(take, [s EXCEPT !.c =
                        EvictMamba(@, StatesPerReq * Len(batch) - Len(@.free))], batch)

\* alloc_token_slots
TakeTokens(c, n) ==
    IF c.kv < n THEN [c EXCEPT !.crash = "oom"] ELSE [c EXCEPT !.kv = @ - n]

AllocTokens(c, n) == IF c.crash = "none" THEN TakeTokens(EvictForTokens(c, n), n) ELSE c


\* The deferred copies and clears, then the forward pass: without a cached
\* prefix the kernels start from an empty state whatever the slot holds.
Start(c, q) == IF Protected(q) = 0 \/ q.cow = NoSlot THEN <<>> ELSE c.state[q.cow]

Extend(s) ==
    LET q == s.q
        owner == [slot \in {q[r].slot : r \in ToSet(batch)} |->
                    CHOOSE r \in ToSet(batch) : q[r].slot = slot]
        after(r) == Start(s.c, q[r]) \o SubSeq(q[r].fill, Protected(q[r]) + 1, Len(q[r].fill))
    IN  [c |-> [s.c EXCEPT !.state = [slot \in Slot |->
                    IF slot \in DOMAIN owner THEN after(owner[slot]) ELSE @[slot]]],
         q |-> [r \in DOMAIN q |->
                    IF r \in ToSet(batch) THEN [q[r] EXCEPT !.cow = NoSlot] ELSE q[r]]]

\* A request leaves, with its state in the tree or not.
Leave(s, r, key, insert) ==
    [c |-> CacheFinished(s.c, s.q[r], key, insert),
     q |-> [x \in DOMAIN s.q \ {r} |-> s.q[x]]]

\* process_batch_result_prefill for one request: out is its first token.
Prefilled(s, r, out, ended) ==
    LET goOn(u) == [c |-> u.c,
                    q |-> [s.q EXCEPT ![r] = [u.q EXCEPT !.fill = Append(@, out)]]]
    IN  IF s.c.crash # "none" THEN s
        ELSE IF ended THEN Leave(s, r, s.q[r].fill, TRUE)
        ELSE goOn(CacheUnfinished(s.c, s.q[r]))

\* The requests that have all their tokens after the next one.
LastToken(rs) == {r \in rs : NewLeft(req[r]) = 1}

\* Mutant: the mark is never lifted.
MutantMark(lifted) == IF closed = "full" THEN "full" ELSE "no"

\* batch_is_full is lifted when a request leaves the running batch, and with
\* a running batch that is new.
Mark(lifted) == IF closed = "full" /\ ~lifted THEN "full" ELSE "no"

PrefillStart ==
    LET need == Sum([r \in DOMAIN req |-> ExtendLen(req[r])], batch)
        allocated == AllocReqSlots([c |-> cache, q |-> req])
    IN  [allocated EXCEPT !.c = AllocTokens(@, need)]

RunPrefill ==
    /\ cache.crash = "none" /\ batch # <<>>
    /\ \E s \in {PrefillStart} :
       \E out \in [ToSet(batch) -> Output], fin \in SUBSET ToSet(batch) :
       \E done \in {IF s.c.crash # "none" THEN s
                    ELSE FoldLeft(LAMBDA t, r : Prefilled(t, r, out[r], r \in fin),
                                  Extend(s), batch)} :
        /\ LastToken(ToSet(batch)) \subseteq fin
        /\ cache' = done.c
        /\ req' = done.q
        /\ running' = running \o SelectSeq(batch, LAMBDA r : r \notin fin)
        /\ closed' = Mark(fin # {} \/ running = <<>>)
    /\ batch' = <<>> /\ UNCHANGED arrivals

-----------------------------------------------------------------------------
(***************************************************************************)
(* Decode                                                                  *)
(***************************************************************************)
\* The victim of retract_decode: the fewest tokens generated, then the
\* longest prompt, then the last of the batch.
Victim(q, rs) ==
    LET outs(i) == Len(q[rs[i]].fill) - q[rs[i]].prompt
        before(i, j) == \/ outs(i) < outs(j)
                        \/ outs(i) = outs(j) /\ q[rs[i]].prompt > q[rs[j]].prompt
                        \/ outs(i) = outs(j) /\ q[rs[i]].prompt = q[rs[j]].prompt /\ i >= j
    IN  rs[CHOOSE i \in DOMAIN rs : \A j \in DOMAIN rs : before(i, j)]

\* release_req and reset_for_retract: back to waiting with its tokens.
Release(s, r, left) ==
    [c |-> EvictForTokens(CacheFinished(s.c, s.q[r], Committed(s.q[r]), FALSE),
                          left * RetractSteps),
     q |-> [s.q EXCEPT ![r] = [@ EXCEPT !.slot = NoSlot, !.cow = NoSlot, !.last = Root]]]

\* check_decode_mem and retract_decode: one request is always kept, unless
\* even that one cannot get its entry; then it is aborted.
CheckDecodeMem(s, rs) == [s EXCEPT !.c = EvictForTokens(@, Len(rs))]

RetractOne(s, rs, v) ==
    IF Len(rs) = 1 THEN [s |-> Leave(s, v, Committed(s.q[v]), FALSE), rs |-> <<>>]
    ELSE [s |-> CheckDecodeMem(Release(s, v, Len(rs) - 1), Without(rs, {v})),
          rs |-> Without(rs, {v})]

RECURSIVE RetractDecode(_)
RetractDecode(k) ==
    IF k.s.c.kv >= Len(k.rs) THEN k
    ELSE RetractDecode(RetractOne(k.s, k.rs, Victim(k.s.q, k.rs)))

\* process_batch_result_decode for one request.
Decoded(s, r, out, ended) ==
    IF s.c.crash # "none" THEN s
    ELSE IF ended THEN Leave(s, r, s.q[r].fill, TRUE)
    ELSE [s EXCEPT !.q[r].fill = Append(@, out)]

\* test: a retraction that memory does not ask for, for testing.
FirstRetraction(k, test) ==
    IF test /\ Len(k.rs) > 1 THEN RetractOne(k.s, k.rs, Victim(k.s.q, k.rs)) ELSE k

UpdateRunningBatch(test) ==
    RetractDecode(FirstRetraction(
        [s |-> CheckDecodeMem([c |-> cache, q |-> req], running), rs |-> running], test))

RunDecode ==
    /\ cache.crash = "none" /\ batch = <<>> /\ running # <<>>
    /\ \E k \in {UpdateRunningBatch(test) : test \in {FALSE, TestRetract}} :
       \E out \in [ToSet(k.rs) -> Output], fin \in SUBSET ToSet(k.rs) :
       \E done \in {LET absorb(r, c) ==
                            [c EXCEPT !.state[req[r].slot] = Append(@, Last(req[r].fill))]
                        start == FoldSeq(absorb, AllocTokens(k.s.c, Len(k.rs)), k.rs)
                    IN  FoldLeft(LAMBDA t, r : Decoded(t, r, out[r], r \in fin),
                                 [k.s EXCEPT !.c = start], k.rs)} :
        /\ LastToken(ToSet(k.rs)) \subseteq fin
        /\ cache' = done.c
        /\ req' = done.q
        /\ running' = SelectSeq(k.rs, LAMBDA r : r \notin fin)
        /\ closed' = Mark(k.rs # running \/ fin # {})
    /\ UNCHANGED <<batch, arrivals>>

\* flush_cache, when nothing waits or runs: tree and pools start afresh.
EmptyCache ==
    [node |-> (Root :> [mamba |-> NoSlot, fullRef |-> 0, mambaRef |-> 0]),
     fullLru |-> <<>>, mambaLru |-> <<>>, fullEv |-> 0, mambaEv |-> 0,
     kv |-> KvSize, free |-> [i \in Slot |-> i], state |-> [i \in Slot |-> <<>>],
     crash |-> "none"]

FlushCache ==
    /\ cache.crash = "none" /\ DOMAIN req = {}
    /\ cache' = [EmptyCache EXCEPT !.state = cache.state]
    /\ UNCHANGED <<req, batch, running, closed, arrivals>>

Init ==
    /\ cache = EmptyCache
    /\ req = [r \in {} |-> Fresh(<<>>)]
    /\ batch = <<>> /\ running = <<>> /\ closed = "no" /\ arrivals = 0

Schedule == (\E r \in Request : Admit(r) \/ Refuse(r)) \/ RunPrefill \/ RunDecode

Next ==
    \/ \E r \in Request : Arrive(r) \/ CalcPriority(r)
    \/ Schedule
    \/ FlushCache

\* The scheduler's loop (event_loop_normal) never waits: weak fairness of
\* Schedule.  It is written out, for the sake of TLC: Schedule is enabled when
\* the scheduler is Busy, and its steps are those that change the scheduler's
\* own state without an arrival.  Arrivals, priorities and flushes need not
\* happen.
Busy ==
    /\ cache.crash = "none"
    /\ batch # <<>> \/ running # <<>> \/ (Round /\ Waiting # {})

Fairness ==
    []<>~Busy \/ []<><<arrivals' = arrivals>>_<<req, batch, running, closed>>

Spec == Init /\ [][Next]_vars /\ Fairness

-----------------------------------------------------------------------------
(***************************************************************************)
(* Properties                                                              *)
(***************************************************************************)
Holders == ToSet(batch) \union ToSet(running)
Nodes == DOMAIN cache.node \ {Root}

\* Slots, reference counts and sizes stay in their ranges: in particular the
\* evictable sizes, which locking and eviction count down, never fall below 0.
TypeOK ==
    /\ \A p \in DOMAIN cache.node :
        cache.node[p] \in [mamba : Slot \union {NoSlot}, fullRef : Nat, mambaRef : Nat]
    /\ cache.kv \in 0 .. KvSize /\ cache.fullEv \in Nat /\ cache.mambaEv \in Nat
    /\ cache.crash \in {"none", "alloc", "oom", "assert"}
    /\ \A r \in DOMAIN req : req[r].slot \in Slot \union {NoSlot}
    /\ Holders \subseteq DOMAIN req /\ closed \in {"no", "round", "full"}



\* A slot of the pool is free, in the tree or held by a request, in exactly
\* one place: none is lost, shared or freed twice.
SlotsAccounted ==
    cache.crash = "none" =>
        \A s \in Slot :
            Cardinality({i \in DOMAIN cache.free : cache.free[i] = s})
              + Cardinality({p \in Nodes : cache.node[p].mamba = s})
              + Cardinality({r \in DOMAIN req : req[r].slot = s}) = 1

\* Free KV entries, those of the tree and those of the running requests that
\* are not yet the tree's make up the pool.
KvAccounted ==
    cache.crash = "none" =>
        cache.kv + Tokens(cache, Nodes)
          + FoldSet(LAMBDA r, n : n + Len(Committed(req[r])) - Protected(req[r]), 0,
                    ToSet(running)) = KvSize

\* The reference counts are the number of admitted and running requests whose
\* prefix ends at or below the node, or at it.
LocksAreHeld ==
    cache.crash = "none" =>
        \A p \in Nodes :
            /\ cache.node[p].fullRef =
                 Cardinality({r \in Holders : IsPrefix(p, req[r].last)})
            /\ cache.node[p].mambaRef =
                 Cardinality({r \in Holders : req[r].last = p})

\* What sanity_check rebuilds when idle holds at every step: the lists hold
\* the nodes, and those with a state, once each, and the evictable sizes are
\* those of the nodes that are not locked.  Those sizes can really be
\* recovered: a leaf always has a state, without which it is never evicted.
ListsMatchTree ==
    /\ ToSet(cache.fullLru) = Nodes /\ IsInjective(cache.fullLru)
    /\ ToSet(cache.mambaLru) = {p \in Nodes : HasState(cache, p)}
    /\ IsInjective(cache.mambaLru)
    /\ cache.fullEv = Tokens(cache, {p \in Nodes : cache.node[p].fullRef = 0})
    /\ cache.mambaEv = Cardinality({p \in Nodes : /\ HasState(cache, p)
                                                  /\ cache.node[p].mambaRef = 0})
    /\ \A p \in Nodes : Children(cache, p) = {} => HasState(cache, p)

\* No allocation that follows an admission fails and no assertion of the
\* cache does: three states for each running request are enough, and so is
\* the admission test on the evictable size.
NeverStops == cache.crash = "none"

\* Every request that arrives is answered in the end, whatever is evicted,
\* refused or retracted meanwhile: what the tree holds and nobody has locked
\* can always be recovered for it, and a batch marked full is unmarked.
RequestsFinish == \A r \in Request : r \in DOMAIN req ~> r \notin DOMAIN req

=============================================================================
