# Engram, verified

Engram is a fork of SGLang that gives Mamba and hybrid models a memory: the
recurrent state of a conversation can be saved as a snapshot, kept in host RAM
or on disk, and restored into a later request. This directory holds TLA+
specifications of that layer, configurations that check them with TLC, and
proofs checked with TLAPS. Paths below are relative to `src/python/sglang/srt/`.

## The system

| part | where | state | operations |
|---|---|---|---|
| pending-restore registry | `managers/scheduler_snapshot_handlers.py`, `scheduler_pending_restore.py` | an ordered dict of staged snapshots, a dict of aliases | stage, clear, hydrate |
| restore path | the handlers, `managers/scheduler.py`, `schedule_batch.py`, `batch_result_processor.py` | requests, waiting queue, last and running batch, `batch_is_full` | generate, restore (staged, live, new request), abort, merge, admit, refuse, prefill, decode, retract |
| Mamba state pool | `mem_cache/memory_pool.py`, `mem_cache/common.py` | slots, free list | alloc, free, clear, inject |
| snapshot files | `snapshot/mamba_snapshot.py` | a state file and a metadata file per snapshot, temporary files | save, load, list, delete |
| trigger and retention policy | `snapshot/snapshot_policy.py` | the time of the last snapshot | should_snapshot, prune |
| memory tiers | `snapshot/tier_manager.py`, `conversation_tracker.py`, `mamba_host_pool.py` | LRU pool in host RAM, tier and last access per conversation | save, restore, promote, demote, archive, startup restore |
| hooks, health monitor | `snapshot/snapshot_hooks.py`, `state_health.py` | callback lists; norms per layer, a counter | trigger; check, reset |
| calls | `entrypoints/http_server.py`, `managers/tokenizer_manager.py`, `output_streamer.py` | one answer queue per kind of call | five snapshot endpoints |
| radix cache | `mem_cache/mamba_radix_cache.py` | tree, lock counts, two LRU lists | match, insert, evict, cache (un)finished |
| agents | `agents/`, `managers/scheduler_agent_system.py` | tools, tool memory, messages | agent loop, tool calls |

Two threads matter. The **scheduler** thread runs the event loop: it handles the
calls received, merges the last prefill batch, admits waiting requests, runs one
prefill or one decode step, and after it calls the snapshot hook. The **cleanup**
thread of the tier manager wakes up periodically, demotes conversations that were
not accessed for `warm_timeout` from host RAM to disk, and archives them after
`cold_retention`. The tier manager has a lock; the snapshot files have none.

What makes this layer hard: a snapshot is restored either into a live request,
into a new one, or is staged for a request that has not come yet; the request that
takes it then waits with a Mamba slot in hand, while admission, refusal, retraction,
timeouts and aborts were written for requests that hold nothing while they wait;
identifiers collide, since rids and conversation ids are both strings of the
client; files are written in several steps, by two threads, in a process that may
die; and a conversation is known to the pool, the tracker and the disk at once.
The list of hazards in `PROJECT.json` has each of these at its line.

## Modules

```
PendingRegistry  <- PendingRestore    <- PendingRegistryProofs, PendingRestoreProofs
                 <- RestoreScheduler  <- RestoreSchedulerInvariant <- RestoreSchedulerProofs
SnapshotCatalog  <= SnapshotStore     <- SnapshotStoreProofs       (<= : implemented by)
                    TierManager       <- TierManagerProofs
                    SnapshotCalls     <- SnapshotCallsInvariant    <- SnapshotCallsProofs
                    MambaRadixCache
MC*.tla             the instances for TLC
```

**PendingRegistry** has the registry as a value: `Drop`, `Insert`, `MoveToEnd`,
`SetAlias` are the dict operations; `Staged` is `_stage_pending_restore` with all of
its evictions in their order, `ClearTarget` is `_clear_pending_restore`, `Lookup` and
`HydratedConversation` are the lookup and the reconciliation of identifiers in
`_maybe_hydrate_from_pending_restore`. The order of the OrderedDict is a relation,
which the provers handle better than a sequence.

**PendingRestore** makes a state machine of it, with one action per outcome of a call.
`reply` records the last call and its outcome; it is there for the properties.

**RestoreScheduler** composes the registry with the Mamba pool and the event loop.
A slot's `content` is the sequence of histories and prompts its state has absorbed;
a request has the tokens it will prefill, its slot and the flag
`mamba_has_restored_state`. Two fields are not in the code: `want`, what the state
should have absorbed, and `spoilt`, that a restored request was refused, retracted or
restored once more. The waiting queue is a set with a relation `ahead`. `pc` says where
in the loop the scheduler is: calls are handled at "inputs" only, as in
`event_loop_normal`. `crash` records an assertion that fails. `Inputs` are the calls,
`Round` is the loop: `MergeLastBatch`, `AdmitRequest`/`RefuseRequest`/`AdmissionEnds`,
then `RunPrefill`, `DecodeBatch` or `RetractDecode`. `Feature` says which of the faults
may happen.

**SnapshotCatalog** is what the snapshots of a conversation look like to a reader of
the directory. **SnapshotStore** has `save_snapshot` and `delete_snapshot` file
operation by file operation for two threads, with errors and crashes between any
two of them. A file's content is the number of the save that wrote it. The turn
numbers are those the hook computes: the output length after a decode step, the
prompt length when the request finishes.

**TierManager** has the pool, the tracker and the disk of several conversations; the
LRU order of the pool is the relation `older`. Its actions are the methods that hold
the tier manager's lock and the save and delete handlers; a cleanup cycle is one action
whose `failed` conversations meet a disk error. Time is the number of ticks since the
last access, up to one more than the longest timeout, beyond which nothing is told
apart.

**SnapshotCalls** has the five snapshot calls between the processes: the two message
channels, one result queue per kind of call, the callers that sleep in `get()` and those
that were woken and have not run yet, the requests of restores that generate, and the
messages about requests the scheduler dropped. An answer is named by the call it
answers; the code's answers carry no such mark, and no step of the model looks at it.
`alone`, which is not in the code, has the calls that met no other of their kind.

**MambaRadixCache** has the prefix cache of hybrid models with both pools and the
scheduler steps that use it: match, split, insert, tombstones, the two lock counts, the
two LRU lists, the evictable sizes, eviction, admission, prefill, decode, retraction and
flush. A node is named by the tokens from the root to its end; a Mamba state is the
sequence of tokens it has absorbed. The cache is one record, and the functions of the
code are operators from record to record. Its `Request` are requests without restored
state: the documented configuration for restores has `--disable-radix-cache`.

## Runs

| run | shows |
|---|---|
| `pending_restore` | over three identifiers that may collide in every way, the registry stays bounded, every alias leads to an entry of its conversation, no entry becomes unreachable, two rids never hold one conversation, a hydrated request gets the state of the conversation it carries, staging evicts nothing unrelated but the oldest |
| `pending_restore_conversation` | **finding**: a restore that names only its conversation is never served |
| `restore_scheduler` | with refusals, retractions, timeouts, aborts, live restores and a queue limit at once, no slot is freed twice or shared, no request computes on another conversation's state, one whose restored state was not taken from it computes on that history and its prompt exactly once, the running limit holds, and no decoding state is overwritten |
| `restore_fair` | under refusals and retractions no slot leaks, no waiting request starves, every request completes |
| `restore_refused` | **finding**: a hydrated request refused once starts from nothing |
| `snapshot_store` | with crashes, I/O errors and two threads that exclude each other per snapshot, the directory implements the catalogue; an acknowledged save or delete is complete |
| `snapshot_prune` | **finding**: pruning does not keep the most recent snapshots |
| `tier_manager` | pool, tracker and disk stay in step; nothing leaves host RAM but for the disk or under pressure; the pooled state never goes back; what is unused is demoted |
| `tier_fallback` | **finding**: a restore without a turn does not fall back to disk |
| `snapshot_calls` | no answer is lost, taken twice or left over for a later call, no caller sleeps while its answer lies in the queue, a call that met no other of its kind gets its own answer, and every call returns unless the server goes down |
| `snapshot_calls_crossed` | **finding**: two calls of one kind in flight can get each other's answers |
| `mamba_radix` | a cached state has absorbed the tokens on the path to its node and a running one its own; every slot and KV entry is in exactly one place; locks, lists and evictable sizes fit the tree; every leaf can be evicted; no allocation after an admission fails; every request finishes |

A finding is a run in which TLC refutes what a comment, a docstring or an assertion of
the code says; `PROJECT.json` quotes the line. Every property of a passing run has a
mutant, an operator beside the one it changes, that breaks it.

### Bounds

- `pending_restore`: three identifiers and a bound of two entries. A call names two
  identifiers, so three allow every collision between two calls and leave one entry
  that has nothing to do with them; two entries make every staging of a third evict.
- `restore_*`: two or three rids, one or two conversations, two slots, at most two
  running requests, one to three places in the queue, up to three tokens. Two requests
  suffice for a slot to pass from one to the other, and two tokens for a request to be
  in mid-generation. `restore_scheduler` has a queue of one, so that the limit is met;
  it may stop (CHECK_DEADLOCK FALSE) where an assertion fails. Slots, rids and
  conversations are symmetric in the run that checks safety only.
- `snapshot_store`: two turns, a branch, three saves, one snapshot kept: a first save,
  an overwrite and a save that makes an earlier turn prunable. It may stop when the
  saves are used up. `snapshot_prune` needs three turns and only hook saves.
- `tier_manager`: two conversations, two turns, a pool of two, three saves; timeouts of
  one and two ticks, so that a conversation can pass the second while WARM.
- `snapshot_calls`: three calls of two kinds, one abort. Two calls in flight can exchange
  their answers, and a third can meet what they have left. It may stop when the calls
  are used up or the server is down.
- `mamba_radix`: two requests at a time and four in all, prompts `a`, `b` and `ab`, two
  new tokens, six KV entries and six states, three for each running request as the code
  reserves them. One prompt extends another, so that nodes are split, shared and left
  as tombstones; six KV entries do not hold two requests and an old branch, so that
  eviction, refusal and retraction happen. It may stop when all have arrived.

The proofs remove the bounds of all but the last.

### Fairness

`restore_fair` assumes weak fairness of `Round`: the event loop goes round for ever,
whatever calls arrive (`event_loop_normal` is a `while True`). No fairness is assumed
of calls. `EveryRequestCompletes` also assumes that decode steps recur, because the
policy prefers prefills: a stream of new requests may postpone decoding without end.
`tier_manager` assumes that time passes and that a cleanup cycle without disk errors
comes again while there is something to do (`_background_cleanup_loop` sleeps and
repeats; the disk does not fail for ever). It assumes nothing of saves, restores or
restarts. `snapshot_calls` assumes that both event loops run on (weak fairness of
handling, delivering, resuming a woken caller and starting a waiting request) and that a
request that is started again and again finishes (strong fairness of `Finish`), which is
what `EveryRequestCompletes` shows of the scheduler; nothing is assumed of new calls,
aborts or the start of `handle_loop`, on which `CallsReturn` is conditional.
`mamba_radix` assumes weak fairness of the scheduler loop, and nothing of arrivals.

## Proofs

Each theorem holds for every value of the constants that satisfies the assumptions of
its module: any number of identifiers, conversations, turns, slots or calls, any
limits. The assumptions say that bounds are natural numbers (some of them not zero)
and that values that mean "none" are not values; `PROJECT.json` lists the theorems.

**PendingRestoreProofs**, with the lemmas on the dict operations in
**PendingRegistryProofs**, proves all seven properties of `pending_restore`. None of
them is inductive alone. The invariant `IInv` is that the registry is *good*: its order
is total on finite sets of keys, it is within its bound, every alias leads to an entry
of its conversation and is no key itself, and every entry under a rid other than its
conversation id is linked from its conversation. Staging breaks the last part and
repairs it: it is taken apart into the dict operations, with one lemma each
(`DropGood`, `InsertGood`, `MoveToEndGood`, `SetAliasGood`), and `LinkGood` and
`StagedBeforeEviction` put them together; `EvictOldestBounded` needs that among the
keys one is the oldest. The properties of two states follow from what staging leaves
in place (`StagedKeeps`) and from the fact that a hit makes its entry the newest.

**RestoreSchedulerProofs**, with the invariant, the lemmas on single requests, the
queue and the slots, and the steps of incoming calls in **RestoreSchedulerInvariant**,
proves all six properties of `restore_scheduler`, with every fault allowed. What a request computes on depends on
what happened to it since it was hydrated, so `IInv` says of each request what its slot
must hold at every stage. One that waits (`Waits`) prefills, after what its slot holds
if it was restored, what it wants; its slot holds nothing foreign; and as long as it was
not spoilt it still has its slot, with exactly the state that, followed by its tokens,
is what it wants. One that was prefilled (`Runs`) has a slot whose content is what it
wants, unless it was spoilt or has finished. What is staged is the state of the
conversation it is staged for (`StagedIsOwn`, from the proofs of the registry). `Phases`
says which batches are empty where in the loop: it is why a restore into a live request
never meets one in the batch being built, and why a prefill replaces no unmerged batch.
Slots are a matter of counting: `SlotsNotShared` makes every set of requests with one
slot a singleton (`AtMostOne`), from which `SlotsReleased`, `SlotTaken` and
`PrefillFrees` get the free list after each step. There is one lemma per action, and
`Pieces` puts the invariant together again.

`NoLeaks` proves the seventh, `NoSlotLeaks`, under two hypotheses: no waiting timeout,
and a queue that has room for every request. These are the defaults of the server
(`max_queued_requests` unset, `SGLANG_REQ_WAITING_TIMEOUT` off); both are needed, since
the code drops the slot of a request that times out or is turned away. Refusals,
retractions, aborts, live restores, invalid requests and restore-and-generate are
allowed. It needs that a finished request has given its slot back (`DoneHoldsNothing`),
so that filtering it out of a batch loses none.

**SnapshotStoreProofs** proves the four properties of `snapshot_store`, the refinement
included, under the hypothesis `Exclusive`: no two threads work on one snapshot. The
invariant says how far each call has come: between `write_state` and `rename_state` the
version is in the temporary file, then in the state file, and in the temporary metadata
file before the last rename; a save's version is newer than any metadata, which is why
a failed metadata write can only hit a state that is newer than its metadata; while the
state of a deleted snapshot is still there its metadata is gone; and no two threads
hold one snapshot. `LocalStep` reduces each action to its own thread: it shows its
types, its own call, and that it holds nothing another thread holds. The refinement
maps the rename of a state file to `ReplaceState` or nothing, that of metadata to
`Publish` or `ReplaceMeta`, the error path after it to `LoseState` or nothing, the
unlink of metadata to `Remove`, and everything else to a stutter.

`Exclusive` is what the docstring of `MambaSnapshotManager` asks of its callers. The
callers in the repository do not provide it between the scheduler and the cleanup
thread: with `Exclusive = FALSE` TLC refutes `ImplementsCatalog` and `SaveIsComplete`.
With one thread, that is without background cleanup, it makes no difference.

**TierManagerProofs** proves the four safety properties of `tier_manager`. The invariant
adds to them that the pool is finite, which makes the number of its entries a number,
and that no copy, in the pool or on disk, is of a state that was not saved yet
(`Known`): that is why a new save, whose number is larger, never regresses. The order of
the pool is rebuilt after each step by `MoveOrdered`; `NotLostByCleanup` and `NoRegress`
look at one conversation at a time, through every action.

**SnapshotCallsProofs**, with its invariant and the scheduler's steps in
**SnapshotCallsInvariant**, proves the five safety properties of `snapshot_calls`. The
invariant says that an answer is in one place from the call to the caller that takes
it (`Places`, `Taken`), that the waiting callers are those asleep and those woken
(`Sleepers`), and, for a call that has met no other of its kind, that nothing else of
that kind is on its way (`Lone`). Answers can then be counted against callers:
`NoAnswerLeftOver` is kept because a caller that returns takes one answer away, and
`LoneCallGetsItsAnswer` because that answer can only be its own.

Only model-checked:

- the liveness properties `EveryRequestIsAdmitted`, `EveryRequestCompletes`,
  `UnusedIsDemoted`, `CallsReturn` and `RequestsFinish`: fairness and ENABLED are out of
  the prover's reach;
- everything about MambaRadixCache: its operators walk the tree recursively, and what a
  recursive definition computes needs an induction over data, which the installed
  provers cannot do;
- what the violation runs refute.

## Known differences between code and text, without a run

- `_clear_pending_restore` is to remove "any pending-restore entry for (rid,
  conversation_id)"; when both have one it removes the rid's and keeps the other.
- A restore whose rid equals its conversation id makes no alias, so a request of that
  conversation under a new rid starts fresh.
- Admission does not count the slots of hydrated requests that still wait. With few
  slots the assertion after `mamba_pool.alloc` (`mem_cache/memory_pool.py:593`) can fail
  in `prepare_for_extend`; RestoreScheduler has it as `crash = "alloc"`.
- "Check that request is idle" (`managers/scheduler_snapshot_handlers.py:927`) looks at
  the running batch only: a request between its prefill and the merge counts as idle,
  and a restore replaces what it has computed. Such a request is `spoilt` in the model.
- Aborting a waiting request that was hydrated reaches an assertion in
  `release_kv_cache`; a queue limit or a waiting timeout drops such a request and not
  its slot. Both are in RestoreScheduler; `NoSlotLeaks` holds without them.
- A live restore of a waiting, hydrated request lets the prefill feed the history to a
  state that has it already; a retraction loses the restored state.
- A request that has finished but was not filtered out yet is refused as running.
- The request of a restore that generates is unknown to the tokenizer manager. When the
  scheduler drops it from the queue (queue limit, waiting timeout, abort of everything)
  its AbortReq raises KeyError in `handle_loop`, and the server is killed; SnapshotCalls
  has it as `serving = FALSE`.
- "A request that finished due to error/abort should report success=False" says the
  comment in the output streamer; the test is for an attribute `type` that FINISH_ABORT
  does not have, so that an aborted restore-and-generate reports success.
- The snapshot calls do not start `handle_loop`: before the first generation no snapshot
  call returns. `CallsReturn` is conditional on `loop`.
- Saves to the WARM tier do not count as access, so a conversation that generates but
  is never restored is demoted and archived.
- Saving again into a full pool evicts another conversation although no room is needed;
  the tracker is not told of evictions.
- If the metadata of an overwritten snapshot cannot be written, the snapshot stays
  listed and has no state (`LoseState` of the catalogue).
- Demotion writes metadata without `fill_ids`, which restore-and-generate requires.
- `handle_mamba_state_eviction` only logs; `create_branch`, `delete_branch` and
  `cleanup_all_snapshots` have no callers; the agents' cleanup handler passes a `force`
  argument that `run_cleanup_cycle` does not have.

## Not modelled

The hierarchical Mamba cache; the choice made by the trigger policy and the health
monitor's counter; the agents; sessions. Tensors, their validation and the health
statistics are data that no property here tells apart.

- RestoreScheduler has no prefix cache (the documented configuration), no chunked
  prefill, priorities, overlap, speculative decoding or parallelism.
- TierManager treats a file operation as one step, which SnapshotStore takes apart, and
  a check of the pool and the read after it as one step.
- SnapshotCalls has one tokenizer process, and callers that wait for their answer: a
  client that disconnects does not cancel its call in the model.
- MambaRadixCache is the cache without extra buffers, with pages of one token, in the
  loop without overlap, chunking, speculation and logprobs. The waiting order is
  arbitrary, where the code has several policies. The estimate of tokens to come
  (`new_token_ratio`) lies anywhere between the value that admits and the one that
  refuses. KV entries are counted, not named; a finished request leaves the running
  batch at once. Requests with restored state do not occur in it.

The hooks, the Python client, the eviction helper and the inference engine are listed in
`PROJECT.json` with the reason.
