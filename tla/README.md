# Specifications of SGL-JAX serving

TLA+ modules that model the serving path of SGL-JAX (`python/sgl_jax/srt`): the way of
a call through the front-end processes, the scheduler with its two event loops, the KV
cache memory it manages, and a deployment that splits prefill and decode between two
servers. TLC checks them on small instances; TLAPS proves the page allocator, and the
safety of the prefill server's pages during a transfer, for any size. `PROJECT.json`
lists the runs, the correspondence between definitions and source lines, the
disagreements found and the hazards.

    tlc -config MCSchedulerSafety.cfg MCScheduler       # one run
    tlapm PDServingProofs.tla                           # the proofs of one module

Paths below are relative to `src/python/sgl_jax/srt/`.

## 1. The system

A call passes the HTTP server, the **tokenizer manager** (front-end process), the
**scheduler** process, the **model worker** (a thread of the scheduler process in
overlap mode), and the **detokenizer** process, whose output returns to the tokenizer
manager. The scheduler is the only writer of the KV cache bookkeeping. In overlap mode
the result of a batch is applied one iteration after the batch was launched, when the
next batch has been scheduled and launched already. In a **disaggregated** deployment a
prefill server P computes the KV cache of the prompt and a decode server D pulls it, one
chunk at a time, through a native transfer engine that both servers only poll.

| Part | State | Hard behaviours | Modules |
|---|---|---|---|
| Page allocator (`mem_cache/allocator.py`) | free list, release list, free group | a page listed twice, lost in a group; partial pages | `KVPool`, `PagedAllocator`, `PagedRows` |
| Radix cache (`mem_cache/radix_cache.py`) | tree of pages, lock counts, sizes | eviction under locks, splits of locked nodes, ownership hand-over | `RadixCache`, `KVCache` |
| KV life cycle (`mem_cache/common.py`, `managers/schedule_batch.py`) | rows of `req_to_token`, protected lengths | late results, stale rows, budget stale after locking | `KVCache` |
| Scheduler, admission, results (`managers/scheduler.py`, `schedule_policy.py`, `scheduler_output_processor_mixin.py`) | queues, batches, chunked requests, pending aborts, pause flag | late results, aborts of chunks in flight, pauses, ranks | `Scheduler` |
| Front end (`managers/tokenizer_manager.py`, `detokenizer_manager.py`) | request table, waiting coroutines, decode states | answers in any order, disconnects, pauses, a bounded table | `Detokenizer`, `FrontEnd` |
| KV transfer (`disaggregation/raiden_transfer/conn.py`) | sender, receiver, room metadata, engine state of each chunk | aborts, timeouts and faults while the engine touches pages; stale metadata | `KVTransfer`, `PDTransfers` |
| Prefill server (`disaggregation/prefill.py`) | chunked request and its owners, results in flight, queued senders | hand-over of chunks, deferred release | `PDPrefill` |
| Decode server (`disaggregation/decode.py`) | bootstrap, preallocation, transfer and waiting queues | pages reused under a running forward, cancelled transfers | `PDDecode` |
| Both servers together | | | `PDServing` |

Properties that make this correct: every page and token has exactly one owner at any
time, and nobody else's copy, forward pass or transfer touches it; KV is read only for
the tokens it was computed for; an admitted request never runs out of memory in a
forward pass; no request is lost, answered twice or left unanswered; the client gets
exactly the text of the tokens produced.

## 2. The modules

**`KVPool`** is the abstract promise of an allocator: a set of free pages and a set
of held ones per rank; `Alloc`, `Free` and `Clear` move pages between them.

**`PagedAllocator`** is `PagedTokenToKVPoolAllocator`. An array of page ids is a
record of its length and the set of its pages, so that a duplicate shows as a length
above the cardinality. `free` appends to `release_pages` what neither list has yet,
or to the open group; `alloc` merges the lists first when `free_pages` is too short.
Callers free what they hold. `Pool == INSTANCE KVPool` with the refinement mapping:
a page is free for the pool when it is listed, held otherwise (also in an open group).

**`PagedRows`** adds the block tables: `AllocExtend` and `AllocDecode` for a batch of
requests, with the arithmetic of partial pages written out token by token, and
`ReleaseRow`. It extends `PagedAllocator`.

**`RadixCache`** holds the tree as operators: a node is named by the path of page keys
from the root, its value is a sequence of pages. Splits, locks, sizes, insertion,
matching and leaf deletion are functions from trees to trees.

**`KVCache`** composes the tree, the pool and the requests of one rank. `op` is the
operation in progress on the scheduler's thread; a long handler (admission, eviction,
allocation, launch; retraction one victim at a time; result processing request by
request) is a sequence of steps with nothing between them. `content[p]` is a history
variable: for which request and position the KV in page `p` was computed. Eviction
takes any unlocked leaf, since access times are abstracted. With two batches in flight
a batch may be prepared before the results of the one before are known. A request of the
last prefill batch is `"added"` until `get_next_batch_to_run` merges it; a pause that
forgets `last_batch` before that makes it `"lost"`: no batch has it any more, and its
pages and locks stay taken until the cache is flushed.

**`Scheduler`** is the control of the process. `pc` names the method the loop stands
at; messages are handled at `recv` only. A request is counters and flags (`out`,
`prefix`, `kv`, `is_chunked`, `to_finish`, `finished`, ...), the pool of a rank a number
of tokens. `sent` counts the final answers. Whether a sampled token ends a request early
is nondeterministic.

| Action | Code (`managers/scheduler.py`) |
|---|---|
| `Generate`, `AbortRequest`, `PauseGeneration`, `ContinueGeneration`, `FlushCache` | handlers called by `process_input_requests` |
| `DrainForPause`, `FinishPause` | the rest of `pause_generation` |
| `MergeLastBatch` | first half of `get_next_batch_to_run`: chunk stashing, pending aborts, merge |
| `NoPrefill`, `GetNewBatchPrefill` | `get_new_batch_prefill`, including `PrefillAdder` and the launch |
| `UpdateRunningBatch`, `NothingToRun` | `update_running_batch` with `retract_decode`, or an idle iteration |
| `ProcessBatchResult`, `NoResultDue` | the result at the end of the iteration, and `on_idle` with its memory check |
| `Crash` | a failed assertion or raised error; the process ends |

**`Detokenizer`** is `DetokenizerManager` as operators: the bounded table of decode
states, the two decodings of a message (from the surrounding tokens, and of those alone)
and the offsets. A token is a number; a character may take several tokens and is named
by the one that completes it, so a wrong offset shows as a missing, repeated or
replacement character.

**`FrontEnd`** composes tokenizer manager, scheduler and detokenizer. The tokenizer
manager runs on one asyncio loop, so an action is what happens between two awaits.

| Action | Code (`managers/tokenizer_manager.py`) |
|---|---|
| `Enter`, `Tokenized` | `generate_request` up to the first wait, the wait for the end of a pause and for the tokenizer's executor included; the requests of a parallel-sampling call |
| `Wake`, `TimeOut`, `Returned` | `_wait_one_response`: an output arrived, or the periodic look whether the client has gone |
| `Disconnect`, `AbortTask` | the client leaves; `create_abort_task` after it. The tasks that read the samples of a streaming parallel call (`_handle_batch_request`) are not cancelled with it: such a reader is an `"orphan"` that takes one more step |
| `HandleBatchOutput`, `HandleAbortReq` | `handle_loop` with its two message kinds |
| `pause_generation`, `PauseAgain`, `continue_generation` | the methods of these names; the abort mode repeats its round until the table is empty |
| `SRecv`, `Forward`, `Retract` | the scheduler, reduced to what it sends |
| `Detokenize` | one message of `event_loop` of the detokenizer |

**`KVTransfer`** is one transfer: `RaidenTransferKVSender`, `RaidenTransferKVReceiver`,
the bundle of chunks the bootstrap server keeps for the room, D's metadata lookup, and
the engine's state of each chunk on either side. Methods are operators on the record of
the transfer; one that may fail yields the set of its outcomes, each with the number of
faults it needs. **`PDTransfers`** holds all transfers and what happens to them outside
the servers' loops: engine steps, lookups, reapers, the expiry of a room.

**`PDPrefill`** is `event_loop_overlap_disagg_prefill`: `PRecv`, `PSend` (poll one
queued sender), `PLaunch` (pending aborts, backpressure, the next chunk), `PResolve`
(apply the oldest result and hand its chunk to the sender); `PForward` is the device.
**`PDDecode`** is `event_loop_overlap_disagg_decode`: `DRecv` queues the new requests, or
aborts those for which the lookup of a prefill server raises or finds one that does not
fit; `DBlocked`, `DAwait`,
`DAdmit`, `DAdmitFails` treat one entry of the preallocation queue; `DDrain` one of the
transfer queue; `DLaunch` merges, admits and launches; `DResult` applies a result;
`DForward` is the device. `dkv` and `pkv` say which chunk a page holds. Admission is
fenced by `DeviceIdle`, the wait of `_wait_decode_admission_safe`.

**`PDServing`** composes them. A router sends a request to both servers in any order, or
to one only; a client aborts it on either, as often as it likes, also after the answer
(`PAbort`, `DAbort`).

## 3. The runs

Passing runs (each explores its whole state space):

| Run | Instance | Shows |
|---|---|---|
| `paged_rows` | 2 ranks, 3 pages of 2 tokens, 2 requests of up to 5 tokens | no page is listed twice, given out twice or lost, whatever is merged, grouped or freed twice; rows are filled page by page without holes, share no page, and nothing else is held; the allocator with its rows implements `KVPool` |
| `kv_cache` | 3 requests; 7 pages of 1 token with forked prompts, 4 or 5 pages of 2 tokens with prompts that share two pages; 2 or 3 new tokens; pauses; both event loops | page ownership, exact lock counts, prefixes that stay cached while used, KV that matches the tree's keys, no failing allocation |
| `scheduler_safety` | both loops; 3 requests (one chunked, one prefill-only) on 1 rank with 9 tokens, or on 2 ranks with or without a rejected one; aborts, both pause modes | nothing crashes; every request has one home and one answer; tokens, chunks in flight and KV lengths agree with the requests |
| `scheduler_live` | both loops, 2 requests that do not fit together, aborts, a pause, fairness | `EveryRequestAnswered`; `FullOnlyWhileExhausted`: a rank marked full opens again; `LastRequestFits`: retraction never has to give up a request; `LateResultsAreDropped`: a late result never adds a token to a retracted or answered request |
| `pd_pages` | P with 2 pages, D with 3, a request of two chunks that may be aborted on either server and one of a single chunk, one fault anywhere | the engine reads and writes only pages of the request it works for (`SourcePagesIntact`, `DestPagesHeld`; `SourcePagesHeld` is in `pd_live` and proved); D decodes on the prompt's own KV in order (`OwnKV`); one owner per page, one home per request; the assertions on chunk owners hold; the request nobody touches succeeds whatever happens to the other (`HealthySucceed`) |
| `pd_live` | one request of two chunks that may be aborted and whose transfer may time out on either side, fairness | each server that received it answers it; `AnsweredOnce`: after that nothing but one more abort of a cancelled transfer that still drains brings another answer, and that is an abort again; all pages return (`PagesReturn`); no page of D is ever nobody's |
| `front_end` | nine workloads of one or two calls: text, multimodal, parallel sampling; streaming or not; clients that leave; a pause of each mode; 2 decode states | the text and ids of a final output are exactly the request's tokens (`AnswerIsExact`); a reader that takes only the newest output misses nothing; nothing follows a final output; every call returns and no state or lock stays behind |

Runs in which the program departs from what its documentation, comments or assertions
say (TLC finds the violation):

| Run | What happens |
|---|---|
| `pause_loses_prefill` | In overlap mode `pause_generation` applies the prefill in flight and forgets `last_batch` before its requests are merged: they are in no container any more (`managers/scheduler.py:2892`; `managers/io_struct.py:223`). |
| `retract_stays_full` | A retracting pause leaves `batch_is_full` set on the emptied batch; the retracted requests are never prefilled again (`managers/scheduler.py:2919`; `managers/io_struct.py:231`). |
| `abort_across_ranks` | With two ranks an admission on one raises `is_chunked` of the aborted chunked request of the other; `_finalize_chunked_abort` asserts it is zero (`managers/scheduler.py:2291`; `managers/scheduler_output_processor_mixin.py:132`). |
| `pd_refused` | A transferred request that D refuses at its first attempt (`NO_TOKEN`) forgets the pages its KV was received into and computes the prompt again (`managers/schedule_batch.py:545`). |
| `detok_partial_character` | An output that ends inside a multi-byte character is sent with the replacement character instead of being deferred (`managers/detokenizer_manager.py:258`). |

The passing runs stay away from these cases so that the other properties are checked past
them: in `Scheduler`, `PauseAfterPrefill = FALSE` keeps pauses away from a prefill not
merged yet (`kv_cache` has such pauses: the lost requests keep their pages); the
two-rank workloads abort only requests without chunks; the live run of the scheduler has
no retracting pause, no prefill-only request and a pool that a retracted request fits
again; `NoPageLost` is checked with `Reserved = 1`, where D never refuses a transferred
request; `front_end` has characters of one token. Each of these is a restriction of the
instance in its `.cfg` or MC module, not of a module.

Seen while modelling, without a run of their own:

- `RetractedIsRecomputed` fails in a second way, without any pause: `add_one_req`
  (`managers/schedule_policy.py:625`) charges a retracted request for its prompt, for the
  tokens it generated and for all of `max_new_tokens`, so with a capacity of 8, prompts
  of 3 and 1 tokens and 3 new tokens a request retracted late is refused for ever, even
  on an idle rank.
- `FullOnlyWhileExhausted` fails with a prefill-only request: a rank marked full while a
  prefill-only batch holds the tokens is not opened again
  (`managers/scheduler.py:2255`).
- An in-place pause of the normal loop leaves `cur_batch` set, so the watchdog times the
  pause as if it were a forward batch (`managers/scheduler.py:2755`).
- An in-place pause followed by an abort-mode pause: the second waits, holding
  `is_pause_cond`, until the table is empty; the paused scheduler never empties it, and
  `continue_generation` needs the condition (`managers/tokenizer_manager.py:853`). The
  instance of `front_end` has one pause.
- An abort of a transferred request in D's waiting queue removes it as if it held
  nothing; its pages are not released (`managers/scheduler.py:2786`; `NoPageLost` fails
  also on this path, which `pd_refused` reaches with an abortable request).

- A further abort of a request whose transfer was cancelled and still drains on D is
  answered again, since the entry stays in the transfer queue and nothing there looks
  whether it was answered (`disaggregation/decode.py:185`, `managers/scheduler.py:2846`).
  An abort-mode pause repeats its aborts (`managers/tokenizer_manager.py:853`), so this
  is ordinary; `_handle_abort_req` expects "a late or repeated cancellation"
  (`managers/tokenizer_manager.py:1410`) and drops it. `AnsweredOnce` allows this case
  and no other.
- With characters of several tokens the detokenizer also sends token ids twice: while a
  character is incomplete the offsets do not move, and the next output takes its ids from
  the same offset (`managers/detokenizer_manager.py:249`).
- The samples of a streaming parallel call whose client has left run to their end, unless
  a reader's wait times out first: the abort task names the id of the call, which no
  sample has (`managers/tokenizer_manager.py:994`).

### Bounds and why they are enough

- Three requests are the smallest number with a running request, a chunked one and a
  waiting one at once; one abort target at a time, since a set of targets is handled
  request by request; `MaxPauses = 1` bounds only the number of pauses, which may
  come at any iteration.
- A prompt of three tokens with `ChunkSize = 2` gives a first, a last and an in-flight
  chunk at once. `capacity` is chosen so that two requests do not fit to their end:
  refusals, retraction and re-admission all occur.
- Seven one-token pages, or four and five two-token pages, are the smallest pools the
  longest request is admitted to with two or three new tokens; they make eviction,
  sharing, splits of a node and retraction necessary. With three new tokens a request
  still runs after a decode step, so that a pause can retract it. Two token values are
  enough to fork prompts.
- Two ranks suffice for what ranks share: the flags of one batch object, the loops over
  ranks, and the reset of all ranks.
- A transfer of two chunks has a first and a last chunk, and with `Window = 1` a started
  and a pending one at once. P's two pages and D's three are too few for both requests
  to have theirs at the same time with room to spare, so pages are reused as soon as they
  are free. One fault reaches every failure branch once; a second changes only transfers
  that have failed already. Timeouts are in `pd_live` only, where they are not faults.
  `MaxAnswers = 2` bounds the answers to repeated aborts; the second changes nothing but
  their number, so a third would not either.
- Two decode states and three requests of a parallel call make the detokenizer evict.
  `MaxQueued` bounds the queue an abort-mode pause fills by repeating itself. Two of the
  workloads do without retraction (`tight`), which the other seven have.

### Fairness

- `Scheduler`: weak fairness of `Loop`, since both event loops are `while True` loops
  that take the next step without waiting for anything, and of `ContinueGeneration`: a
  client that paused the engine continues it some time. Arrivals, aborts and pauses are
  not fair, nor are early stop tokens: a request ends at `max_new_tokens` at the latest.
- `PDServing`: weak fairness of both loops, of both devices, of the engine's work on each
  request, of D's metadata lookups (an executor that returns), of the timers of each
  request (the reaper threads and D's deadlines), and of the registration of a prefill
  server. Arrival at a server, aborts and faults are not fair: a request the other server
  never gets is answered through a timer.
- `FrontEnd`: asyncio runs what can run; `asyncio.wait_for` times out; the scheduler, the
  detokenizer and the receiving loop go on; a client that paused continues. Once a client
  has left, the response's background task runs.

## 4. The proofs

**`PagedAllocatorProofs`** proves, for any set of ranks and any number of pages (the
module's only assumption is that the number of pages is a natural number):

- `TypeCorrect`, `ListsHaveNoDuplicates`, `PagesArePartitioned`: `Spec => []` of
  `TypeOK`, `NoDuplicates` and `PagePartition`;
- `Refinement`: `Spec => ImplementsKVPool`.

The inductive invariant is `IInv == TypeOK /\ NoDuplicates /\ PagePartition`. None of
the parts is inductive alone. A freed page is appended only when neither list has it;
that the length still equals the number of pages needs disjoint lists, and that an
allocation of `n` entries hands out `n` pages needs the lengths to be right. That a
free group can be appended without another look needs `PagePartition`: its pages are in
neither list. `CandidatesFacts` and `ReleasedFacts` state what merging and
releasing return; there is one step per action of `Next` below the step theorem. For
the refinement every action is shown to be an abstract `Alloc`, `Free` or `Clear`, or
to leave both sets unchanged: a failed allocation, the start of a group, and a free
inside a group move nothing.

**`PDServingProofs`** proves `SourceHeld`, `Spec => []SourcePagesHeld`, for any requests,
numbers of chunks, pages, window and number of faults, from the named assumptions on the
constants only. `SourcePagesHeld` is far from inductive: that a registered page is still
its request's depends on every path on which P gives pages back. The inductive invariant
`IInv` (in `PDPrefillProofs`) says in addition, of each request,

- the engine is at work only on chunks the sender has started, and each started chunk
  has a page (`SenderInv`, in `KVTransferProofs`);
- a sender is terminal only when no chunk of it is registered any more: `SenderAbort`
  and the timeout ask the engine and wait, they do not end the transfer;
- the pages the sender was given are a prefix of the request's own, and remain so while
  anything is registered; a request releases its pages only if its sender is terminal or
  never had a chunk;
- a forward in flight belongs to a request that keeps its page, so the page handed over
  by its result is the request's.

`KVTransferProofs` shows of every operator of `KVTransfer` that it keeps `SenderInv` or,
for those of the receiver, leaves the sender's part alone (`ReceiverPollSame`).
`PDPrefillProofs` has one lemma per step of P's loop; `PDServingProofs` adds the steps of
the engine, the timers and of D, which change nothing the invariant mentions or only
settle chunks.

Only model-checked: that no two requests of P own a page and that a registered page holds
its chunk (`OneOwner`, `SourcePagesIntact`), everything on D's side, all of `Scheduler`,
`KVCache` and `FrontEnd`. `PagedRows`, the radix tree and `Detokenizer` compute with
sequences built by recursion on the input, which the prover cannot do induction over;
liveness under fairness is outside the prover.

## 5. What is left out of the modelled parts

- `Scheduler`: prefix sharing (it runs on `ChunkCache`; `KVCache` has the tree), page
  sizes above one, cache-aware orderings of the queue, mixed prefill and decode
  batches, the `ignore_eos` budget, speculative decoding, grammar, LoRA, sessions,
  limits of the request-slot pool and of `max_prefill_tokens`.
  `new_token_ratio` is either 0 or 1 at each admission, the two ends of its range.
- `KVCache`: one rank (trees and pools of ranks are independent), access times, the
  `is_eagle` key layout, over-allocation by speculative decoding, a disabled cache.
- `PagedAllocator`: `backup_state` and `restore_state`, and double frees inside a free
  group, which no caller does.
- Disaggregation: one rank per server and one host; `ChunkCache`; a chunk is a page and
  uses up the chunk budget; a request's new tokens fit its last page, so D never grows or
  retracts; `CHUNK_TRANSFER_WINDOW` is one in the instances. Left out are request-level
  transfers and the loops without overlap, the JAX transfer backend, conflicting metadata
  and reuse of a room, endpoints of several hosts and the agreement between them, an
  engine that reports an error of its whole snapshot, pauses on either server, and the
  registry of prefill servers with its heartbeat (one is registered once and stays).
- Front end: embeddings, `skip_tokenizer_init` (and with it the `BatchTokenIDOut` branch of
  `_handle_batch_output`, which `OneOutput` does not have), LoRA, sessions, batches of prompts, the
  daemon-thread mode, stop strings (a stop is a token to be cut off), the explicit abort
  endpoint and the control calls of `_Communicator`. `continue_generation` without a
  pause changes nothing and is not an action. The branch of `_handle_abort_req` for a
  request without a state is not reached by the calls modelled: the scheduler there
  confirms an abort once, unlike D (section 3).

## 6. Not modelled

- **Models, layers, kernels, sampling, expert placement**: numerical code on the
  accelerator. A forward pass is one step whose tokens are arbitrary. This is by far the
  largest part of the source.
- **Parsers, HTTP server, launchers, routers, configuration**: text formats and I/O; what
  of them matters to the modelled parts (a disconnect, a request that reaches both
  servers in any order, options) appears as actions and constants.
- **Sliding-window allocator and caches**, **overlap worker's map of future tokens**,
  **grammar queue**, **multimodal stages**, **single-process (Pathways) disaggregation**:
  state machines within reach of a model, not covered yet; their hazards are listed in
  `PROJECT.json` with a note.
- **LoRA registry**: the unloading that would race with requests has no caller in the
  tokenizer manager.

## 7. Plan

1. **Done**: allocator with its proofs, block tables, radix cache, KV life cycle,
   scheduler with both loops, ranks, aborts and pauses; front end with detokenizer;
   disaggregated prefill and decode with the proof about source pages.
2. Next modules: the sliding-window allocator as a second pool in step with the first
   (refining two `KVPool`s); the overlap worker with the map of future tokens, composed
   with `Scheduler`; the grammar queue; the registry of prefill servers.
3. Proofs: `DestPagesHeld` of `PDServing` along the lines of `SourceHeld`; `OneOwner`
   (P allocates only pages nobody owns); `TokensAccounted` and `OneHome` of `Scheduler`.
