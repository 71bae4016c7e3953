-------------------------------- MODULE KVCache --------------------------------
(***************************************************************************)
(* The life of the KV pages of the requests of one data-parallel rank:     *)
(* matched and locked in the radix tree at admission, allocated for        *)
(* prefill chunks and decode steps, evicted from the tree under pressure,  *)
(* handed to the tree when a request stops or is stashed between chunks,   *)
(* and freed.  The pool behaves as KVPool says; which page it gives is     *)
(* immaterial, so it gives the lowest.                                     *)
(*                                                                         *)
(* Everything here runs on the scheduler's thread: op is the operation in  *)
(* progress, whose steps nothing interleaves with.  What varies is which   *)
(* requests are present, the tokens they produce, when they stop, and      *)
(* which leaf is evicted.  With MaxPending = 2 (event_loop_overlap) a      *)
(* batch is also prepared before the results of the one before it are      *)
(* known; with MaxPending = 1 (event_loop_normal) it is not.               *)
(*                                                                         *)
(* The server and its workload are chosen once, in Init, from Deployments. *)
(***************************************************************************)
EXTENDS RadixCache

CONSTANTS
  Reqs,           \* requests
  Tokens,         \* token ids
  OutputTokens,   \* the token ids the model produces
  Deployments,    \* the servers and workloads to choose from, see below
  ChunkSize,      \* chunked_prefill_size
  MaxRunning,     \* per_dp_max_running_requests
  RetractSteps    \* global_config.retract_decode_steps

ASSUME KVCacheAssumption ==
  /\ OutputTokens \subseteq Tokens
  /\ {ChunkSize, MaxRunning} \subseteq Nat \ {0}
  /\ RetractSteps \in Nat
  /\ \A d \in Deployments :
       /\ {d.num_pages, d.page_size, d.max_new_tokens} \subseteq Nat \ {0}
       /\ ChunkSize % d.page_size = 0
       /\ \A r \in Reqs : d.prompt[r] \in Seq(Tokens) \ {<<>>}
       /\ d.max_pending \in {1, 2}

VARIABLES
  cache,    \* tree_cache
  free,     \* pages the allocator can give
  req,      \* the KV state of each request
  queue,    \* result_queue: batches launched and not yet processed
  op,       \* the scheduler operation in progress
  content,  \* content[page]: for a page in use, the request and the index in its row
            \* for which it was allocated and its KV computed
  server    \* the deployment

vars == <<cache, free, req, queue, op, content, server>>

Prompt     == server.prompt        \* Prompt[r]: origin_input_ids
NumPages   == server.num_pages     \* pages of the pool
PageSize   == server.page_size     \* tokens per page
MaxPending == server.max_pending   \* batches in flight
MaxNewTokens == server.max_new_tokens \* sampling_params.max_new_tokens

Pages == 1..NumPages

(* A request: where the scheduler has it ("added": in the prefill batch that is not
   merged into running_batch yet; "lost": in no batch any more, with its pages), its
   tokens, len(fill_ids), its row of req_to_token in pages, kv_committed_len,
   cache_protected_len in pages, last_node. *)
NewReq(ids) == [phase |-> "waiting", ids |-> ids, fill |-> 0, row |-> <<>>,
                kv_committed_len |-> 0, cache_protected_len |-> 0, last_node |-> Root]

Idle == [at |-> "idle", batch |-> {}, partial |-> {}, rem_chunk |-> 0, offset |-> 0,
         need |-> 0, evicting |-> FALSE, evicted |-> 0]

In(phases) == {r \in Reqs : req[r].phase \in phases}
Running == In({"running"})
Chunked == In({"chunk", "aborting"})
Present == In({"added", "chunk", "aborting", "running"})
Holding == Present \cup In({"lost"})
Moved(from, to) ==
  [r \in Reqs |-> IF req[r].phase = from THEN [req[r] EXCEPT !.phase = to] ELSE req[r]]
InFlight(r) == \E i \in DOMAIN queue : r \in queue[i].reqs

NumOut(r) == Len(req[r].ids) - Len(Prompt[r])
CeilPages(n) == (n + PageSize - 1) \div PageSize

(* The whole pages among the first n tokens of ids: build_radix_key, page aligned. *)
Blocks(ids, n) ==
  [i \in 1..(Min({n, Len(ids)}) \div PageSize) |->
     SubSeq(ids, (i - 1) * PageSize + 1, i * PageSize)]

(* What is in a page that is freed no longer matters. *)
Forget == content' = [p \in Pages |-> IF p \in free' THEN <<>> ELSE content[p]]

PagesIn(row, from, to) == {row[i] : i \in (from + 1)..to}
-------------------------------------------------------------------------------
ReleasedKeepingTail(q, is_insert) ==
  PagesIn(q.row, q.cache_protected_len,
          IF is_insert THEN MatchLen(cache, Blocks(q.ids, q.kv_committed_len))
          ELSE q.kv_committed_len \div PageSize)

(* release_kv_cache of q, a request's record: with is_insert the tree takes the
   whole pages over except those it already has, without they are freed.  A page
   that is only partly filled is freed in both cases. *)
ReleasedPages(q, is_insert) ==
  LET aligned == q.kv_committed_len \div PageSize
      new_prefix_len == MatchLen(cache, Blocks(q.ids, q.kv_committed_len))
  IN  PagesIn(q.row, aligned, Len(q.row)) \cup
      PagesIn(q.row, q.cache_protected_len, IF is_insert THEN new_prefix_len ELSE aligned)

CacheAfterRelease(q, is_insert) ==
  LET key == Blocks(q.ids, q.kv_committed_len)
  IN  dec_lock_ref(IF is_insert THEN insert(cache, key, SubSeq(q.row, 1, Len(key))) ELSE cache,
                   q.last_node)

release_kv_cache(r, q, is_insert, phase) ==
  /\ free' = free \cup ReleasedPages(q, is_insert)
  /\ cache' = CacheAfterRelease(q, is_insert)
  /\ req' = [req EXCEPT ![r] = [NewReq(q.ids) EXCEPT !.phase = phase]]

(* cache_unfinished_req of q: the tree takes the whole pages of fill_ids over, the
   row switches to the tree's pages, and the lock moves to the longer path. *)
StashedPages(q) ==
  PagesIn(q.row, q.cache_protected_len, MatchLen(cache, Blocks(q.ids, q.fill)))

CacheAfterStash(q) ==
  LET key == Blocks(q.ids, q.fill)
      inserted == insert(cache, key, SubSeq(q.row, 1, Len(key)))
  IN  inc_lock_ref(dec_lock_ref(match_prefix(inserted, key), q.last_node), key)

StashKeepsOldRow(q) ==
  LET key == Blocks(q.ids, q.fill)
  IN  [q EXCEPT !.cache_protected_len = Len(key), !.last_node = key]

ReqAfterStash(q) ==
  LET key == Blocks(q.ids, q.fill)
      new_indices == PathPages(CacheAfterStash(q), key)
  IN  [q EXCEPT !.row = [i \in DOMAIN q.row |->
                           IF i \in (q.cache_protected_len + 1)..Len(key)
                           THEN new_indices[i] ELSE q.row[i]],
                !.cache_protected_len = Len(key),
                !.last_node = key]
-------------------------------------------------------------------------------
Init == /\ server \in Deployments
        /\ cache = reset
        /\ free = Pages
        /\ req = [r \in Reqs |-> NewReq(Prompt[r])]
        /\ queue = <<>>
        /\ op = Idle
        /\ content = [p \in Pages |-> <<>>]

(* evict_from_tree_cache(need tokens), which precedes every allocation. *)
Evict(at, need) ==
  [op EXCEPT !.at = at, !.need = need, !.evicted = 0,
             !.evicting = Cardinality(free') * PageSize < need]

Evicting == op.evicting /\ op.evicted < op.need /\ Victims(cache) # {}

EvictLeaf ==
  /\ Evicting
  /\ \E leaf \in Victims(cache) :
       /\ free' = free \cup ToSet(cache.nodes[leaf].value)
       /\ cache' = delete_leaf(cache, leaf)
       /\ op' = [op EXCEPT !.evicted = @ + Len(cache.nodes[leaf].value) * PageSize]
  /\ Forget
  /\ UNCHANGED <<req, queue>>

(* Extend the rows of the requests of batch to hold NewLen[r] tokens. *)
Missing(r, len) == CeilPages(len) - Len(req[r].row)
MissingFor(S, NewLen) == MapThenSumSet(LAMBDA r : Missing(r, NewLen[r]), S)

NthFree(n) == CHOOSE p \in free : Cardinality({x \in free : x <= p}) = n

Allocate(NewLen) ==
  LET batch == SetToSeq(DOMAIN NewLen)
      Before(i) == MissingFor({batch[j] : j \in 1..(i - 1)}, NewLen)
      Given(i) == [n \in 1..Missing(batch[i], NewLen[batch[i]]) |-> NthFree(Before(i) + n)]
      row == [r \in DOMAIN NewLen |->
                req[r].row \o Given(CHOOSE i \in DOMAIN batch : batch[i] = r)]
      Now(p) == {<<r, i>> \in (DOMAIN NewLen) \X Pages :
                   i \in (Len(req[r].row) + 1)..Len(row[r]) /\ row[r][i] = p}
  IN  /\ free' = {p \in free : Now(p) = {}}
      /\ req' = [r \in Reqs |->
                   IF r \in DOMAIN NewLen
                   THEN [req[r] EXCEPT !.row = row[r], !.kv_committed_len = NewLen[r]]
                   ELSE req[r]]
      /\ content' = [p \in Pages |->
                       IF Now(p) = {} THEN content[p] ELSE CHOOSE x \in Now(p) : TRUE]

(* run_batch: the batch joins the queue.  The loop then processes the oldest
   batch, once MaxPending are in flight or when it launched nothing. *)
ProcessOldest(q) ==
  [Idle EXCEPT !.at = "result", !.batch = Head(q).reqs, !.partial = Head(q).partial]

run_batch(mode) ==
  /\ queue' = Append(queue, [mode |-> mode, reqs |-> op.batch, partial |-> op.partial])
  /\ op' = IF Len(queue') < MaxPending THEN Idle ELSE ProcessOldest(queue')

OutOfMemory ==
  /\ op' = [Idle EXCEPT !.at = "oom"]
  /\ UNCHANGED <<cache, free, req, queue, content>>
-------------------------------------------------------------------------------
(* PrefillAdder.rem_total_tokens_for_dp, for the tree c. *)
rem_total_tokens(c, offset) ==
  (Cardinality(free) + c.evictable_size_) * PageSize - offset

BudgetBeforeLockOnly(total_tokens, matched, locked, offset) ==
  total_tokens < rem_total_tokens(matched, offset)

(* add_one_req checks the budget before the matched path is locked and again
   after, because locking the path makes it unevictable. *)
HasBudget(total_tokens, matched, locked, offset) ==
  /\ total_tokens < rem_total_tokens(matched, offset)
  /\ total_tokens < rem_total_tokens(locked, offset)

(* get_next_batch_to_run merges the last prefill batch into running_batch; then the
   start of get_new_batch_prefill. *)
StartRound ==
  /\ op.at = "idle"
  /\ In({"chunk"}) = {}
  /\ op' = [Idle EXCEPT !.at = "adding", !.rem_chunk = ChunkSize]
  /\ req' = Moved("added", "running")
  /\ UNCHANGED <<cache, free, queue, content>>

(* The same when a chunked request exists: it is stashed in the tree and
   add_chunked_req gives it its next chunk.  reserve is what PrefillAdder sets
   aside for the running requests: max_new_tokens - len(output_ids) of each, times
   a new_token_ratio between 0 and 1. *)
StartRoundWithChunk ==
  /\ op.at = "idle"
  /\ \E r \in In({"chunk"}) :
     \E reserve \in 0..MapThenSumSet(LAMBDA x : MaxNewTokens - NumOut(x),
                                     In({"added", "running"})) :
       LET q == ReqAfterStash(req[r])
           rem == Min({ChunkSize, rem_total_tokens(CacheAfterStash(req[r]), reserve)
                                    + Cardinality(StashedPages(req[r])) * PageSize})
           rem_tokens == IF rem <= 0 THEN ChunkSize ELSE rem
           extend_input_len == Min({Len(q.ids) - q.fill, rem_tokens})
           truncated == Len(q.ids) - q.fill > rem_tokens
       IN  /\ free' = free \cup StashedPages(req[r])
           /\ cache' = CacheAfterStash(req[r])
           /\ req' = [Moved("added", "running") EXCEPT ![r] =
                         [q EXCEPT !.fill = @ + extend_input_len,
                                   !.phase = IF truncated THEN "chunk" ELSE "added"]]
           /\ op' = [Idle EXCEPT !.at = "adding", !.batch = {r},
                                 !.partial = IF truncated THEN {r} ELSE {},
                                 !.rem_chunk = ChunkSize - CeilPages(extend_input_len) * PageSize,
                                 !.offset = reserve + CeilPages(extend_input_len) * PageSize
                                              + IF truncated THEN 0 ELSE MaxNewTokens]
  /\ Forget
  /\ UNCHANGED queue

(* init_next_round_input and add_one_req.  The match splits the tree whether or
   not the request is then admitted. *)
AddOneReq(r) ==
  /\ op.at = "adding"
  /\ req[r].phase = "waiting"
  /\ Chunked = {}
  /\ Cardinality(Running) + Cardinality(op.batch) < MaxRunning
  /\ LET q == req[r]
         key == Blocks(q.ids, Len(q.ids) - 1)
         last_node == Matched(cache, key)
         matched == match_prefix(cache, key)
         locked == inc_lock_ref(matched, last_node)
         prefix_len == Len(last_node) * PageSize
         extend_input_len == Len(q.ids) - prefix_len
         input_tokens == CeilPages(extend_input_len) * PageSize
         fits == input_tokens <= op.rem_chunk
         trunc_len == (op.rem_chunk \div PageSize) * PageSize
         admitted == /\ op.rem_chunk > 0
                     /\ HasBudget(extend_input_len + MaxNewTokens, matched, locked, op.offset)
                     /\ fits \/ trunc_len > 0
         taken == IF fits THEN input_tokens ELSE trunc_len
     IN  IF admitted
         THEN /\ cache' = locked
              /\ req' = [req EXCEPT ![r] =
                           [q EXCEPT !.phase = IF fits THEN "added" ELSE "chunk",
                                     !.fill = IF fits THEN Len(q.ids) ELSE prefix_len + trunc_len,
                                     !.row = PathPages(matched, last_node),
                                     !.kv_committed_len = prefix_len,
                                     !.cache_protected_len = Len(last_node),
                                     !.last_node = last_node]]
              /\ op' = [op EXCEPT !.batch = @ \cup {r},
                                  !.partial = IF fits THEN @ ELSE @ \cup {r},
                                  !.rem_chunk = @ - taken,
                                  !.offset = @ + taken + IF fits THEN MaxNewTokens ELSE 0]
         ELSE cache' = matched /\ UNCHANGED <<req, op>>
  /\ UNCHANGED <<free, queue, content>>

(* prepare_for_extend: evict, then allocate. *)
PrepareForExtend ==
  /\ op.at = "adding"
  /\ op.batch # {}
  /\ LET extend_num_tokens ==
           MapThenSumSet(LAMBDA r : req[r].fill - req[r].kv_committed_len, op.batch)
     IN  /\ UNCHANGED free
         /\ op' = Evict("extend", extend_num_tokens +
                          IF PageSize = 1 THEN 0 ELSE Cardinality(op.batch) * PageSize)
  /\ UNCHANGED <<cache, req, queue, content>>

AllocExtend ==
  /\ op.at = "extend"
  /\ ~Evicting
  /\ LET NewLen == [r \in op.batch |-> req[r].fill]
     IN  IF MissingFor(op.batch, NewLen) > Cardinality(free)
         THEN OutOfMemory
         ELSE Allocate(NewLen) /\ run_batch("extend") /\ UNCHANGED cache

(* Nothing could be added and nothing runs. *)
NothingToRun ==
  /\ op.at = "adding"
  /\ op.batch = {}
  /\ Running = {}
  /\ op' = IF queue = <<>> THEN Idle ELSE ProcessOldest(queue)
  /\ UNCHANGED <<cache, free, req, queue, content>>
-------------------------------------------------------------------------------
(* new_tokens_required_next_decode *)
RequiredPages(S) == Cardinality({r \in S : req[r].kv_committed_len % PageSize = 0})

(* update_running_batch: check_decode_mem evicts what the next step needs. *)
UpdateRunningBatch ==
  /\ op.at = "adding"
  /\ op.batch = {}
  /\ Running # {}
  /\ UNCHANGED free
  /\ op' = [Evict("check", RequiredPages(Running) * PageSize) EXCEPT !.batch = Running]
  /\ UNCHANGED <<cache, req, queue, content>>

(* Enough is free: prepare_for_decode evicts a page per request and allocates. *)
PrepareForDecode ==
  /\ op.at = "check"
  /\ ~Evicting
  /\ RequiredPages(op.batch) <= Cardinality(free)
  /\ UNCHANGED free
  /\ op' = Evict("decode", Cardinality(op.batch) * PageSize)
  /\ UNCHANGED <<cache, req, queue, content>>

AllocDecode ==
  /\ op.at = "decode"
  /\ ~Evicting
  /\ LET NewLen == [r \in op.batch |-> req[r].kv_committed_len + 1]
     IN  IF MissingFor(op.batch, NewLen) > Cardinality(free)
         THEN OutOfMemory
         ELSE Allocate(NewLen) /\ run_batch("decode") /\ UNCHANGED cache

(* retract_decode: the request with the fewest outputs, and among those the
   longest prompt, goes back to the waiting queue; the last one is aborted.
   release_req evicts for the ones that stay. *)
Victim(r) == \A x \in op.batch :
  \/ NumOut(r) < NumOut(x)
  \/ NumOut(r) = NumOut(x) /\ Len(Prompt[r]) >= Len(Prompt[x])

RetractDecode ==
  /\ op.at = "check"
  /\ ~Evicting
  /\ RequiredPages(op.batch) > Cardinality(free)
  /\ \E r \in op.batch :
       /\ Victim(r)
       /\ LET rest == op.batch \ {r}
          IN  /\ release_kv_cache(r, req[r], FALSE, IF rest = {} THEN "finished" ELSE "waiting")
              /\ op' = [Evict("released", Cardinality(rest) * RetractSteps) EXCEPT !.batch = rest]
  /\ Forget
  /\ UNCHANGED queue

RetractNext ==
  /\ op.at = "released"
  /\ ~Evicting
  /\ UNCHANGED free
  /\ op' = IF op.batch # {} THEN Evict("check", RequiredPages(op.batch) * PageSize)
           ELSE IF queue = <<>> THEN Idle ELSE ProcessOldest(queue)
  /\ UNCHANGED <<cache, req, queue, content>>
-------------------------------------------------------------------------------
(* process_batch_result_prefill and process_batch_result_decode for request r.
   A request that was retracted or has finished since the launch is skipped; the
   result of a chunk that is not the last yields no token. *)
ResultSkipped(r) == req[r].phase \in {"waiting", "finished"}

ProcessResult(r) ==
  /\ op.at = "result"
  /\ r \in op.batch
  /\ op' = [op EXCEPT !.batch = @ \ {r}]
  /\ \/ /\ \/ ResultSkipped(r)
           \/ r \in op.partial /\ req[r].phase # "aborting"
        /\ UNCHANGED <<cache, free, req>>
     \/ /\ r \in op.partial /\ req[r].phase = "aborting"
        /\ release_kv_cache(r, req[r], FALSE, "finished")
     \/ /\ ~ResultSkipped(r) /\ r \notin op.partial
        /\ \E token \in OutputTokens :
             LET q == [req[r] EXCEPT !.ids = Append(@, token)]
             IN  \/ release_kv_cache(r, q, TRUE, "finished")
                 \/ /\ NumOut(r) + 1 < MaxNewTokens
                    /\ IF Head(queue).mode = "extend"
                       THEN /\ free' = free \cup StashedPages(q)
                            /\ cache' = CacheAfterStash(q)
                            /\ req' = [req EXCEPT ![r] = ReqAfterStash(q)]
                       ELSE req' = [req EXCEPT ![r] = q] /\ UNCHANGED <<cache, free>>
  /\ Forget
  /\ UNCHANGED queue

EndResult ==
  /\ op.at = "result"
  /\ op.batch = {}
  /\ queue' = Tail(queue)
  /\ op' = Idle
  /\ UNCHANGED <<cache, free, req, content>>

(* abort_request of a chunked request: released at once, or by the result of the
   chunk that is in flight. *)
AbortChunked(r) ==
  /\ op.at = "idle"
  /\ req[r].phase = "chunk"
  /\ IF InFlight(r)
     THEN req' = [req EXCEPT ![r].phase = "aborting"] /\ UNCHANGED <<cache, free>>
     ELSE release_kv_cache(r, req[r], FALSE, "finished")
  /\ Forget
  /\ UNCHANGED <<queue, op>>

(* pause_generation: in overlap mode the batch in flight is processed first, and
   last_batch is forgotten.  A prefill batch is not merged then: no batch has its
   requests any more. *)
PauseDrains ==
  /\ op.at = "idle"
  /\ queue # <<>>
  /\ op' = ProcessOldest(queue)
  /\ req' = Moved("added", "lost")
  /\ UNCHANGED <<cache, free, queue, content>>

(* pause_generation in retract mode: retract_all releases the running requests
   one by one, then the chunked one is released.  Here the normal loop forgets its
   last_batch, too. *)
PauseRetracts ==
  /\ op.at = "idle"
  /\ queue = <<>>
  /\ Present # {}
  /\ op' = [Idle EXCEPT !.at = "retract_all", !.batch = Running]
  /\ req' = Moved("added", "lost")
  /\ UNCHANGED <<cache, free, queue, content>>

RetractAll(r) ==
  /\ op.at = "retract_all"
  /\ ~Evicting
  /\ r \in Running \/ (Running = {} /\ r \in Chunked)
  /\ release_kv_cache(r, req[r], FALSE, "waiting")
  /\ op' = IF r \in Running THEN Evict("retract_all", (Cardinality(op.batch) - 1) * RetractSteps)
           ELSE op
  /\ Forget
  /\ UNCHANGED queue

EndRetractAll ==
  /\ op.at = "retract_all"
  /\ ~Evicting
  /\ Present = {}
  /\ op' = Idle
  /\ UNCHANGED <<cache, free, req, queue, content>>

(* flush_cache: only when the scheduler is fully idle, as far as its batches tell. *)
FlushCache ==
  /\ op.at = "idle"
  /\ queue = <<>>
  /\ Present = {}
  /\ cache' = reset
  /\ free' = Pages
  /\ req' = [r \in Reqs |-> IF req[r].phase = "lost"
                           THEN [NewReq(req[r].ids) EXCEPT !.phase = "finished"] ELSE req[r]]
  /\ Forget
  /\ UNCHANGED <<queue, op>>

Step ==
  \/ EvictLeaf \/ StartRound \/ StartRoundWithChunk \/ PrepareForExtend \/ AllocExtend
  \/ NothingToRun \/ UpdateRunningBatch \/ PrepareForDecode \/ AllocDecode
  \/ RetractDecode \/ RetractNext \/ EndResult
  \/ PauseDrains \/ PauseRetracts \/ EndRetractAll \/ FlushCache
  \/ \E r \in Reqs : AddOneReq(r) \/ ProcessResult(r) \/ AbortChunked(r) \/ RetractAll(r)

Next == Step /\ UNCHANGED server

Spec == Init /\ [][Next]_vars
-------------------------------------------------------------------------------
Owned(r) == SubSeq(req[r].row, req[r].cache_protected_len + 1, Len(req[r].row))

TreePages == UNION {ToSet(cache.nodes[p].value) : p \in Paths(cache)}

(* Every page is free, in one node of the tree, or owned by one request, and never
   two of these: nothing leaks and nothing is freed twice or shared by mistake, through
   matching, splitting, stashing, eviction, retraction and release. *)
EveryPageHasOneOwner ==
  /\ free \cup TreePages \cup UNION {ToSet(Owned(r)) : r \in Holding} = Pages
  /\ Cardinality(free) + TokensIn(cache, Paths(cache))
       + MapThenSumSet(LAMBDA r : Len(Owned(r)), Holding) = NumPages

(* A node's lock_ref is the number of requests that hold it or a descendant of it,
   across splits and moves of the lock, and the two sizes the scheduler budgets
   with are those of the unlocked and of the locked nodes. *)
LocksAreExact ==
  /\ \A p \in Paths(cache) \ {Root} :
       cache.nodes[p].lock_ref = Cardinality({r \in Holding : IsPrefix(p, req[r].last_node)})
  /\ LET Locked == {p \in Paths(cache) \ {Root} : cache.nodes[p].lock_ref > 0}
     IN  /\ cache.protected_size_ = TokensIn(cache, Locked)
         /\ cache.evictable_size_ = TokensIn(cache, Paths(cache) \ Locked)

(* The pages a request uses and does not own are those of its last_node, which
   stays in the tree for as long as the request runs. *)
PrefixStaysCached ==
  \A r \in Holding :
    LET q == req[r]
    IN  /\ q.last_node \in Paths(cache)
        /\ IsPrefix(q.last_node, Blocks(q.ids, Len(q.ids)))
        /\ SubSeq(q.row, 1, q.cache_protected_len) = PathPages(cache, q.last_node)

Computed(page, i, key) ==
  \E r \in Reqs : /\ content[page] = <<r, i>>
                  /\ Blocks(req[r].ids, i * PageSize) = SubSeq(key, 1, i)

(* The KV in a page of the tree was computed for exactly the tokens of the path it
   is filed under, and the KV in a request's own pages for that request: no reuse
   of a page, overlap of batches or retraction makes a later match return KV of
   other tokens. *)
KVMatchesKey ==
  /\ \A p \in Paths(cache) : \A i \in 1..Len(p) : Computed(PathPages(cache, p)[i], i, p)
  /\ \A r \in Holding :
       \A i \in (req[r].cache_protected_len + 1)..Len(req[r].row) :
         content[req[r].row[i]] = <<r, i>>

(* The admission budget of add_one_req and the check before a decode step leave
   enough pages, free or evictable, for the allocation that follows: the
   RuntimeError "out of memory" of the allocation is never raised. *)
NeverOutOfMemory == op.at # "oom"

===============================================================================
