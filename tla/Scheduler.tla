------------------------------ MODULE Scheduler ------------------------------
(***************************************************************************)
(* The control of the scheduler process: the event loop, the containers a  *)
(* request moves through, and the control messages that arrive between     *)
(* two iterations.  Both loops are modelled: event_loop_normal, where a    *)
(* batch is launched and its result applied in one iteration, and          *)
(* event_loop_overlap, where the result of a batch is applied one          *)
(* iteration later, after the next batch has been scheduled and launched.  *)
(*                                                                         *)
(* An iteration runs  recv -> MergeLastBatch -> get_new_batch_prefill ->   *)
(* update_running_batch -> process_batch_result.  Messages are handled     *)
(* only at "recv", so the other steps follow each other; they are actions  *)
(* of their own because each is a method of its own.                       *)
(*                                                                         *)
(* Token contents are left out: a request is a number of prompt tokens and *)
(* a number of output tokens, the KV pool of a rank a number of tokens.    *)
(* The prefix cache is the ChunkCache (nothing is shared; KVCache.tla has  *)
(* the radix tree) and the page size is 1.                                 *)
(***************************************************************************)
EXTENDS Integers, FiniteSets, Sequences, SequencesExt, FiniteSetsExt

CONSTANTS
  Reqs,           \* the requests clients may send
  PromptLen,      \* length of each prompt
  Deployments,    \* the servers and workloads to choose from, see below
  ChunkSize,      \* chunked_prefill_size
  MaxRunning,     \* per_dp_max_running_requests
  Overlap,        \* values enable_overlap may have
  PauseModes,     \* modes clients pause with
  MaxPauses,      \* bound on the number of pauses
  PauseAfterPrefill, \* may a pause find a prefill batch not merged yet
  None

(* A deployment: its data-parallel ranks, the rank each request is assigned *)
(* to, the KV tokens of one rank, the max_new_tokens of each request (0 for *)
(* prefill-only), the requests handle_generate_request rejects and the sets *)
(* of requests an AbortReq may name.  max_req_len is at most capacity - 1, *)
(* and max_new_tokens at most max_req_len - len(input) - 1.                *)
ASSUME SchedulerAssumption ==
  /\ PromptLen \in [Reqs -> Nat \ {0}]
  /\ \A d \in Deployments :
       /\ d.dp_size \in Nat \ {0} /\ d.dp_rank \in [Reqs -> 0..(d.dp_size - 1)]
       /\ d.capacity \in Nat /\ d.max_new_tokens \in [Reqs -> Nat]
       /\ \A r \in Reqs : PromptLen[r] + d.max_new_tokens[r] + 2 <= d.capacity
       /\ d.invalid \subseteq Reqs /\ d.aborts \subseteq SUBSET Reqs
  /\ ChunkSize \in Nat \ {0} /\ MaxRunning \in Nat \ {0}
  /\ Overlap \in SUBSET BOOLEAN \ {{}} /\ PauseAfterPrefill \in BOOLEAN
  /\ PauseModes \subseteq {"in_place", "retract"}
  /\ MaxPauses \in Nat
  /\ None \notin Reqs

VARIABLES
  pc,             \* where the event loop stands; "crashed" after a raise
  req,            \* the Req objects
  available,      \* available_size of each rank's KV pool
  waiting_queue,
  running_batch,
  batch,          \* the batch this iteration launched
  last_batch,
  result_queue,   \* launched batches whose results are not applied yet
  chunked_reqs,   \* per rank, the request in the middle of its prefill
  pending,        \* _pending_chunked_abort_reqs
  paused,         \* _engine_paused
  pausing,        \* the mode of the pause being handled, None if none is
  pauses,         \* pauses so far
  enable_overlap, \* which of the two event loops the process runs
  deployment      \* the deployment this is

vars == <<pc, req, available, waiting_queue, running_batch, batch, last_batch,
          result_queue, chunked_reqs, pending, paused,
          pausing, pauses, enable_overlap, deployment>>

DpSize       == deployment.dp_size
Ranks        == 0..(DpSize - 1)
DpRank       == deployment.dp_rank
Capacity     == deployment.capacity
MaxNewTokens == deployment.max_new_tokens
Invalid      == deployment.invalid
AbortTargets == deployment.aborts

------------------------------------------------------------------------------
(* Requests.                                                               *)

NewReq ==
  [arrived |-> FALSE, out |-> 0, prefix |-> 0, kv |-> 0, is_chunked |-> 0,
   to_finish |-> FALSE, finished |-> FALSE, is_retracted |-> FALSE,
   finished_output |-> FALSE, sent |-> 0]

(* set_finish_with_abort replaces the prompt of a rejected request by one  *)
(* token.                                                                  *)
InputLen(r) == IF r \in Invalid THEN 1 ELSE PromptLen[r]

(* len(origin_input_ids + output_ids): what a prefill has to compute.      *)
SeqLen(r) == InputLen(r) + req[r].out

(* release_kv_cache gives the tokens of a request back, reset_for_retract  *)
(* prepares it for another prefill.                                        *)
release_kv_cache(q) == [q EXCEPT !.kv = 0]

RetractKeepsKV(q) ==
  [q EXCEPT !.prefix = 0, !.is_chunked = 0, !.is_retracted = TRUE]

reset_for_retract(q) ==
  [release_kv_cache(q) EXCEPT !.prefix = 0, !.is_chunked = 0,
                              !.is_retracted = TRUE]

(* AbortReq to the tokenizer, the terminal answer of an aborted request.   *)
SendAbort(q) == [q EXCEPT !.sent = @ + 1]

FreedBy(S) ==
  [k \in Ranks |-> available[k] + MapThenSumSet(LAMBDA r : req[r].kv,
                                    {r \in S : DpRank[r] = k})]

------------------------------------------------------------------------------
(* Batches.                                                                *)

NoReqs == [k \in Ranks |-> <<>>]
NoOwner == [k \in Ranks |-> None]
NotFull == [k \in Ranks |-> FALSE]

NoBatch == [forward_mode |-> "none", reqs |-> NoReqs, chunked_req |-> NoOwner,
            is_prefill_only |-> TRUE]

(* init_new of a batch without requests: all() of nothing is true.         *)
EmptyRunning == [reqs |-> NoReqs, batch_is_full |-> NotFull,
                 is_prefill_only |-> TRUE]

(* All requests of a batch, rank by rank.                                  *)
Flat(reqs) == FlattenSeq([i \in 1..DpSize |-> reqs[i - 1]])

Members(reqs) == UNION {ToSet(reqs[k]) : k \in Ranks}

is_empty(reqs) == \A k \in Ranks : reqs[k] = <<>>

(* filter_batch drops finished requests and, per rank, an excluded one.    *)
filter_batch(reqs, exclude) ==
  [k \in Ranks |-> SelectSeq(reqs[k], LAMBDA r : ~req[r].finished
                                                 /\ r # exclude[k])]

MergeDropsRunning(reqs, others) == others

merge_batch(reqs, others) == [k \in Ranks |-> reqs[k] \o others[k]]

Extending(b) == b.forward_mode = "extend"

------------------------------------------------------------------------------
Init ==
  /\ deployment \in Deployments
  /\ pc = "recv"
  /\ req = [r \in Reqs |-> NewReq]
  /\ available = [k \in Ranks |-> Capacity]
  /\ waiting_queue = <<>>
  /\ running_batch = EmptyRunning
  /\ batch = NoBatch /\ last_batch = NoBatch
  /\ result_queue = <<>>
  /\ chunked_reqs = NoOwner /\ pending = NoOwner
  /\ paused = FALSE /\ pausing = None /\ pauses = 0
  /\ enable_overlap \in Overlap

(* A failed assertion, or an error that reaches the top of the event loop, *)
(* ends the scheduler process.                                             *)
Crash ==
  /\ pc' = "crashed"
  /\ UNCHANGED <<req, available, waiting_queue, running_batch, batch, last_batch,
                 result_queue, chunked_reqs, pending, paused,
                 pausing, pauses, enable_overlap>>

------------------------------------------------------------------------------
(* The results of a launched batch.                                        *)

(* The oldest launched batch, and the requests whose result is dropped.    *)
Result == Head(result_queue)

SkipsOnlyFinished(r) == req[r].finished

Skipped(r) == req[r].finished \/ req[r].is_retracted

MidPrefill(r) == Extending(Result) /\ req[r].is_chunked > 0

Aborting(r) == pending[DpRank[r]] = r

(* _finalize_chunked_abort asserts that no chunk of the request is left.   *)
ResultAsserts ==
  \A r \in Members(Result.reqs) :
    ~Skipped(r) /\ MidPrefill(r) /\ Aborting(r) =>
      chunked_reqs[DpRank[r]] = r /\ req[r].is_chunked = 1

IgnoresMaxNew(r, stops) ==
  LET q == [req[r] EXCEPT !.out = @ + 1]
  IN  IF q.to_finish \/ r \in stops
      THEN [release_kv_cache(q) EXCEPT !.finished = TRUE]
      ELSE q

(* One more token; check_finished stops the request on a pending abort, at *)
(* max_new_tokens, or because the token ends the text (r \in stops).       *)
AppendToken(r, stops) ==
  LET q == [req[r] EXCEPT !.out = @ + 1]
  IN  IF q.to_finish \/ q.out >= MaxNewTokens[r] \/ r \in stops
      THEN [release_kv_cache(q) EXCEPT !.finished = TRUE]
      ELSE q

StreamsAgain(q) == IF q.finished THEN [q EXCEPT !.sent = @ + 1] ELSE q

(* stream_output sends the terminal answer of a finished request once.     *)
Streamed(q) ==
  IF q.finished /\ ~q.finished_output
  THEN [q EXCEPT !.finished_output = TRUE, !.sent = @ + 1]
  ELSE q

ResultKeepsCount(r, stops) ==
  IF Skipped(r) \/ MidPrefill(r) THEN Streamed(req[r])
  ELSE Streamed(AppendToken(r, stops))

AfterResult(r, stops) ==
  LET q == [req[r] EXCEPT !.is_chunked = @ - 1]
  IN  CASE Skipped(r) -> Streamed(req[r])
        [] ~Skipped(r) /\ MidPrefill(r) ->
             IF Aborting(r)
             THEN Streamed([release_kv_cache(q) EXCEPT !.finished = TRUE])
             ELSE q
        [] OTHER -> Streamed(AppendToken(r, stops))

(* process_batch_result: prefill and decode results differ only for the    *)
(* requests in the middle of their prefill.                                *)
process_batch_result(stops) ==
  LET applied == Members(Result.reqs)
      after   == [r \in Reqs |-> IF r \in applied THEN AfterResult(r, stops)
                                                  ELSE req[r]]
      ended   == {r \in applied : after[r].finished /\ ~req[r].finished}
      owned(owner) == [k \in Ranks |-> IF pending[k] \in ended THEN None
                                                            ELSE owner[k]]
  IN  /\ req' = after
      /\ available' = FreedBy(ended)
      /\ chunked_reqs' = owned(chunked_reqs)
      /\ pending' = owned(pending)
      /\ result_queue' = Tail(result_queue)

(* The requests of the oldest batch that sample a token.                   *)
Sampling == {r \in Members(Result.reqs) : ~Skipped(r) /\ ~MidPrefill(r)}

------------------------------------------------------------------------------
(* Chunked requests and their aborts.                                      *)

(* _sync_chunked_req_owners takes over the owners the last batch names.    *)
Named(k) == Extending(last_batch) /\ last_batch.chunked_req[k] # None

Owners ==
  [k \in Ranks |-> IF Named(k) THEN last_batch.chunked_req[k] ELSE chunked_reqs[k]]

OwnersAgree ==
  \A k \in Ranks : Named(k) => chunked_reqs[k] \in {None, last_batch.chunked_req[k]}

ConsumesNothing(aborts) == {}

(* _process_pending_chunked_aborts finalizes those with nothing in flight. *)
Consumed(aborts) == {k \in Ranks : aborts[k] # None /\ req[aborts[k]].is_chunked = 0}

AbortsOwned(aborts, owners) == \A k \in Ranks : aborts[k] \in {None, owners[k]}

Finalize(q) == SendAbort([release_kv_cache(q) EXCEPT !.finished = TRUE])

Without(owner, ranks) == [k \in Ranks |-> IF k \in ranks THEN None ELSE owner[k]]

(* _retire_chunked_req_batch_owners.                                       *)
Retired(b, aborts, ranks) ==
  IF ranks = {} \/ ~Extending(b) THEN b
  ELSE [b EXCEPT !.reqs = filter_batch(@, [k \in Ranks |-> IF k \in ranks
                                             THEN aborts[k] ELSE None]),
                 !.chunked_req = Without(@, ranks)]

------------------------------------------------------------------------------
(* Messages, handled between two iterations.                               *)

(* handle_generate_request: a rejected request is queued too, marked to    *)
(* finish after its one-token prefill.                                     *)
Generate(r) ==
  /\ pc = "recv" /\ ~req[r].arrived
  /\ req' = [req EXCEPT ![r].arrived = TRUE, ![r].to_finish = r \in Invalid]
  /\ waiting_queue' = Append(waiting_queue, r)
  /\ UNCHANGED <<pc, available, running_batch, batch, last_batch, result_queue,
                 chunked_reqs, pending, paused, pausing, pauses, enable_overlap>>

(* abort_request: a queued request is answered at once, a running one is   *)
(* marked to finish, one in the middle of its prefill becomes pending (and *)
(* is finalized here if the engine is paused and nothing is in flight).    *)
AbortRequest(S) ==
  LET marked   == {k \in Ranks : Owners[k] \in S}
      aborts   == [k \in Ranks |-> IF k \in marked THEN Owners[k] ELSE pending[k]]
      consumed == IF paused THEN Consumed(aborts) ELSE {}
      queued   == S \cap ToSet(waiting_queue)
      running  == (Members(running_batch.reqs) \cup Members(last_batch.reqs)) \cap S
      closed   == {aborts[k] : k \in consumed}
      after(r) ==
        CASE r \in closed -> Finalize([req[r] EXCEPT !.to_finish = TRUE])
          [] r \in queued -> SendAbort(req[r])
          [] OTHER -> [req[r] EXCEPT !.to_finish = @ \/ r \in {Owners[k] : k \in marked}
                                       \/ (r \in running /\ ~req[r].finished)]
  IN  /\ pc = "recv" /\ \E r \in S : req[r].arrived
      /\ IF \/ ~OwnersAgree
            \/ \E k \in marked : pending[k] \notin {None, Owners[k]}
            \/ paused /\ ~AbortsOwned(aborts, Owners)
         THEN Crash
         ELSE /\ req' = [r \in Reqs |-> after(r)]
              /\ available' = FreedBy(closed)
              /\ waiting_queue' = SelectSeq(waiting_queue, LAMBDA r : r \notin S)
              /\ chunked_reqs' = Without(Owners, consumed)
              /\ pending' = Without(aborts, consumed)
              /\ last_batch' = Retired(last_batch, aborts, consumed)
              /\ UNCHANGED <<pc, running_batch, batch, result_queue, paused,
                             pausing, pauses, enable_overlap>>

(* Requests of a prefill batch the next iteration would have merged.       *)
Unmerged ==
  Extending(last_batch) /\ ~is_empty(filter_batch(last_batch.reqs, Owners))

(* pause_generation, up to the draining of the result in flight.           *)
PauseGeneration(mode) ==
  /\ pc = "recv" /\ pauses < MaxPauses
  /\ PauseAfterPrefill \/ ~Unmerged
  /\ IF ~OwnersAgree THEN Crash
     ELSE /\ paused' = TRUE /\ pausing' = mode /\ pauses' = pauses + 1
          /\ chunked_reqs' = Owners
          /\ pc' = IF enable_overlap /\ last_batch # NoBatch THEN "drain" ELSE "pause"
          /\ UNCHANGED <<req, available, waiting_queue, running_batch, batch,
                         last_batch, result_queue, pending, enable_overlap>>

(* pause_generation in the overlap loop applies the result in flight and   *)
(* forgets the last batch.                                                 *)
DrainForPause ==
  /\ pc = "drain"
  /\ IF ~ResultAsserts THEN Crash
     ELSE /\ \E stops \in SUBSET Sampling : process_batch_result(stops)
          /\ last_batch' = NoBatch /\ batch' = NoBatch
          /\ pc' = "pause"
          /\ UNCHANGED <<waiting_queue, running_batch, paused,
                         pausing, pauses, enable_overlap>>

(* The rest of pause_generation: pending aborts, then, in retract mode,    *)
(* every running request and every parked chunked one back to the queue.   *)
FinishPause ==
  LET consumed == Consumed(pending)
      closed   == {pending[k] : k \in consumed}
      owners   == Without(chunked_reqs, consumed)
      retract  == pausing = "retract"
      running  == filter_batch(running_batch.reqs, NoOwner)
      parked   == [k \in Ranks |-> IF owners[k] \in {None} \cup Members(running)
                                   THEN <<>> ELSE <<owners[k]>>]
      back     == IF retract THEN Flat(running) \o Flat(parked) ELSE <<>>
      after(r) == IF r \in closed THEN Finalize(req[r])
                  ELSE IF r \in ToSet(back) THEN reset_for_retract(req[r])
                  ELSE req[r]
  IN  /\ pc = "pause"
      /\ IF \/ ~AbortsOwned(pending, chunked_reqs)
            \/ retract /\ \E k \in Ranks :
                 /\ owners[k] # None
                 /\ \/ pending[k] # None
                    \/ parked[k] # <<>> /\ req[owners[k]].is_chunked # 0
         THEN Crash
         ELSE /\ req' = [r \in Reqs |-> after(r)]
              /\ available' = FreedBy(closed \cup ToSet(back))
              /\ waiting_queue' = waiting_queue \o back
              /\ pending' = Without(pending, consumed)
              /\ chunked_reqs' = IF retract THEN NoOwner ELSE owners
              /\ running_batch' = IF retract THEN [running_batch EXCEPT !.reqs = NoReqs]
                                  ELSE running_batch
              /\ last_batch' = IF retract THEN NoBatch
                               ELSE Retired(last_batch, pending, consumed)
              /\ batch' = IF retract THEN NoBatch ELSE batch
              /\ pc' = "recv" /\ pausing' = None
              /\ UNCHANGED <<result_queue, paused, pauses, enable_overlap>>

ContinueGeneration ==
  /\ pc = "recv" /\ paused
  /\ paused' = FALSE
  /\ UNCHANGED <<pc, req, available, waiting_queue, running_batch, batch, last_batch,
                 result_queue, chunked_reqs, pending,
                 pausing, pauses, enable_overlap>>

(* _can_flush_cache, which is_fully_idle is too.                           *)
can_flush_cache(cur) ==
  /\ waiting_queue = <<>>
  /\ is_empty(running_batch.reqs) /\ is_empty(cur.reqs) /\ is_empty(last_batch.reqs)
  /\ chunked_reqs = NoOwner
  /\ enable_overlap => result_queue = <<>>

(* flush_cache; a refused flush changes nothing.  Between two iterations   *)
(* cur_batch is last_batch.                                                *)
FlushCache ==
  /\ pc = "recv" /\ can_flush_cache(last_batch)
  /\ batch' = NoBatch /\ last_batch' = NoBatch /\ running_batch' = EmptyRunning
  /\ chunked_reqs' = NoOwner /\ pending' = NoOwner
  /\ result_queue' = <<>>
  /\ available' = [k \in Ranks |-> Capacity]
  /\ UNCHANGED <<pc, req, waiting_queue, paused, pausing, pauses, enable_overlap>>

------------------------------------------------------------------------------
(* One iteration of the event loop.                                        *)

(* get_next_batch_to_run, first part: keep the computed prefix of chunked  *)
(* requests, finalize their aborts, move the requests of the last prefill  *)
(* batch to the running batch.                                             *)
MergeLastBatch ==
  LET consumed == Consumed(pending)
      closed   == {pending[k] : k \in consumed}
      stashed  == {Owners[k] : k \in {j \in Ranks : pending[j] = None}} \ {None}
      kept     == filter_batch(last_batch.reqs, Owners)
      full     == [k \in Ranks |-> /\ running_batch.batch_is_full[k]
                                   /\ Len(kept[k]) = Len(last_batch.reqs[k])]
      merged   ==
        IF ~Extending(last_batch) THEN running_batch
        ELSE IF is_empty(kept) \/ last_batch.is_prefill_only
        THEN [running_batch EXCEPT !.batch_is_full = full]
        ELSE IF is_empty(running_batch.reqs)
        THEN [reqs |-> kept, batch_is_full |-> NotFull, is_prefill_only |-> FALSE]
        ELSE [running_batch EXCEPT !.batch_is_full = full,
                                   !.reqs = merge_batch(@, kept)]
      alive    == filter_batch(merged.reqs, NoOwner)
      after(r) == IF r \in closed THEN Finalize(req[r])
                  ELSE IF r \in stashed THEN [req[r] EXCEPT !.prefix = req[r].kv]
                  ELSE req[r]
  IN  /\ pc = "recv" /\ ~paused
      /\ IF ~OwnersAgree \/ ~AbortsOwned(pending, Owners) THEN Crash
         ELSE /\ req' = [r \in Reqs |-> after(r)]
              /\ available' = FreedBy(closed)
              /\ chunked_reqs' = Without(Owners, consumed)
              /\ pending' = Without(pending, consumed)
              /\ running_batch' =
                   IF ~merged.is_prefill_only THEN merged
                   ELSE [merged EXCEPT !.reqs = alive,
                           !.batch_is_full = IF is_empty(alive) THEN NotFull ELSE @]
              /\ pc' = "prefill"
              /\ UNCHANGED <<waiting_queue, batch, last_batch, result_queue, paused,
                             pausing, pauses, enable_overlap>>

(* PrefillAdder.  Tokens reserved for the running requests: their remaining *)
(* outputs times new_token_ratio, here either none or all of them.         *)
Reserved(k, all) ==
  IF all THEN MapThenSumSet(LAMBDA r : MaxNewTokens[r] - req[r].out,
                            ToSet(running_batch.reqs[k]))
  ELSE 0

rem_total_tokens(a, k) == available[k] - a.offset[k]

(* _update_prefill_budget, with the request appended to can_run_list.      *)
Admit(a, k, r, len, new) ==
  [a EXCEPT !.can_run[k] = Append(@, r), !.extend[r] = len,
            !.offset[k] = @ + len + new, !.rem_chunk[k] = @ - len]

ChunkRestarts(a, k) ==
  LET r == chunked_reqs[k]
  IN  IF r = None \/ pending[k] # None THEN a
      ELSE [Admit(a, k, r, SeqLen(r), MaxNewTokens[r]) EXCEPT !.chunked[k] = None]

(* add_chunked_req: the next chunk of the request rank k is prefilling.    *)
AddChunkedReq(a, k) ==
  LET r     == chunked_reqs[k]
      limit == Min({a.rem_chunk[k], rem_total_tokens(a, k)})
      rem   == IF limit <= 0 THEN a.rem_chunk[k] ELSE limit
      todo  == SeqLen(r) - req[r].prefix
  IN  IF r = None \/ pending[k] # None THEN a
      ELSE IF todo > rem THEN Admit(a, k, r, rem, 0)
      ELSE [Admit(a, k, r, todo, MaxNewTokens[r]) EXCEPT !.chunked[k] = None]

(* One step of the loop of get_new_batch_prefill over the waiting queue:   *)
(* the skips, then add_one_req.                                            *)
AddOneReq(a, r) ==
  LET k    == DpRank[r]
      todo == SeqLen(r)
      exhausted == [a EXCEPT !.exhausted = @ \cup {k}]
      full      == [a EXCEPT !.batch_is_full[k] = TRUE]
  IN  CASE \/ a.stop \/ k \in a.exhausted \/ a.batch_is_full[k]
           \/ Len(running_batch.reqs[k]) + Len(a.can_run[k]) >= MaxRunning
           \/ a.chunked[k] # None -> a
        [] OTHER ->
           CASE a.rem_chunk[k] <= 0 ->
                  [exhausted EXCEPT !.stop = @ \/ exhausted.exhausted = Ranks]
             [] a.rem_chunk[k] > 0 /\ todo + MaxNewTokens[r] >= rem_total_tokens(a, k) ->
                  [full EXCEPT !.stop = @ \/ \A j \in Ranks : full.batch_is_full[j]]
             [] OTHER ->
                  IF todo <= a.rem_chunk[k] THEN Admit(a, k, r, todo, MaxNewTokens[r])
                  ELSE [Admit(a, k, r, a.rem_chunk[k], 0) EXCEPT !.chunked[k] = r]

(* Every chunked request, then the waiting queue in order.                 *)
Adder(all) ==
  LET none == [can_run |-> NoReqs, extend |-> [r \in Reqs |-> 0],
               offset |-> [k \in Ranks |-> Reserved(k, all)],
               rem_chunk |-> [k \in Ranks |-> ChunkSize],
               chunked |-> chunked_reqs,
               batch_is_full |-> running_batch.batch_is_full,
               exhausted |-> {}, stop |-> FALSE]
      chunks == FoldLeft(AddChunkedReq, none, [i \in 1..DpSize |-> i - 1])
  IN  FoldLeft(AddOneReq, chunks, waiting_queue)

(* get_new_batch_prefill when it has nothing to admit, or nothing fits.    *)
NoPrefill ==
  /\ pc = "prefill"
  /\ IF /\ chunked_reqs = NoOwner
        /\ \/ \A k \in Ranks : running_batch.batch_is_full[k]
           \/ waiting_queue = <<>>
     THEN UNCHANGED running_batch
     ELSE \E all \in BOOLEAN :
            /\ is_empty(Adder(all).can_run)
            /\ running_batch' = [running_batch EXCEPT
                                   !.batch_is_full = Adder(all).batch_is_full]
  /\ pc' = "decode"
  /\ UNCHANGED <<req, available, waiting_queue, batch, last_batch, result_queue,
                 chunked_reqs, pending, paused, pausing, pauses, enable_overlap>>

(* get_new_batch_prefill, prepare_for_extend and run_batch.  A request the *)
(* queue gave up starts from nothing; is_chunked counts the chunks whose   *)
(* results are outstanding.                                                *)
RunPrefill(a) ==
  LET admitted == Members(a.can_run)
      start(r) == IF r \in ToSet(waiting_queue) THEN 0 ELSE req[r].prefix
      need(k)  == MapThenSumSet(LAMBDA r : a.extend[r], ToSet(a.can_run[k]))
      after(r) == [req[r] EXCEPT
                     !.is_retracted = @ /\ r \notin admitted,
                     !.prefix = IF r \in admitted THEN start(r) ELSE @,
                     !.kv = IF r \in admitted THEN start(r) + a.extend[r] ELSE @,
                     !.is_chunked = IF a.chunked[DpRank[r]] = r THEN @ + 1 ELSE @]
      new == [forward_mode |-> "extend", reqs |-> a.can_run, chunked_req |-> a.chunked,
              is_prefill_only |-> \A r \in admitted : MaxNewTokens[r] = 0]
  IN  IF \E k \in Ranks :
           \/ need(k) > available[k]
           \/ Cardinality({r \in ToSet(a.can_run[k]) : req[r].kv > 0}) > 1
      THEN Crash
      ELSE /\ req' = [r \in Reqs |-> after(r)]
           /\ available' = [k \in Ranks |-> available[k] - need(k)]
           /\ waiting_queue' = SelectSeq(waiting_queue, LAMBDA r : r \notin admitted)
           /\ chunked_reqs' = a.chunked
           /\ running_batch' = [running_batch EXCEPT !.batch_is_full = a.batch_is_full]
           /\ batch' = new /\ result_queue' = Append(result_queue, new)
           /\ pc' = "process"
           /\ UNCHANGED <<last_batch, pending, paused,
                          pausing, pauses, enable_overlap>>

GetNewBatchPrefill ==
  /\ pc = "prefill"
  /\ \/ chunked_reqs # NoOwner
     \/ waiting_queue # <<>> /\ \E k \in Ranks : ~running_batch.batch_is_full[k]
  /\ \E all \in BOOLEAN : LET a == Adder(all) IN ~is_empty(a.can_run) /\ RunPrefill(a)

(* retract_decode on one rank: the requests with the most outputs, then    *)
(* the shortest prompts, are kept first; the tail is released one by one   *)
(* until every request left can decode.                                    *)
SortedReqs(s) ==
  LET before(i, j) ==
        \/ req[s[i]].out > req[s[j]].out
        \/ /\ req[s[i]].out = req[s[j]].out
           /\ \/ InputLen(s[i]) < InputLen(s[j])
              \/ InputLen(s[i]) = InputLen(s[j]) /\ i < j
      order == SetToSortSeq(DOMAIN s, before)
  IN  [i \in DOMAIN s |-> s[order[i]]]

KeepsOneTooMany(s, k) ==
  LET sorted == SortedReqs(s)
      tailKV(n) == MapThenSumSet(LAMBDA i : req[sorted[i]].kv, (n + 1)..Len(s))
      n == Max({m \in 0..Len(s) : m <= available[k] + tailKV(m) + 1})
  IN  IF n = Len(s) THEN s ELSE SubSeq(sorted, 1, n)

KeptReqs(s, k) ==
  LET sorted == SortedReqs(s)
      tailKV(n) == MapThenSumSet(LAMBDA i : req[sorted[i]].kv, (n + 1)..Len(s))
      n == Max({m \in 0..Len(s) : m <= available[k] + tailKV(m)})
  IN  IF n = Len(s) THEN s ELSE SubSeq(sorted, 1, n)

(* The requests released, in the order they are.                           *)
ReleasedReqs(s, k) ==
  Reverse(SubSeq(SortedReqs(s), Len(KeptReqs(s, k)) + 1, Len(s)))

NeverReopens(k, alive, kept) == running_batch.batch_is_full[k]

(* A full rank is opened again when the batch shrank and the rank has room *)
(* for a request, or when nothing runs any more.                           *)
StillFull(k, alive, kept) ==
  /\ running_batch.batch_is_full[k] /\ ~is_empty(alive)
  /\ \/ Members(kept) = Members(running_batch.reqs)
     \/ Len(kept[k]) >= MaxRunning

(* update_running_batch: drop the finished requests, retract if the next   *)
(* token of all others does not fit (the last one of a rank is aborted),   *)
(* then prepare_for_decode and run_batch.                                  *)
UpdateRunningBatch ==
  LET alive    == filter_batch(running_batch.reqs, NoOwner)
      kept     == [k \in Ranks |-> KeptReqs(alive[k], k)]
      released == [k \in Ranks |-> ReleasedReqs(alive[k], k)]
      aborted  == {Last(released[k]) : k \in {j \in Ranks : kept[j] = <<>>
                                                         /\ alive[j] # <<>>}}
      retracted == SelectSeq(Flat(released), LAMBDA r : r \notin aborted)
      free     == FreedBy(Members(released))
      full     == [k \in Ranks |-> StillFull(k, alive, kept)]
      after(r) ==
        CASE r \in aborted ->
               SendAbort([reset_for_retract(req[r]) EXCEPT !.to_finish = TRUE])
          [] r \in ToSet(retracted) -> reset_for_retract(req[r])
          [] r \in Members(kept) -> [req[r] EXCEPT !.kv = @ + 1]
          [] OTHER -> req[r]
      new == [forward_mode |-> "decode", reqs |-> kept, chunked_req |-> NoOwner,
              is_prefill_only |-> FALSE]
  IN  /\ pc = "decode"
      /\ ~is_empty(running_batch.reqs) /\ ~running_batch.is_prefill_only
      /\ IF \E k \in Ranks : Len(kept[k]) > free[k] THEN Crash
         ELSE /\ req' = [r \in Reqs |-> after(r)]
              /\ available' = [k \in Ranks |-> free[k] - Len(kept[k])]
              /\ waiting_queue' = waiting_queue \o retracted
              /\ running_batch' = [running_batch EXCEPT !.reqs = kept,
                                                        !.batch_is_full = full]
              /\ IF is_empty(kept)
                 THEN batch' = NoBatch /\ UNCHANGED result_queue
                 ELSE batch' = new /\ result_queue' = Append(result_queue, new)
              /\ pc' = "process"
              /\ UNCHANGED <<last_batch, chunked_reqs, pending, paused,
                             pausing, pauses, enable_overlap>>

NothingToRun ==
  /\ pc = "decode"
  /\ is_empty(running_batch.reqs) \/ running_batch.is_prefill_only
  /\ batch' = NoBatch
  /\ pc' = "process"
  /\ UNCHANGED <<req, available, waiting_queue, running_batch, last_batch,
                 result_queue, chunked_reqs, pending, paused,
                 pausing, pauses, enable_overlap>>

(* The batch whose result this iteration applies: the one just launched,   *)
(* or, in the overlap loop, the one before it.                             *)
Due == IF enable_overlap THEN last_batch ELSE batch

ProcessBatchResult ==
  /\ pc = "process" /\ Due # NoBatch
  /\ IF ~ResultAsserts THEN Crash
     ELSE /\ \E stops \in SUBSET Sampling : process_batch_result(stops)
          /\ last_batch' = batch
          /\ pc' = "recv"
          /\ UNCHANGED <<waiting_queue, running_batch, batch, paused,
                         pausing, pauses, enable_overlap>>

(* The first batch of the overlap pipeline, or on_idle: with no request    *)
(* anywhere check_memory raises unless every token is free.                *)
NoResultDue ==
  /\ pc = "process" /\ Due = NoBatch
  /\ IF /\ batch = NoBatch /\ can_flush_cache(NoBatch)
        /\ \E k \in Ranks : available[k] # Capacity
     THEN Crash
     ELSE /\ last_batch' = batch
          /\ pc' = "recv"
          /\ UNCHANGED <<req, available, waiting_queue, running_batch, batch,
                         result_queue, chunked_reqs, pending, paused,
                         pausing, pauses, enable_overlap>>

------------------------------------------------------------------------------
Kept(A) == A /\ UNCHANGED deployment

Messages ==
  \/ \E r \in Reqs : Generate(r)
  \/ \E S \in AbortTargets : AbortRequest(S)
  \/ \E mode \in PauseModes : PauseGeneration(mode)
  \/ ContinueGeneration
  \/ FlushCache

Loop ==
  \/ DrainForPause
  \/ FinishPause
  \/ MergeLastBatch
  \/ NoPrefill
  \/ GetNewBatchPrefill
  \/ UpdateRunningBatch
  \/ NothingToRun
  \/ ProcessBatchResult
  \/ NoResultDue

Next == Kept(Messages) \/ Kept(Loop)

Spec == Init /\ [][Next]_vars

(* The event loop never stops by itself, and a paused engine is eventually *)
(* told to continue.  Nothing is assumed of the other messages.            *)
FairSpec == Spec /\ WF_vars(Kept(Loop)) /\ WF_vars(Kept(ContinueGeneration))

------------------------------------------------------------------------------
Count(s, r) == Cardinality({i \in DOMAIN s : s[i] = r})

Unanswered(r) == req[r].arrived /\ req[r].sent = 0

(* The event loop never ends: no assertion of the scheduler fails, no      *)
(* allocation runs out of tokens, and check_memory finds no leak when idle. *)
NeverCrashes == pc # "crashed"

(* Between two iterations every request without an answer is in exactly    *)
(* one place the scheduler looks at: once in the waiting queue, or once in *)
(* the running batch or the last prefill batch, or parked mid-prefill.     *)
OneHome ==
  pc = "recv" =>
    \A r \in Reqs :
      LET k == DpRank[r]
          unmerged == IF Extending(last_batch) THEN last_batch.reqs[k] ELSE <<>>
          parked == chunked_reqs[k] = r
      IN  Unanswered(r) =>
            Count(waiting_queue, r) + Count(running_batch.reqs[k], r)
              + (IF parked THEN 1 ELSE Count(unmerged, r)) = 1

(* A running request never has to be aborted for lack of memory: alone on  *)
(* its rank it always fits, so retract_decode frees enough by retracting.  *)
LastRequestFits ==
  pc = "decode" =>
    \A k \in Ranks :
      LET alive == filter_batch(running_batch.reqs, NoOwner)[k]
      IN  alive # <<>> => KeptReqs(alive, k) # <<>>

(* A client gets one terminal answer, whichever of abort_request, the      *)
(* chunked abort, retraction and stream_output sends it, and from then on  *)
(* the request holds no KV and is never scheduled again.                   *)
AnsweredOnce ==
  \A r \in Reqs :
    req[r].sent > 0 =>
      /\ req[r].sent = 1 /\ req[r].kv = 0
      /\ Count(waiting_queue, r) = 0 /\ chunked_reqs[DpRank[r]] # r

(* The pool of a rank and the requests account for every token, and a      *)
(* queued request holds none.                                              *)
TokensAccounted ==
  /\ \A k \in Ranks :
       available[k] + MapThenSumSet(LAMBDA r : req[r].kv,
                                    {r \in Reqs : DpRank[r] = k}) = Capacity
  /\ \A r \in ToSet(waiting_queue) : req[r].kv = 0

(* is_chunked counts exactly the chunks of a request that are launched and *)
(* whose results are not applied: process_batch_result_prefill relies on   *)
(* it to tell a middle chunk, which samples nothing, from the last one.    *)
ChunksInFlight ==
  \A r \in Reqs :
    Unanswered(r) =>
      req[r].is_chunked =
        Cardinality({i \in DOMAIN result_queue :
                       /\ r \in Members(result_queue[i].reqs)
                       /\ result_queue[i].chunked_req[DpRank[r]] = r})

(* A request past its prefill has KV for all its tokens but the last, and  *)
(* one more for each launched step whose token is still to come.           *)
KVTracksTokens ==
  \A r \in Reqs :
    req[r].kv > 0 /\ chunked_reqs[DpRank[r]] # r =>
      req[r].kv = SeqLen(r) - 1
        + Cardinality({i \in DOMAIN result_queue :
                         /\ r \in Members(result_queue[i].reqs)
                         /\ result_queue[i].chunked_req[DpRank[r]] # r})

(* A step appends a token only to a request that holds KV and has not been *)
(* answered: the late result of a retracted, aborted or finished request   *)
(* is dropped.                                                             *)
LateResultsAreDropped ==
  [][\A r \in Reqs : req'[r].out > req[r].out => req[r].kv > 0 /\ Unanswered(r)]_vars

(* Every request a client sends is eventually answered.                    *)
EveryRequestAnswered ==
  \A r \in Reqs : req[r].arrived ~> req[r].sent = 1

(* While the engine is paused every request without an answer stays in a   *)
(* container the event loop goes on with after continue_generation.        *)
PausedRequestsStay ==
  paused /\ pc = "recv" =>
    \A r \in Reqs : Unanswered(r) =>
      \/ r \in ToSet(waiting_queue) \cup Members(running_batch.reqs)
      \/ r \in Members(last_batch.reqs) \/ chunked_reqs[DpRank[r]] = r

(* A request that pause_generation(retract) sends back to the waiting      *)
(* queue is recomputed once the engine goes on.                            *)
RetractedIsRecomputed ==
  \A r \in Reqs :
    req[r].is_retracted /\ Unanswered(r) ~> ~req[r].is_retracted \/ req[r].sent = 1

(* A rank marked full while tokens are taken is opened again once they are *)
(* all back: batch_is_full stands for exhausted token capacity.            *)
FullOnlyWhileExhausted ==
  \A k \in UNION {0..(d.dp_size - 1) : d \in Deployments} :
    k \in Ranks /\ running_batch.batch_is_full[k] /\ available[k] = Capacity
      ~> ~running_batch.batch_is_full[k]

(* When the result of a chunk reaches an aborted request, no other chunk   *)
(* of it is outstanding, as _finalize_chunked_abort asserts.               *)
ChunkedAbortIsLast ==
  pc \in {"process", "drain"} /\ Due # NoBatch => ResultAsserts
==============================================================================
