------------------------------ MODULE PDPrefill ------------------------------
(***************************************************************************)
(* The prefill server P of a disaggregated deployment, with chunked        *)
(* prefill transfer and the overlap loop.  A prompt is computed one chunk  *)
(* at a time.  While the forward of one chunk runs, the next is scheduled, *)
(* and when the result of a forward is applied its chunk is handed to the  *)
(* sender.  P answers its client and frees the pages when the transfer is  *)
(* over.                                                                   *)
(*                                                                         *)
(* An iteration of event_loop_overlap_disagg_prefill runs                  *)
(*   recv -> send (poll the senders) -> launch -> resolve.                 *)
(* A batch holds the next chunk of one request and a chunk fills a page.   *)
(* There is one data-parallel rank, and its prefix cache is the ChunkCache,*)
(* which shares nothing.                                                   *)
(***************************************************************************)
EXTENDS PDTransfers

CONSTANT PPages   \* pages of P's KV pool

ASSUME PrefillAssumption == PPages \in SUBSET Nat /\ IsFiniteSet(PPages)

VARIABLES
  ppc,          \* where P's loop stands
  psweep,       \* queued senders this iteration has still to poll
  preq,         \* the Req objects of P
  waiting_queue,
  chunked,      \* chunked_reqs of the rank
  pending_abort,\* _pending_chunked_abort_reqs of the rank
  owner,        \* chunked_req of the last launched batch
  cur_batch,    \* the request of the last launched batch
  results,      \* launched forwards whose results are not applied yet
  pkv           \* what P's pages hold: a request's chunk

pvars == <<ppc, psweep, preq, waiting_queue, chunked, pending_abort, owner, cur_batch,
           results, pkv>>

NewPReq == [arrived |-> FALSE, pages |-> <<>>, chunk_index |-> 0, is_chunked |-> 0,
            sender |-> FALSE, queued |-> FALSE, to_finish |-> FALSE,
            finished |-> FALSE, deferred |-> FALSE, answer |-> <<>>]

PFree(reqs) == PPages \ UNION {Range(reqs[r].pages) : r \in Reqs}

(* _disagg_prefill_compute: forwards of r that have not been resolved.     *)
InFlight(r) == {i \in DOMAIN results : results[i].req = r}

(* Everything P sends to a client: the kinds of its answers.               *)
Answer(q, kind) == [q EXCEPT !.answer = Append(@, kind)]

(* _stream_prefill_req after finished_reason is set.                       *)
Finish(q, kind) == Answer([q EXCEPT !.finished = TRUE, !.to_finish = FALSE], kind)

(* _release_prefill_req_resources: pages a forward may still write are     *)
(* kept until it has been resolved.                                        *)
Release(q, busy) == IF busy THEN [q EXCEPT !.deferred = TRUE]
                    ELSE [q EXCEPT !.pages = <<>>, !.deferred = FALSE]

(* _retire_chunk_producer_ownership: r is continued no more, also not by   *)
(* the batch that still names it.                                          *)
Retired(r, o) == IF o = r THEN None ELSE o

(* Mutation: the pending abort of a retired request is kept.               *)
RetireKeepsAbort(r) ==
  /\ chunked' = Retired(r, chunked) /\ owner' = Retired(r, owner)
  /\ UNCHANGED pending_abort

Retire(r) ==
  /\ chunked' = Retired(r, chunked)
  /\ pending_abort' = Retired(r, pending_abort)
  /\ owner' = Retired(r, owner)

PInit ==
  /\ ppc = "recv" /\ psweep = {} /\ preq = [r \in Reqs |-> NewPReq]
  /\ waiting_queue = <<>>
  /\ chunked = None /\ pending_abort = None /\ owner = None /\ cur_batch = None
  /\ results = <<>> /\ pkv = [p \in PPages |-> None]

------------------------------------------------------------------------------
(* recv: messages from the tokenizer.                                      *)

PArrive(r) ==
  /\ ppc = "recv" /\ ~preq[r].arrived
  /\ preq' = [preq EXCEPT ![r].arrived = TRUE]
  /\ waiting_queue' = Append(waiting_queue, r)
  /\ UNCHANGED <<xfer, faults, ppc, psweep, chunked, pending_abort,
                 owner, cur_batch, results, pkv>>

(* abort_request on P.  _sync_chunked_req_owners first takes the chunked   *)
(* request of the last batch back if the scheduler has none.  A queued     *)
(* request is dropped and answered; a computing one or one in transfer is  *)
(* marked, and its sender told to abort.  An abort may come again, also    *)
(* for a request that was answered.                                        *)
PAbort(r) ==
  LET held == IF chunked = None THEN owner ELSE chunked
      q    == preq[r]
      mark == \/ held = r \/ q.queued
              \/ (cur_batch = r /\ ~q.finished)
      gone == r \in Range(waiting_queue)
  IN  /\ ppc = "recv" /\ r \in Abortable /\ q.arrived
      /\ chunked' = held
      /\ pending_abort' = IF held = r THEN r ELSE pending_abort
      /\ waiting_queue' = SelectSeq(waiting_queue, LAMBDA s : s # r)
      /\ preq' = [preq EXCEPT ![r] =
                    IF gone THEN Answer(q, "abort") ELSE [q EXCEPT !.to_finish = @ \/ mark]]
      /\ xfer' = IF q.queued THEN [xfer EXCEPT ![r] = SenderAbort(@)] ELSE xfer
      /\ UNCHANGED <<faults, ppc, psweep, owner, cur_batch, results, pkv>>

(* The sweep over the queued senders begins, if there are any.             *)
PRecv ==
  /\ ppc = "recv"
  /\ psweep' = {r \in Reqs : preq[r].queued}
  /\ ppc' = IF psweep' = {} THEN "launch" ELSE "send"
  /\ UNCHANGED <<xfer, faults, preq, waiting_queue, chunked,
                 pending_abort, owner, cur_batch, results, pkv>>

------------------------------------------------------------------------------
(* send: send_kv_chunk polls every queued sender; their order is of no     *)
(* consequence.                                                            *)

(* _on_prefill_transfer_terminal answers and releases the request.         *)
Outcome(q, st) == IF q.to_finish THEN "abort"
                  ELSE IF st = "SUCCESS" THEN "done" ELSE "error"

OnTerminal(q, st) ==
  [Release(Finish(q, Outcome(q, st)), FALSE) EXCEPT !.sender = FALSE, !.queued = FALSE]

PSend(r) ==
  /\ ppc = "send" /\ r = CHOOSE s \in psweep : TRUE
  /\ psweep' = psweep \ {r} /\ ppc' = IF psweep' = {} THEN "launch" ELSE "send"
  /\ \E o \in SenderPoll(xfer[r]) :
       /\ faults + o.faults <= MaxFaults /\ faults' = faults + o.faults
       /\ xfer' = [xfer EXCEPT ![r] = o.x]
       /\ IF o.x.snd.st \in Terminal /\ InFlight(r) = {}
          THEN preq' = [preq EXCEPT ![r] = OnTerminal(@, o.x.snd.st)] /\ Retire(r)
          ELSE UNCHANGED <<preq, chunked, pending_abort, owner>>
  /\ UNCHANGED <<waiting_queue, cur_batch, results, pkv>>

------------------------------------------------------------------------------
(* launch: get_next_batch_to_run and run_batch.  last_batch is None here,  *)
(* so nothing is merged: the running batch stays the empty one P began     *)
(* with.  That one counts as prefill-only, so its batch_is_full, which a   *)
(* request that does not fit sets, is cleared again in every call.         *)

(* _prefill_chunk_transfer_backpressured.                                  *)
Backpressured == /\ chunked # None /\ preq[chunked].sender
                 /\ xfer[chunked].snd.pending # <<>>

(* _process_pending_chunked_aborts: the abort of a chunked request whose   *)
(* forwards are resolved.  With a sender the transfer finishes it.         *)
Consumes == pending_abort # None /\ preq[pending_abort].is_chunked = 0

ConsumedReq(q) == IF q.sender THEN q
                  ELSE Answer([Release(q, FALSE) EXCEPT !.finished = TRUE,
                                                        !.to_finish = FALSE], "abort")

(* The forward of the next chunk of r is launched on a fresh page.  A      *)
(* chunk that is not the last leaves r to be continued.                    *)
Launch(reqs, r) ==
  LET c        == Len(reqs[r].pages)
      is_final == c + 1 = NumChunks[r]
      p        == Min(PFree(reqs))
  IN  /\ preq' = [reqs EXCEPT ![r].pages = Append(@, p),
                              ![r].is_chunked = @ + IF is_final THEN 0 ELSE 1]
      /\ chunked' = IF is_final THEN None ELSE r
      /\ owner' = chunked'
      /\ cur_batch' = r
      /\ results' = Append(results, [req |-> r, chunk |-> c, is_final |-> is_final,
                                     page |-> p, ran |-> FALSE])

NoLaunch(reqs, held) ==
  /\ preq' = reqs /\ chunked' = held /\ owner' = None /\ cur_batch' = None
  /\ UNCHANGED <<results, waiting_queue>>

PLaunch ==
  LET reqs  == IF Consumes THEN [preq EXCEPT ![pending_abort] = ConsumedReq(@)] ELSE preq
      held  == IF Consumes THEN None ELSE chunked
      next  == Head(waiting_queue)
      fits  == Cardinality(PFree(reqs)) >= NumChunks[next]
  IN  /\ ppc = "launch"
      /\ UNCHANGED <<xfer, faults, psweep, pkv>>
      /\ IF Backpressured
         THEN NoLaunch(preq, chunked) /\ UNCHANGED pending_abort
         ELSE /\ pending_abort' = IF Consumes THEN None ELSE pending_abort
              /\ IF held # None /\ pending_abort' = None
                 THEN Launch(reqs, held) /\ UNCHANGED waiting_queue
                 ELSE IF held # None \/ waiting_queue = <<>> \/ ~fits
                 THEN NoLaunch(reqs, held)
                 ELSE Launch(reqs, next) /\ waiting_queue' = Tail(waiting_queue)
      /\ ppc' = IF results' = <<>> \/ (Len(results') = 1 /\ cur_batch' # None)
                THEN "recv" ELSE "resolve"

------------------------------------------------------------------------------
(* resolve: the result of the older of two forwards is applied, or of the  *)
(* only one when this iteration launched nothing.                          *)

(* The chunk of h is in flight no more.                                    *)
Unchunk(q, h) == IF ~h.is_final /\ q.is_chunked > 0
                 THEN [q EXCEPT !.is_chunked = @ - 1] ELSE q

(* process_prefill_chunk and _raiden_handoff_chunk for the handoff h: the  *)
(* request, its transfer, and whether it is retired.                       *)
Abandon(q, x) ==
  IF q.sender THEN {[q |-> [q EXCEPT !.queued = TRUE], x |-> SenderAbort(x),
                     retire |-> TRUE, faults |-> 0]}
  ELSE {[q |-> IF q.finished THEN q ELSE Release(Finish(q, "abort"), TRUE),
         x |-> x, retire |-> TRUE, faults |-> 0]}

Handoff(q, x, h) ==
  LET y == IF q.sender THEN x ELSE [x EXCEPT !.snd = NewSender]
      s == [q EXCEPT !.sender = TRUE]
      after(o) ==
        IF o.ok THEN [s EXCEPT !.chunk_index = @ + 1, !.queued = TRUE]
        ELSE IF o.x.snd.started # {} THEN [s EXCEPT !.queued = TRUE]
        ELSE Release(Finish([q EXCEPT !.sender = FALSE], "error"), TRUE)
  IN  IF q.sender /\ x.snd.fail
      THEN {[q |-> q, x |-> x, retire |-> TRUE, faults |-> 0]}
      ELSE {[q |-> after(o), x |-> o.x, retire |-> ~o.ok, faults |-> o.faults] :
              o \in SendChunk(y, q.chunk_index, h.page, h.is_final)}

ProcessChunk(q, x, h) ==
  IF q.finished \/ q.to_finish THEN Abandon(q, x) ELSE Handoff(q, x, h)

(* Deferred pages are released with the last forward of the request.       *)
PResolve ==
  LET h == Head(results)
      r == h.req
      busy == InFlight(r) # {1}
  IN  /\ ppc = "resolve" /\ h.ran /\ ppc' = "recv"
      /\ results' = Tail(results)
      /\ \E o \in ProcessChunk(Unchunk(preq[r], h), xfer[r], h) :
           /\ faults + o.faults <= MaxFaults /\ faults' = faults + o.faults
           /\ xfer' = [xfer EXCEPT ![r] = o.x]
           /\ preq' = [preq EXCEPT ![r] =
                         IF o.q.deferred THEN Release(o.q, busy) ELSE o.q]
           /\ IF o.retire THEN Retire(r) ELSE UNCHANGED <<chunked, pending_abort, owner>>
      /\ UNCHANGED <<psweep, waiting_queue, cur_batch, pkv>>

(* The device runs the forwards in the order of their launch.              *)
PForward ==
  \E i \in DOMAIN results :
    /\ ~results[i].ran /\ \A j \in 1..(i - 1) : results[j].ran
    /\ results' = [results EXCEPT ![i].ran = TRUE]
    /\ pkv' = [pkv EXCEPT ![results[i].page] = <<results[i].req, results[i].chunk>>]
    /\ UNCHANGED <<xfer, faults, ppc, psweep, preq, waiting_queue,
                   chunked, pending_abort, owner, cur_batch>>
==============================================================================
