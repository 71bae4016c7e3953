------------------------------ MODULE PDDecode ------------------------------
(***************************************************************************)
(* The decode server D of a disaggregated deployment, with the overlap     *)
(* loop.  A request waits for a prefill server to be registered, for pages *)
(* and for transfer metadata; then its receiver pulls the KV cache into    *)
(* pages of D; then D extends it by its last prompt token and decodes it.  *)
(*                                                                         *)
(* An iteration of event_loop_overlap_disagg_decode runs                   *)
(*   recv -> admit -> drain -> launch -> result,                           *)
(* where admit and drain treat one queue entry per step.  The result of a  *)
(* forward is applied after the next forward was launched.                 *)
(*                                                                         *)
(* There is one data-parallel rank, its prefix cache is the ChunkCache,    *)
(* and the tokens all requests generate are fewer than a page holds: a     *)
(* request decodes into its last page.                                     *)
(***************************************************************************)
EXTENDS PDTransfers, SequencesExt

CONSTANTS
  LoneTail,      \* requests whose last prompt token has a page of its own
  DPages,        \* pages of D's KV pool
  Reserved,      \* disaggregation_num_reserved_decode_tokens, in pages
  MaxInflight,   \* disaggregation_max_inflight_transfers
  MaxNewTokens,  \* tokens a request generates at most
  MaxAnswers     \* bound on the answers to repeated aborts of one request

ASSUME DecodeAssumption ==
  /\ LoneTail \subseteq Reqs /\ DPages \in SUBSET Nat /\ IsFiniteSet(DPages)
  /\ Reserved \in Nat /\ MaxInflight \in Nat \ {0} /\ MaxNewTokens \in Nat \ {0}
  /\ MaxAnswers \in Nat \ {0}

VARIABLES
  listed,        \* is a prefill server registered with the bootstrap server
  dpc,           \* where D's loop stands
  todo,          \* queue entries the current sweep has still to treat
  dreq,          \* the Req objects of D with their bookkeeping
  boot,          \* _pd_pending_bootstrap
  prealloc,      \* DecodePreallocQueue
  transfer,      \* DecodeTransferQueue
  dwaiting,      \* waiting_queue
  extended,      \* requests of last_batch when that is an extend batch
  running,       \* requests of running_batch
  full,          \* batch_is_full of the running batch
  prefill_only,  \* is_prefill_only of the running batch
  dfree,         \* free pages of D
  dresults,      \* launched forwards whose results are not applied yet
  dkv            \* what D's pages hold: a request's chunk

dvars == <<listed, dpc, todo, dreq, boot, prealloc, transfer, dwaiting, extended,
           running, full, prefill_only, dfree, dresults, dkv>>

(* fresh: received in this iteration; skip: _pd_skip_prefix_match; old: the *)
(* metadata is overdue.                                                    *)
NewDReq == [arrived |-> FALSE, fresh |-> FALSE, pages |-> <<>>, skip |-> FALSE, cancelled |-> FALSE,
            old |-> FALSE, to_finish |-> FALSE, out |-> 0, answer |-> <<>>]

AnswerD(q, kind) == [q EXCEPT !.answer = Append(@, kind)]

(* The pages of q go back to the pool, and q is answered.                  *)
Leave(q, kind) == [AnswerD(q, kind) EXCEPT !.pages = <<>>]

Finished(r) == dreq[r].answer # <<>>

(* Mutation: the entry stays queued.                                       *)
WithoutNone(s, r) == s

Without(s, r) == SelectSeq(s, LAMBDA e : e # r)

(* A sweep begins at the next queue that is not empty.                     *)
Sweep(pc) ==
  LET skip == pc = "admit" /\ prealloc' = <<>>
      at   == IF skip THEN "drain" ELSE pc
      q    == IF at = "admit" THEN prealloc' ELSE transfer'
  IN  /\ dpc' = IF at = "drain" /\ q = <<>> THEN "launch" ELSE at
      /\ todo' = q

DInit ==
  /\ listed = FALSE /\ dpc = "recv" /\ todo = <<>>
  /\ dreq = [r \in Reqs |-> NewDReq]
  /\ boot = <<>> /\ prealloc = <<>> /\ transfer = <<>> /\ dwaiting = <<>>
  /\ extended = {} /\ running = {} /\ full = FALSE /\ prefill_only = TRUE
  /\ dfree = DPages /\ dresults = <<>> /\ dkv = [p \in DPages |-> None]

------------------------------------------------------------------------------
(* recv: messages from the tokenizer.                                      *)

DArrive(r) ==
  /\ dpc = "recv" /\ ~dreq[r].arrived
  /\ dreq' = [dreq EXCEPT ![r].arrived = TRUE, ![r].fresh = TRUE]
  /\ dwaiting' = Append(dwaiting, r)
  /\ UNCHANGED <<xfer, faults, listed, dpc, todo, boot, prealloc, transfer, extended,
                 running, full, prefill_only, dfree, dresults, dkv>>

(* abort_request on D, which may come again for the same request.  A       *)
(* transfer is cancelled and answered now, and its pages stay with it      *)
(* until the receiver is terminal; cancel_matching does not ask whether it *)
(* is cancelled already, so each further abort is answered as well.  What  *)
(* is in the waiting queue is dropped as if it had not started anything:   *)
(* nothing releases the pages of a transferred request.                    *)
DAbort(r) ==
  LET early  == r \in Range(boot) \cup Range(prealloc)
      moving == r \in Range(transfer)
      queued == r \in Range(dwaiting)
      batched == r \in extended \cup running /\ ~Finished(r)
  IN  /\ dpc = "recv" /\ r \in Abortable /\ dreq[r].arrived
      /\ Len(dreq[r].answer) < MaxAnswers
      /\ dreq' = [dreq EXCEPT ![r] =
           CASE early \/ queued -> AnswerD([@ EXCEPT !.pages = <<>>], "abort")
             [] moving  -> AnswerD([@ EXCEPT !.cancelled = TRUE], "abort")
             [] batched -> [@ EXCEPT !.to_finish = TRUE]
             [] OTHER   -> @]
      /\ xfer' = [xfer EXCEPT ![r] =
           CASE early  -> cleanup_transfer(@)
             [] moving -> ReceiverAbort(@)
             [] OTHER  -> @]
      /\ boot' = Without(boot, r) /\ prealloc' = Without(prealloc, r)
      /\ dwaiting' = Without(dwaiting, r)
      /\ UNCHANGED <<faults, listed, dpc, todo, transfer, extended, running, full, prefill_only,
                     dfree, dresults, dkv>>

(* process_input_requests_disagg_decode: new requests leave the waiting    *)
(* queue again, and go behind the deferred ones to the preallocation queue *)
(* once a prefill server is known.  The lookup of that server may raise,   *)
(* or the server found may not fit: the request is aborted then.           *)
DRecv ==
  LET pd_reqs == boot \o SelectSeq(dwaiting, LAMBDA r : dreq[r].fresh)
  IN  /\ dpc = "recv"
      /\ \E failed \in SUBSET Range(pd_reqs) :
           LET kept == SelectSeq(pd_reqs, LAMBDA r : r \notin failed)
           IN  /\ faults + Cardinality(failed) <= MaxFaults
               /\ faults' = faults + Cardinality(failed)
               /\ xfer' = [r \in Reqs |->
                             IF r \in failed THEN cleanup_transfer(xfer[r]) ELSE xfer[r]]
               /\ dreq' = [r \in Reqs |->
                             LET q == [dreq[r] EXCEPT !.fresh = FALSE]
                             IN  IF r \in failed THEN Leave(q, "abort") ELSE q]
               /\ prealloc' = IF listed THEN prealloc \o kept ELSE prealloc
               /\ boot' = IF listed THEN <<>> ELSE kept
      /\ dwaiting' = SelectSeq(dwaiting, LAMBDA r : ~dreq[r].fresh)
      /\ UNCHANGED transfer
      /\ Sweep("admit")
      /\ UNCHANGED <<listed, extended, running, full, prefill_only, dfree, dresults, dkv>>

(* pull_timeout_seconds have passed since r was queued.                    *)
DAge(r) ==
  /\ r \in Impatient /\ r \in Range(prealloc) /\ ~dreq[r].old
  /\ dreq' = [dreq EXCEPT ![r].old = TRUE]
  /\ UNCHANGED <<xfer, faults, listed, dpc, todo, boot, prealloc, transfer, dwaiting,
                 extended, running, full, prefill_only, dfree, dresults, dkv>>

(* A prefill server registers with the bootstrap server.                   *)
RegisterPrefill ==
  /\ ~listed /\ listed' = TRUE
  /\ UNCHANGED <<xfer, faults, dpc, todo, dreq, boot, prealloc, transfer, dwaiting,
                 extended, running, full, prefill_only, dfree, dresults, dkv>>

------------------------------------------------------------------------------
(* admit: _admit_decode_prealloc.                                          *)

(* Mutation: only the pages of the running batch are taken.                *)
AllocReceived(n) ==
  LET taken == UNION {Range(dreq[r].pages) : r \in running \cup extended}
      free  == DPages \ taken
  IN  SetToSortSeq({p \in free : Cardinality({s \in free : s < p}) < n}, <)

(* The n lowest free pages, in order.                                      *)
Alloc(n) == SetToSortSeq({p \in dfree : Cardinality({s \in dfree : s < p}) < n}, <)

(* Pages are held back for every request of the running batch and in       *)
(* transfer; the transfer window bounds the receives.                      *)
Admissible(r) ==
  /\ Len(transfer) < MaxInflight
  /\ NumChunks[r] + Reserved * (Cardinality(running) + Len(transfer)) <= Cardinality(dfree)

Candidate(r) == dpc = "admit" /\ r = Head(todo) /\ Admissible(r)

(* Mutation: only the forward whose result is due next is awaited.         *)
DeviceAlmostIdle == \A i \in DOMAIN dresults : i < Len(dresults) => dresults[i].ran

(* _wait_decode_admission_safe: every launched forward has run.            *)
DeviceIdle == \A i \in DOMAIN dresults : dresults[i].ran

(* The sweep goes on with the next entry, or with the receivers.           *)
Advance == IF Len(todo) > 1 THEN dpc' = dpc /\ todo' = Tail(todo) ELSE Sweep("drain")

(* The rest of the queue keeps its order behind an entry that must wait.   *)
DBlocked ==
  /\ dpc = "admit" /\ ~Admissible(Head(todo))
  /\ UNCHANGED transfer
  /\ Sweep("drain")
  /\ UNCHANGED <<xfer, faults, listed, dreq, boot, prealloc, dwaiting, extended,
                 running, full, prefill_only, dfree, dresults, dkv>>

(* Without metadata the entry stays, or expires when it is overdue.        *)
DAwait(r) ==
  LET polled == poll_decode_metadata(xfer[r])
      expire == dreq[r].old
  IN  /\ Candidate(r) /\ ~MetadataReady(xfer[r])
      /\ xfer' = [xfer EXCEPT ![r] = IF expire THEN cleanup_transfer(polled) ELSE polled]
      /\ dreq' = IF expire THEN [dreq EXCEPT ![r] = Leave(@, "abort")] ELSE dreq
      /\ prealloc' = IF expire THEN Without(prealloc, r) ELSE prealloc
      /\ UNCHANGED transfer
      /\ Advance
      /\ UNCHANGED <<faults, listed, boot, dwaiting, extended, running, full, prefill_only, dfree,
                     dresults, dkv>>

(* The receiver is built over newly allocated pages.                       *)
DAdmit(r) ==
  LET pages == Alloc(NumChunks[r])
  IN  /\ Candidate(r) /\ MetadataReady(xfer[r]) /\ DeviceIdle
      /\ xfer' = [xfer EXCEPT ![r] = try_start_decode(@, pages)]
      /\ dreq' = [dreq EXCEPT ![r].pages = pages]
      /\ dfree' = dfree \ Range(pages)
      /\ prealloc' = Without(prealloc, r) /\ transfer' = Append(transfer, r)
      /\ Advance
      /\ UNCHANGED <<faults, listed, boot, dwaiting, extended, running, full, prefill_only,
                     dresults, dkv>>

(* The receiver cannot be built: the pages go back at once.                *)
DAdmitFails(r) ==
  /\ Candidate(r) /\ MetadataReady(xfer[r]) /\ DeviceIdle
  /\ faults < MaxFaults /\ faults' = faults + 1
  /\ xfer' = [xfer EXCEPT ![r] = cleanup_transfer(@)]
  /\ dreq' = [dreq EXCEPT ![r] = Leave(@, "abort")]
  /\ prealloc' = Without(prealloc, r)
  /\ UNCHANGED transfer
  /\ Advance
  /\ UNCHANGED <<listed, boot, dwaiting, extended, running, full, prefill_only, dfree, dresults, dkv>>

------------------------------------------------------------------------------
(* drain: _drain_decode_transfer_terminals.                                *)

(* The page of a lone last prompt token is given back: D computes that     *)
(* token on a page of its own.                                             *)
Commit(r) == [dreq[r] EXCEPT !.skip = TRUE,
                             !.pages = IF r \in LoneTail THEN Front(@) ELSE @]

(* Mutation: a cancelled request is answered again.                        *)
DrainedAgain(r, committed) == IF committed THEN Commit(r) ELSE Leave(dreq[r], "abort")

(* Mutation: a cancelled request keeps its pages.                          *)
DrainedKeeps(r, committed) ==
  IF dreq[r].cancelled THEN dreq[r]
  ELSE IF committed THEN Commit(r) ELSE Leave(dreq[r], "abort")

(* What becomes of a request whose receiver is terminal.                   *)
Drained(r, committed) ==
  IF dreq[r].cancelled THEN [dreq[r] EXCEPT !.pages = <<>>]
  ELSE IF committed THEN Commit(r) ELSE Leave(dreq[r], "abort")

(* SUCCESS is committed, which may fail.                                   *)
DDrain(r) ==
  /\ dpc = "drain" /\ r = Head(todo)
  /\ \E o \in ReceiverPoll(xfer[r]), broken \in BOOLEAN :
       LET st        == o.x.rcv.st
           over      == st \in Terminal
           committed == st = "SUCCESS" /\ ~dreq[r].cancelled /\ ~broken
           q         == IF over THEN Drained(r, committed) ELSE dreq[r]
           n         == o.faults + IF broken THEN 1 ELSE 0
       IN  /\ broken => st = "SUCCESS" /\ ~dreq[r].cancelled
           /\ faults + n <= MaxFaults /\ faults' = faults + n
           /\ xfer' = [xfer EXCEPT ![r] = o.x]
           /\ dreq' = [dreq EXCEPT ![r] = q]
           /\ dfree' = dfree \cup (Range(dreq[r].pages) \ Range(q.pages))
           /\ transfer' = IF over THEN Without(transfer, r) ELSE transfer
           /\ dwaiting' = IF committed THEN Append(dwaiting, r) ELSE dwaiting
  /\ IF Len(todo) > 1 THEN dpc' = dpc ELSE dpc' = "launch"
  /\ todo' = Tail(todo)
  /\ UNCHANGED <<listed, boot, prealloc, extended, running, full, prefill_only, dresults, dkv>>

------------------------------------------------------------------------------
(* launch: get_next_batch_to_run and run_batch.                            *)

(* The extended requests join the running batch, or become it.             *)
Merged == running \cup extended

(* They bring a batch_is_full of their own then; and the empty batch D     *)
(* began with counts as prefill-only, for which it is cleared every time.  *)
StillFull == full /\ ~(running = {} /\ extended # {}) /\ ~prefill_only

(* Mutation: no attempt finds the received pages.                          *)
AttemptAfresh(q) == [q EXCEPT !.skip = FALSE, !.pages = <<>>]

(* init_next_round_input.  Only the first attempt to schedule r finds the  *)
(* received pages: a later one starts with an empty prefix.                *)
Attempt(q) == IF q.skip THEN [q EXCEPT !.skip = FALSE] ELSE [q EXCEPT !.pages = <<>>]

Missing(r) == NumChunks[r] - Len(Attempt(dreq[r]).pages)

(* The budget of add_one_req, in pages, for the first k waiting requests.  *)
Budget(k) == MapThenSumSet(LAMBDA i : Max({1, Missing(dwaiting[i])}), 1..k)

(* How many waiting requests get into an extend batch.                     *)
CanRun == IF StillFull THEN 0
          ELSE Max({k \in 0..Len(dwaiting) : Budget(k) <= Cardinality(dfree)})

(* NO_TOKEN: the next one was tried as well, and marks the batch full.     *)
Refused == ~StillFull /\ CanRun < Len(dwaiting)

Tried == IF StillFull THEN dreq
         ELSE LET n == CanRun + IF Refused THEN 1 ELSE 0
              IN  [r \in Reqs |-> IF \E i \in 1..n : dwaiting[i] = r
                                  THEN Attempt(dreq[r]) ELSE dreq[r]]

(* The i-th request of the extend batch gets the pages it lacks.           *)
Granted(i) == LET before == MapThenSumSet(LAMBDA j : Missing(dwaiting[j]), 1..(i - 1))
                  s == Alloc(Cardinality(dfree))
              IN  SubSeq(s, before + 1, before + Missing(dwaiting[i]))

(* A forward writes the new pages of its requests and appends to the last. *)
RunBatch(S, fresh) ==
  LET write(r) == {[page |-> dreq'[r].pages[i], chunk |-> <<r, i - 1>>,
                    fresh |-> dreq'[r].pages[i] \in fresh] :
                     i \in {j \in DOMAIN dreq'[r].pages :
                              dreq'[r].pages[j] \in fresh \/ j = Len(dreq'[r].pages)}}
  IN  dresults' = Append(dresults, [reqs |-> S, ran |-> FALSE,
                                    writes |-> UNION {write(r) : r \in S}])

(* Extend batches come first; else the running batch, without its finished *)
(* requests, decodes.  Only a batch that shrinks is opened again.          *)
DLaunch ==
  LET n     == CanRun
      alive == {r \in Merged : ~Finished(r)}
      fresh == UNION {Range(Granted(i)) : i \in 1..n}
  IN  /\ dpc = "launch"
      /\ dfree' = dfree \ fresh
      /\ dreq' = [r \in Reqs |->
                    LET i == {j \in 1..n : dwaiting[j] = r}
                    IN  IF i = {} THEN Tried[r]
                        ELSE [Tried[r] EXCEPT !.pages = @ \o Granted(Max(i))]]
      /\ dwaiting' = SubSeq(dwaiting, n + 1, Len(dwaiting))
      /\ extended' = {dwaiting[i] : i \in 1..n}
      /\ running' = IF n > 0 THEN Merged ELSE alive
      /\ full' = ((StillFull \/ Refused) /\ running' = Merged)
      /\ prefill_only' = (prefill_only /\ Merged = {})
      /\ IF extended' \cup (IF n > 0 THEN {} ELSE alive) = {} THEN UNCHANGED dresults
         ELSE RunBatch(IF n > 0 THEN extended' ELSE alive, fresh)
      /\ dpc' = IF dresults' = <<>> \/ (Len(dresults') = 1 /\ dresults = <<>>)
                THEN "recv" ELSE "result"
      /\ UNCHANGED <<xfer, faults, listed, todo, boot, prealloc, transfer, dkv>>

------------------------------------------------------------------------------
(* result: process_batch_result of the older of two forwards, or of the    *)
(* only one when this iteration launched nothing.                          *)

(* A token is appended; a stop token, the length or an abort finishes.     *)
Generated(q, stop) ==
  IF q.to_finish THEN Leave(q, "abort")
  ELSE IF stop \/ q.out + 1 = MaxNewTokens THEN Leave(q, "done")
  ELSE [q EXCEPT !.out = @ + 1]

DResult ==
  LET h     == Head(dresults)
      alive == {r \in h.reqs : ~Finished(r)}
  IN  /\ dpc = "result" /\ h.ran /\ dpc' = "recv"
      /\ dresults' = Tail(dresults)
      /\ \E stop \in SUBSET alive :
           dreq' = [r \in Reqs |-> IF r \in alive THEN Generated(dreq[r], r \in stop)
                                   ELSE dreq[r]]
      /\ dfree' = dfree \cup UNION {Range(dreq[r].pages) \ Range(dreq'[r].pages) : r \in alive}
      /\ UNCHANGED <<xfer, faults, listed, todo, boot, prealloc, transfer, dwaiting,
                     extended, running, full, prefill_only, dkv>>

(* The device runs the forwards in the order of their launch.              *)
DForward ==
  \E i \in DOMAIN dresults :
    LET written(p) == {w \in dresults[i].writes : w.page = p}
        after(p, w) == IF w.fresh \/ dkv[p] = w.chunk THEN w.chunk ELSE None
    IN  /\ ~dresults[i].ran /\ \A j \in 1..(i - 1) : dresults[j].ran
        /\ dresults' = [dresults EXCEPT ![i].ran = TRUE]
        /\ dkv' = [p \in DPages |-> IF written(p) = {} THEN dkv[p]
                                    ELSE after(p, CHOOSE w \in written(p) : TRUE)]
        /\ UNCHANGED <<xfer, faults, listed, dpc, todo, dreq, boot, prealloc, transfer,
                       dwaiting, extended, running, full, prefill_only, dfree>>
==============================================================================
