------------------------------- MODULE FrontEnd -------------------------------
(***************************************************************************)
(* The way of a call through the processes of a server: TokenizerManager   *)
(* sends its requests to the scheduler and waits; the scheduler's output   *)
(* returns through the detokenizer, its AbortReq messages directly.  Both  *)
(* paths end in one socket of the tokenizer process, and each keeps its    *)
(* own order only.                                                         *)
(*                                                                         *)
(* TokenizerManager runs on one asyncio loop: an action is what happens    *)
(* between two awaits.  The scheduler is reduced to what it sends: when it *)
(* runs, retracts and aborts a request (Scheduler.tla has the rest).       *)
(***************************************************************************)
EXTENDS Detokenizer

CONSTANTS
  Calls,          \* calls of generate_request
  Workloads,      \* what the calls ask for, see below
  SampleNum,      \* parallel_sample_num of a parallel call
  StreamInterval, \* tokens between two outputs of a streaming request
  ForceInterval,  \* DEFAULT_FORCE_STREAM_INTERVAL, for the others
  MaxPauses,      \* bound on the number of pauses
  MaxQueued       \* bound on the queue in which the pause loop repeats itself

(* A workload: the kind of each call, the calls with stream set, those     *)
(* whose client may disconnect, the modes clients pause with, the          *)
(* max_new_tokens of every request but the prefix of a parallel call, and  *)
(* whether the requests may run out of memory.  A text call is tokenized   *)
(* at once; for a multimodal or a parallel call the coroutine is           *)
(* suspended.                                                              *)
ASSUME FrontEndAssumption ==
  /\ \A w \in Workloads :
       /\ w.kind \in [Calls -> {"absent", "text", "multimodal", "parallel"}]
       /\ w.stream \subseteq Calls /\ w.leaves \subseteq Calls
       /\ w.modes \subseteq {"abort", "in_place", "retract"}
       /\ w.max_new_tokens \in Nat \ {0} /\ w.tight \in BOOLEAN
  /\ {SampleNum, StreamInterval, ForceInterval, MaxQueued} \subseteq Nat \ {0}
  /\ MaxPauses \in Nat

VARIABLES
  workload,
  pc,             \* where each call stands
  gone,           \* calls whose client has disconnected
  rid_to_state,   \* the requests TokenizerManager has a state for
  state,          \* the ReqState of each request, and its reader
  is_pause,
  pausing,        \* the abort-mode pause that holds the lock of is_pause_cond
  pauses,
  to_scheduler,   \* messages TokenizerManager sent to the scheduler
  job,            \* the scheduler's view of each request
  engine_paused,  \* _engine_paused
  from_scheduler, \* AbortReq messages of the scheduler
  to_detokenizer, \* BatchTokenIDOut messages
  decode_status,  \* of the detokenizer
  dead,           \* the detokenizer raised, and the server is killed
  from_detokenizer \* BatchStrOut messages

tvars == <<pc, gone, rid_to_state, state, is_pause, pausing, pauses>>
svars == <<job, engine_paused>>
dvars == <<decode_status, dead>>
vars == <<workload, tvars, to_scheduler, svars, from_scheduler, to_detokenizer, dvars,
          from_detokenizer>>

Parallel(c) == workload.kind[c] = "parallel"
Streams(c) == c \in workload.stream
MaxNewTokens == workload.max_new_tokens

(* The request that caches the common prefix of a parallel call is its     *)
(* 0th.                                                                    *)
Prefix(c) == <<c, 0>>
Samples(c) == {<<c, i>> : i \in 1..(IF Parallel(c) THEN SampleNum ELSE 1)}
Rids == Calls \X (0..SampleNum)
IsPrefixReq(r) == r[2] = 0
CallOf(r) == r[1]

(* text and ids accumulate; out_list holds what the reader has not taken;  *)
(* reader is the coroutine in _wait_one_response, yielded its last output. *)
(* An "orphan" waits in a task nobody awaits any more.                     *)
NoOutput == [text |-> <<>>, ids |-> <<>>, reason |-> Unfinished]
NewState == [text |-> <<>>, ids |-> <<>>, out_list |-> <<>>, finished |-> FALSE,
             reader |-> "none", yielded |-> NoOutput]

NewJob == [at |-> "none", out |-> 0, sent |-> 0, to_finish |-> FALSE, reason |-> Unfinished]

Init ==
  /\ workload \in Workloads
  /\ pc = [c \in Calls |-> IF workload.kind[c] = "absent" THEN "closed" ELSE "gate"]
  /\ gone = {}
  /\ rid_to_state = {}
  /\ state = [r \in Rids |-> NewState]
  /\ is_pause = FALSE /\ pausing = FALSE /\ pauses = 0
  /\ to_scheduler = <<>> /\ from_scheduler = <<>>
  /\ job = [r \in Rids |-> NewJob]
  /\ engine_paused = FALSE
  /\ to_detokenizer = <<>> /\ from_detokenizer = <<>>
  /\ decode_status = NoStatus /\ dead = FALSE
------------------------------------------------------------------------------
(* TokenizerManager: calls.                                                *)
Message(type, R) == [type |-> type, rids |-> R]

(* abort_request: nothing is sent for a request that has no state.         *)
abort_request(R) ==
  to_scheduler' = IF R \cap rid_to_state = {} THEN to_scheduler
                  ELSE Append(to_scheduler, Message("abort", R))

Generate(R) == [i \in 1..Cardinality(R) |-> Message("generate", {SetToSeq(R)[i]})]

(* _send_one_request for each of R.                                        *)
Send(R, base) ==
  /\ to_scheduler' = to_scheduler \o Generate(R)
  /\ rid_to_state' = rid_to_state \cup R
  /\ state' = [r \in Rids |-> IF r \in R THEN [NewState EXCEPT !.reader = "waiting"] ELSE base[r]]

(* generate_request up to its first suspension: the gate is is_pause_cond. *)
Enter(c) ==
  /\ pc[c] = "gate" /\ ~pausing /\ ~is_pause
  /\ IF workload.kind[c] = "text"
     THEN Send(Samples(c), state) /\ pc' = [pc EXCEPT ![c] = "waiting"]
     ELSE pc' = [pc EXCEPT ![c] = "tokenizing"] /\ UNCHANGED <<to_scheduler, rid_to_state, state>>
  /\ UNCHANGED <<gone, is_pause, pausing, pauses>>

(* The tokenization a call awaited is there.                               *)
Tokenized(c) ==
  /\ pc[c] = "tokenizing"
  /\ IF Parallel(c)
     THEN Send({Prefix(c)}, state) /\ pc' = [pc EXCEPT ![c] = "prefix"]
     ELSE Send(Samples(c), state) /\ pc' = [pc EXCEPT ![c] = "waiting"]
  /\ UNCHANGED <<gone, is_pause, pausing, pauses>>

Oldest(out_list) == Head(out_list)
Newest(out_list) == Last(out_list)

Taken(r, reader, out) ==
  [state EXCEPT ![r] = [@ EXCEPT !.out_list = <<>>, !.reader = reader, !.yielded = out]]

Waits(r) == state[r].reader \in {"waiting", "orphan"}

(* _wait_one_response wakes up: the last of the outputs is yielded if it   *)
(* is final or the call streams.  When the prefix of a parallel call is    *)
(* done the call goes on and sends the samples.  An orphan yields once.    *)
Wake(r) ==
  LET c == CallOf(r)
      out == Newest(state[r].out_list)
  IN  /\ Waits(r) /\ state[r].out_list # <<>>
      /\ \/ /\ state[r].finished
            /\ IF IsPrefixReq(r)
               THEN /\ Send(Samples(c), Taken(r, "done", out))
                    /\ pc' = [pc EXCEPT ![c] = "waiting"]
               ELSE /\ state' = Taken(r, "done", out)
                    /\ UNCHANGED <<pc, to_scheduler, rid_to_state>>
         \/ /\ ~state[r].finished /\ Streams(c)
            /\ state' = Taken(r, IF state[r].reader = "orphan" THEN "cancelled" ELSE "waiting", out)
            /\ UNCHANGED <<pc, to_scheduler, rid_to_state>>
         \/ /\ ~state[r].finished /\ ~Streams(c)
            /\ IF c \in gone
               THEN /\ abort_request({r})
                    /\ state' = Taken(r, "raised", state[r].yielded)
               ELSE /\ state' = Taken(r, "waiting", state[r].yielded)
                    /\ UNCHANGED to_scheduler
            /\ UNCHANGED <<pc, rid_to_state>>
      /\ UNCHANGED <<gone, is_pause, pausing, pauses>>

(* The wait times out and the client is gone.                              *)
TimeOut(r) ==
  /\ Waits(r) /\ state[r].out_list = <<>>
  /\ CallOf(r) \in gone
  /\ abort_request({r})
  /\ state' = [state EXCEPT ![r].reader = "raised"]
  /\ UNCHANGED <<pc, gone, rid_to_state, is_pause, pausing, pauses>>

Returned(c) ==
  \/ pc[c] = "closed"
  \/ pc[c] = "prefix" /\ state[Prefix(c)].reader = "raised"
  \/ /\ pc[c] = "waiting"
     /\ \/ \A r \in Samples(c) : state[r].reader = "done"
        \/ \E r \in Samples(c) : state[r].reader = "raised"

(* The samples of a streaming parallel call are read by tasks of their     *)
(* own.                                                                    *)
Tasks(c) == {r \in Samples(c) : Parallel(c) /\ state[r].reader = "waiting"}

(* The client disconnects.  A streaming response is cancelled, with the    *)
(* reader in it; the others find out in _wait_one_response.  Tasks go on,  *)
(* but none exists where an output is just being passed on.                *)
Disconnect(c) ==
  /\ c \in workload.leaves \ gone /\ pc[c] # "closing" /\ ~Returned(c)
  /\ gone' = gone \cup {c}
  /\ IF Streams(c)
     THEN /\ pc' = [pc EXCEPT ![c] = "closing"]
          /\ \E passing \in SUBSET {r \in Tasks(c) : state[r].yielded # NoOutput} :
               state' = [r \in Rids |->
                 IF CallOf(r) = c /\ state[r].reader = "waiting"
                 THEN [state[r] EXCEPT !.reader =
                         IF r \in Tasks(c) \ passing THEN "orphan" ELSE "cancelled"]
                 ELSE state[r]]
     ELSE UNCHANGED <<pc, state>>
  /\ UNCHANGED <<to_scheduler, rid_to_state, is_pause, pausing, pauses>>

(* create_abort_task, after a streaming response: it names the rid of the  *)
(* call, which a parallel call replaced by new ones for what it sent.      *)
AbortTask(c) ==
  /\ pc[c] = "closing"
  /\ pc' = [pc EXCEPT ![c] = "closed"]
  /\ abort_request(IF Parallel(c) THEN {} ELSE Samples(c))
  /\ UNCHANGED <<gone, rid_to_state, state, is_pause, pausing, pauses>>
------------------------------------------------------------------------------
(* TokenizerManager: handle_loop.                                          *)
OutputKeepsState(t, m) ==
  LET s == [t.state[m.rid] EXCEPT !.text = @ \o m.text, !.ids = @ \o m.ids,
                                  !.finished = m.reason # Unfinished]
  IN  IF m.rid \notin t.rids THEN t
      ELSE [rids |-> t.rids,
            state |-> [t.state EXCEPT ![m.rid] =
                         [s EXCEPT !.out_list = Append(@, [text |-> s.text, ids |-> s.ids,
                                                           reason |-> m.reason])]]]

(* _handle_batch_output, for one request: output for a request that was    *)
(* forgotten is dropped, a final one is the last.                          *)
OneOutput(t, m) ==
  LET s == [t.state[m.rid] EXCEPT !.text = @ \o m.text, !.ids = @ \o m.ids,
                                  !.finished = m.reason # Unfinished]
  IN  IF m.rid \notin t.rids THEN t
      ELSE [rids |-> IF s.finished THEN t.rids \ {m.rid} ELSE t.rids,
            state |-> [t.state EXCEPT ![m.rid] =
                         [s EXCEPT !.out_list = Append(@, [text |-> s.text, ids |-> s.ids,
                                                           reason |-> m.reason])]]]

HandleBatchOutput ==
  /\ from_detokenizer # <<>>
  /\ \E t \in {FoldLeft(OneOutput, [rids |-> rid_to_state, state |-> state],
                       Head(from_detokenizer))} :
       rid_to_state' = t.rids /\ state' = t.state
  /\ from_detokenizer' = Tail(from_detokenizer)
  /\ UNCHANGED <<pc, gone, is_pause, pausing, pauses, to_scheduler, from_scheduler>>

AbortKeepsState(r) ==
  /\ rid_to_state' = rid_to_state
  /\ state' = [state EXCEPT ![r] = [@ EXCEPT !.finished = TRUE,
                 !.out_list = Append(@, [NoOutput EXCEPT !.reason = "echo"])]]

(* _handle_abort_req for a request that has a state.                       *)
Forget(r) ==
  /\ rid_to_state' = rid_to_state \ {r}
  /\ state' = [state EXCEPT ![r] = [@ EXCEPT !.finished = TRUE,
                 !.out_list = Append(@, [NoOutput EXCEPT !.reason = "echo"])]]

HandleAbortReq ==
  /\ from_scheduler # <<>>
  /\ LET r == Head(from_scheduler)
     IN  IF r \in rid_to_state THEN Forget(r) ELSE UNCHANGED <<rid_to_state, state>>
  /\ from_scheduler' = Tail(from_scheduler)
  /\ UNCHANGED <<pc, gone, is_pause, pausing, pauses, to_scheduler, from_detokenizer>>
------------------------------------------------------------------------------
(* TokenizerManager: pause_generation and continue_generation.             *)

(* One round of the abort loop, which holds the lock across its sleep.     *)
AbortRound ==
  /\ to_scheduler' = Append(to_scheduler, Message("abort", Rids))
  /\ pausing' = (rid_to_state # {})

pause_generation(mode) ==
  /\ ~pausing /\ pauses < MaxPauses
  /\ pauses' = pauses + 1
  /\ is_pause' = TRUE
  /\ IF mode = "abort" THEN AbortRound
     ELSE to_scheduler' = Append(to_scheduler, Message(mode, {})) /\ UNCHANGED pausing
  /\ UNCHANGED <<pc, gone, rid_to_state, state>>

PauseAgain ==
  /\ pausing /\ Len(to_scheduler) < MaxQueued
  /\ AbortRound
  /\ UNCHANGED <<pc, gone, rid_to_state, state, is_pause, pauses>>

continue_generation ==
  /\ ~pausing /\ is_pause
  /\ is_pause' = FALSE
  /\ to_scheduler' = Append(to_scheduler, Message("continue", {}))
  /\ UNCHANGED <<pc, gone, rid_to_state, state, pausing, pauses>>
------------------------------------------------------------------------------
(* The scheduler.                                                          *)
Jobs(at) == {r \in Rids : job[r].at = at}

AbortedSilently(R) ==
  /\ job' = [r \in Rids |->
               IF r \in R /\ job[r].at = "waiting" THEN [job[r] EXCEPT !.at = "done"]
               ELSE IF r \in R /\ job[r].at = "running" THEN [job[r] EXCEPT !.to_finish = TRUE]
               ELSE job[r]]
  /\ UNCHANGED <<from_scheduler, engine_paused>>

(* A queued request is dropped and its AbortReq sent back, a running one   *)
(* finishes with its next result.                                          *)
Aborted(R) ==
  /\ job' = [r \in Rids |->
               IF r \in R /\ job[r].at = "waiting" THEN [job[r] EXCEPT !.at = "done"]
               ELSE IF r \in R /\ job[r].at = "running" THEN [job[r] EXCEPT !.to_finish = TRUE]
               ELSE job[r]]
  /\ from_scheduler' = from_scheduler \o SetToSeq(R \cap Jobs("waiting"))
  /\ UNCHANGED engine_paused

Requeued(R) == [r \in Rids |-> IF r \in R THEN [job[r] EXCEPT !.at = "waiting"] ELSE job[r]]

SRecv ==
  /\ to_scheduler # <<>>
  /\ to_scheduler' = Tail(to_scheduler)
  /\ LET m == Head(to_scheduler)
     IN  CASE m.type = "generate" -> /\ job' = Requeued(m.rids)
                                     /\ UNCHANGED <<engine_paused, from_scheduler>>
           [] m.type = "abort"    -> Aborted(m.rids)
           [] m.type = "in_place" -> /\ engine_paused' = TRUE
                                     /\ UNCHANGED <<job, from_scheduler>>
           [] m.type = "retract"  -> /\ engine_paused' = TRUE
                                     /\ job' = Requeued(Jobs("running"))
                                     /\ UNCHANGED from_scheduler
           [] m.type = "continue" -> /\ engine_paused' = FALSE
                                     /\ UNCHANGED <<job, from_scheduler>>
  /\ UNCHANGED to_detokenizer

(* check_finished, and output_ids_through_stop for what follows.           *)
MaxNew(r) == IF IsPrefixReq(r) THEN 0 ELSE MaxNewTokens

Reason(r, stops) ==
  CASE job[r].to_finish -> "abort"
    [] ~job[r].to_finish /\ job[r].out + 1 >= MaxNew(r) -> "length"
    [] ~job[r].to_finish /\ job[r].out + 1 < MaxNew(r) -> IF r \in stops THEN "stop" ELSE Unfinished

Stepped(r, stops) ==
  LET reason == Reason(r, stops)
  IN  [job[r] EXCEPT !.at = IF reason = Unfinished THEN "running" ELSE "done",
                     !.out = IF reason = "length" THEN MaxNew(r) ELSE @ + 1,
                     !.reason = reason]

(* stream_output_generation: which requests have output now.               *)
DueEvery(n, interval) == IF interval > 1 THEN n % interval = 1 ELSE TRUE

Due(r, j) ==
  \/ j.reason # Unfinished
  \/ Streams(CallOf(r)) /\ ~IsPrefixReq(r) /\ DueEvery(j.out, StreamInterval)
  \/ ~(Streams(CallOf(r)) /\ ~IsPrefixReq(r)) /\ j.out % ForceInterval = 0

(* init_incremental_detokenize, and what of it was not sent before.        *)
SurrAndDecodeIds(n) == [i \in 1..(Surround + n) |-> i - Surround]

Output(r, j) == [rid |-> r, reason |-> j.reason, read_offset |-> Surround,
                 decode_ids |-> Drop(SurrAndDecodeIds(j.out), job[r].sent)]

OutputSent(r, j) == IF Due(r, j) THEN [j EXCEPT !.sent = Surround + j.out] ELSE j

(* A step of the model: a prefill of some queued requests or a decode of   *)
(* all running ones.                                                       *)
Forward ==
  /\ ~engine_paused
  /\ \E B \in (SUBSET Jobs("waiting") \cup {Jobs("running")}) \ {{}} :
     \E stops \in SUBSET B :
     \E j \in {[r \in B |-> Stepped(r, stops)]} :
     \E due \in {SetToSeq({r \in B : Due(r, j[r])})} :
       /\ job' = [r \in Rids |-> IF r \in B THEN OutputSent(r, j[r]) ELSE job[r]]
       /\ to_detokenizer' = IF due = <<>> THEN to_detokenizer
                            ELSE Append(to_detokenizer,
                                        [i \in DOMAIN due |-> Output(due[i], j[due[i]])])
  /\ UNCHANGED <<engine_paused, from_scheduler, to_scheduler>>

(* Memory runs out: a running request goes back to the queue.              *)
Retract(r) ==
  /\ workload.tight /\ ~engine_paused /\ job[r].at = "running"
  /\ job' = Requeued({r})
  /\ UNCHANGED <<engine_paused, from_scheduler, to_scheduler, to_detokenizer>>
------------------------------------------------------------------------------
(* The detokenizer's event_loop: handle_batch_token_id_out.                *)
Detokenize ==
  /\ to_detokenizer # <<>>
  /\ to_detokenizer' = Tail(to_detokenizer)
  /\ \E batch \in {Head(to_detokenizer)} : \E received \in {Received(decode_status, batch)} :
       IF NotFound(received, batch)
       THEN dead' = TRUE /\ UNCHANGED <<decode_status, from_detokenizer>>
       ELSE /\ decode_status' = AfterBatch(received, batch)
            /\ from_detokenizer' = Append(from_detokenizer, BatchStrOut(received, batch))
            /\ UNCHANGED dead
------------------------------------------------------------------------------
(* Steps of the tokenizer process, of the scheduler and of the detokenizer. *)
Up(A) == A /\ ~dead /\ UNCHANGED workload
Tok(A) == Up(A /\ UNCHANGED <<svars, dvars, to_detokenizer, from_scheduler, from_detokenizer>>)
Loop(A) == Up(A /\ UNCHANGED <<svars, dvars, to_detokenizer>>)
Sched(A) == Up(A /\ UNCHANGED <<tvars, dvars, from_detokenizer>>)
Detok(A) == Up(A /\ UNCHANGED <<tvars, svars, to_scheduler, from_scheduler>>)

Coroutines ==
  \/ \E c \in Calls : Enter(c) \/ Tokenized(c) \/ AbortTask(c)
  \/ \E r \in Rids : Wake(r) \/ TimeOut(r)

HandleLoop == HandleBatchOutput \/ HandleAbortReq

Next ==
  \/ Tok(Coroutines) \/ Loop(HandleLoop)
  \/ \E c \in Calls : Tok(Disconnect(c))
  \/ \E mode \in workload.modes : Tok(pause_generation(mode))
  \/ Tok(PauseAgain) \/ Tok(continue_generation)
  \/ Sched(SRecv) \/ Sched(Forward) \/ \E r \in Rids : Sched(Retract(r))
  \/ Detok(Detokenize)

Spec == Init /\ [][Next]_vars

(* Coroutines that can go on do, timers fire, the processes go on, and a   *)
(* client that paused the engine continues it.                             *)
Fairness ==
  /\ WF_vars(Tok(Coroutines)) /\ WF_vars(Loop(HandleLoop))
  /\ WF_vars(Tok(PauseAgain)) /\ WF_vars(Tok(continue_generation))
  /\ WF_vars(Sched(SRecv)) /\ WF_vars(Sched(Forward))
  /\ WF_vars(Detok(Detokenize))

FairSpec == Spec /\ Fairness
------------------------------------------------------------------------------
(* How many entries the detokenizer created after the first one of r.      *)
Newer(r) == Len(decode_status.past) - SelectInSeq(decode_status.past, LAMBDA k : k = r)

(* The tokens of the answer to r, and its text.                            *)
Answer(r) == [i \in 1..(job[r].out - (IF job[r].reason = "stop" THEN 1 ELSE 0)) |-> i]

(* The text and ids a request's final output carries are those of exactly  *)
(* the tokens it produced, each once and in order, whatever was streamed,  *)
(* retracted and computed again before, and whatever other requests did;   *)
(* unless the detokenizer evicted its DecodeStatus because MaxStates newer *)
(* ones were created.                                                      *)
AnswerIsExact ==
  \A r \in Rids :
    LET s == state[r]
    IN  s.yielded.reason \in {"length", "stop", "abort"} /\ Newer(r) < MaxStates =>
          s.yielded.text = Answer(r) /\ s.yielded.ids = Answer(r)

(* A reader that takes only the newest of its outputs misses nothing: a    *)
(* streaming call that is up to date has yielded all the text received.    *)
NothingIsSkipped ==
  \A r \in Rids :
    LET s == state[r]
    IN  /\ Streams(CallOf(r)) /\ ~IsPrefixReq(r)
        /\ s.reader \in {"waiting", "done"} /\ s.out_list = <<>> /\ s.yielded.reason # "echo"
        => s.yielded.text = s.text /\ s.yielded.ids = s.ids

(* Nothing follows the final output of a request: an AbortReq that         *)
(* overtakes output, and output that arrives after it, leave one answer.   *)
FinalIsLast ==
  \A r \in Rids :
    LET s == state[r]
    IN  /\ s.finished => r \notin rid_to_state
        /\ s.finished /\ s.out_list # <<>> => Last(s.out_list).reason # Unfinished
        /\ \A i \in 1..(Len(s.out_list) - 1) : s.out_list[i].reason = Unfinished

(* No call waits for an answer that is lost: every one returns or raises,  *)
(* unless the server dies.                                                 *)
EveryCallReturns == <>(dead \/ \A c \in Calls : Returned(c))

(* No state stays behind, also when its client has left, and no pause      *)
(* keeps the lock of is_pause_cond.                                        *)
NothingStaysBehind == <>[](dead \/ (rid_to_state = {} /\ ~pausing))

(* Output stops short of an incomplete character until it is complete.     *)
IncompleteIsDeferred ==
  \A r \in Rids : r \in rid_to_state => Replacement \notin ToSet(state[r].text)
==============================================================================
