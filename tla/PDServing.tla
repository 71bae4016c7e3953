------------------------------ MODULE PDServing ------------------------------
(***************************************************************************)
(* A disaggregated deployment: a prefill server, a decode server, the      *)
(* bootstrap server between them and the native transfer engine.  The      *)
(* router sends every request to both servers, in any order, and a client  *)
(* may abort it on either.                                                 *)
(*                                                                         *)
(* Concurrent with the loops of P and D are their devices, the engine,     *)
(* D's metadata lookups and the reapers that time transfers out.           *)
(***************************************************************************)
EXTENDS PDPrefill, PDDecode

vars == <<xfer, faults, pvars, dvars>>

Init == TInit /\ PInit /\ DInit

Chunks(r) == 0..(NumChunks[r] - 1)

(* The engine copies a registered page of P to a page of D.                *)
EngineRead(r, c) ==
  LET x == xfer[r]
  IN  /\ x.dst[c] = "reading" /\ x.src[c] = "registered"
      /\ xfer' = [xfer EXCEPT ![r].dst[c] = "done"]
      /\ dkv' = [dkv EXCEPT ![x.rcv.pages[c + 1]] = pkv[x.snd.pages[c + 1]]]
      /\ UNCHANGED <<faults, pvars, listed, dpc, todo, dreq, boot, prealloc, transfer,
                     dwaiting, extended, running, full, prefill_only, dfree, dresults>>

------------------------------------------------------------------------------
(* Steps of P, of D, and of neither.                                       *)
OnP(A)   == A /\ UNCHANGED dvars
OnD(A)   == A /\ UNCHANGED pvars
Apart(A) == A /\ UNCHANGED <<pvars, dvars>>

PLoop == OnP(PRecv \/ (\E r \in Reqs : PSend(r)) \/ PLaunch \/ PResolve)

DLoop == OnD(\/ DRecv \/ DBlocked \/ DLaunch \/ DResult
             \/ \E r \in Reqs : DAwait(r) \/ DAdmit(r) \/ DAdmitFails(r) \/ DDrain(r))

Clients == \E r \in Reqs : \/ OnP(PArrive(r)) \/ OnP(PAbort(r))
                           \/ OnD(DArrive(r)) \/ OnD(DAbort(r))

(* The engine's work, and the timers of D's loop, the engine and the       *)
(* reapers.                                                                *)
Engine(r) == \E c \in Chunks(r) : \/ EngineRead(r, c) \/ Apart(EngineReadFails(r, c))
                                  \/ Apart(EngineSent(r, c))

Timers(r) == \/ OnD(DAge(r)) \/ Apart(SenderTimeout(r)) \/ Apart(ReceiverTimeout(r))
             \/ \E c \in Chunks(r) : Apart(EngineSendExpires(r, c))

Next == \/ Clients \/ PLoop \/ DLoop
        \/ OnP(PForward) \/ OnD(DForward) \/ OnD(RegisterPrefill)
        \/ \E r \in Reqs : \/ Engine(r) \/ Timers(r)
                          \/ Apart(LookupDone(r)) \/ Apart(RoomExpires(r))

Spec == Init /\ [][Next]_vars

(* Both loops and both devices go on, the engine finishes reads and        *)
(* reports them, lookups return, timers fire, and a prefill server is up.  *)
Fairness ==
  /\ WF_vars(PLoop) /\ WF_vars(DLoop)
  /\ WF_vars(OnP(PForward)) /\ WF_vars(OnD(DForward)) /\ WF_vars(OnD(RegisterPrefill))
  /\ \A r \in Reqs : /\ WF_vars(Engine(r)) /\ WF_vars(Timers(r))
                     /\ WF_vars(Apart(LookupDone(r)))

FairSpec == Spec /\ Fairness

------------------------------------------------------------------------------
(* A launched forward of D has still to write the page p.                  *)
Writing(p) == \E i \in DOMAIN dresults :
                ~dresults[i].ran /\ \E w \in dresults[i].writes : w.page = p

(* As long as the engine may read a page of P, the page belongs to the     *)
(* request it was registered for: aborts, timeouts and failed handoffs     *)
(* keep the pages until the engine has let go of them                      *)
(* (_release_prefill_req_resources, request_abort of the sender).          *)
SourcePagesHeld ==
  \A r \in Reqs : \A c \in Chunks(r) :
    xfer[r].src[c] = "registered" => xfer[r].snd.pages[c + 1] \in Range(preq[r].pages)

(* And it holds that request's chunk: a chunk is handed to the sender only *)
(* when its forward has run, and no later forward writes the page.         *)
SourcePagesIntact ==
  \A r \in Reqs : \A c \in Chunks(r) :
    xfer[r].src[c] = "registered" => pkv[xfer[r].snd.pages[c + 1]] = <<r, c>>

(* As long as the engine may write a page of D, the page belongs to the    *)
(* request and no forward of D that was launched before still writes it:   *)
(* a cancelled transfer keeps its pages, and a receive is admitted behind  *)
(* the fence of _wait_decode_admission_safe.                               *)
DestPagesHeld ==
  \A r \in Reqs : \A c \in Chunks(r) :
    xfer[r].dst[c] = "reading" =>
      LET p == xfer[r].rcv.pages[c + 1]
      IN  p \in Range(dreq[r].pages) /\ ~Writing(p)

(* A request D decodes finds in its pages the chunks of its own prompt, in *)
(* their order, computed by P or by D itself.                              *)
OwnKV ==
  \A r \in Range(dwaiting) \cup extended \cup running :
    Finished(r) \/ \A i \in DOMAIN dreq[r].pages :
                     \/ Writing(dreq[r].pages[i])
                     \/ dkv[dreq[r].pages[i]] = <<r, i - 1>>

(* No page of D is free and owned, or owned by two requests; nor is one of *)
(* P owned by two.                                                         *)
OneOwner ==
  \A r \in Reqs :
    /\ Range(dreq[r].pages) \cap dfree = {}
    /\ \A s \in Reqs \ {r} :
         /\ Range(dreq[r].pages) \cap Range(dreq[s].pages) = {}
         /\ Range(preq[r].pages) \cap Range(preq[s].pages) = {}

(* Every page of D is free or owned by a request.                          *)
NoPageLost == DPages = dfree \cup UNION {Range(dreq[r].pages) : r \in Reqs}

(* Either server answers a request once, whatever the order of its abort,  *)
(* its timeout and the end of its transfer.  The one exception is an abort *)
(* that comes again while D drains a cancelled transfer: it is answered    *)
(* again, and with an abort.  Neither the end of that transfer nor a       *)
(* result that arrives late adds an answer, and none follows "done".       *)
AnsweredOnce ==
  [][\A r \in Reqs :
       /\ preq[r].answer # <<>> => preq'[r].answer = preq[r].answer
       /\ Finished(r) /\ dreq'[r].answer # dreq[r].answer =>
            /\ dreq'[r].answer = Append(dreq[r].answer, "abort")
            /\ dreq[r].cancelled /\ r \in Range(transfer) \cap Range(transfer')]_vars

(* The assertions of _sync_chunked_req_owners and                          *)
(* _process_pending_chunked_aborts: a pending abort is that of the chunked *)
(* request, and scheduler and batch name the same one.                     *)
ChunkOwnersAgree ==
  /\ pending_abort # None => chunked = pending_abort
  /\ chunked # None /\ owner # None => chunked = owner

(* A request that nobody aborts and no fault or timeout hits is answered   *)
(* with success on both servers: the abort of another request, P removing  *)
(* the metadata at its end, and late lookups never fail it.                *)
HealthySucceed ==
  \A r \in Reqs \ (Abortable \cup Impatient) :
    faults = 0 => /\ ~xfer[r].snd.fail /\ ~xfer[r].rcv.fail
                  /\ Range(preq[r].answer) \cup Range(dreq[r].answer) \subseteq {"done"}

(* A request D has received and not answered is in one queue or batch.     *)
OneHome ==
  \A r \in Reqs :
    LET homes == {i \in 1..5 : r \in <<Range(boot), Range(prealloc), Range(transfer),
                                      Range(dwaiting), extended \cup running>>[i]}
    IN  /\ Cardinality(homes) <= 1
        /\ dreq[r].arrived /\ ~Finished(r) => homes # {}

(* Every request a server receives is answered by it, also when the other  *)
(* server never gets it, fails it or forgets it.                           *)
EveryRequestAnswered ==
  \A r \in Reqs : /\ preq[r].arrived ~> preq[r].answer # <<>>
                  /\ dreq[r].arrived ~> dreq[r].answer # <<>>

(* The pages of an answered request return to the pools.                   *)
PagesReturn ==
  \A r \in Reqs : /\ preq[r].answer # <<>> ~> preq[r].pages = <<>>
                  /\ dreq[r].answer # <<>> ~> dreq[r].pages = <<>>
==============================================================================
