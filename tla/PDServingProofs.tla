---------------------------- MODULE PDServingProofs ----------------------------
(***************************************************************************)
(* P never takes a page from a request while the engine may read it:       *)
(* SourcePagesHeld for any requests, prompts, pools, windows and number of *)
(* faults.                                                                 *)
(*                                                                         *)
(* The inductive invariant IInv is about P and the sending side of the     *)
(* transfers.  The steps of P and of the transfers keep it                 *)
(* (PDPrefillProofs); D's steps touch the receiving side only.             *)
(***************************************************************************)
EXTENDS PDServing, PDPrefillProofs

(* Nothing is registered and nothing launched at first.                    *)
LEMMA InitInv == Init => IInv
<1> SUFFICES ASSUME Init PROVE IInv
  OBVIOUS
<1>1. /\ preq = [r \in Reqs |-> NewPReq] /\ results = <<>> /\ psweep = {} /\ ppc = "recv"
      /\ xfer = [r \in Reqs |-> NewTransfer(NumChunks[r])]
  BY DEF Init, PInit, TInit
<1>2. NewPReq \in PReqs /\ NewPReq.sender = FALSE /\ NewPReq.chunk_index = 0
      /\ NewPReq.deferred = FALSE /\ NewPReq.queued = FALSE
  BY DEF NewPReq, PReqs
<1>3. ASSUME NEW n \in Nat
      PROVE  LET x == NewTransfer(n)
             IN  SenderInv(x, 0..(n - 1), AnyPage) /\ NoneRegistered(x)
  <2> DEFINE x == NewTransfer(n)
             s == [NewSender EXCEPT !.st = "NONE"]
             m == [c \in 0..(n - 1) |-> "idle"]
  <2>1. /\ s \in Senders(AnyPage) /\ s.started = {} /\ s.pending = <<>> /\ s.st = "NONE"
    <3>1. NewSender \in Senders(AnyPage) /\ NewSender.started = {} /\ NewSender.pending = <<>>
      BY DEF NewSender, Senders
    <3> QED BY <3>1, SMTT(30) DEF Senders
  <2>2. m \in [0..(n - 1) -> Marks] /\ \A c \in 0..(n - 1) : m[c] # "registered"
    BY DEF Marks
  <2> HIDE DEF s, m
  <2>3. Shape(x) /\ x.snd = s /\ x.src = m
    BY Zenon DEF NewTransfer, Shape, Record, s, m
  <2> HIDE DEF x
  <2>4. NoneRegistered(x)
    BY <2>2, <2>3 DEF NoneRegistered
  <2>5. IsFiniteSet(x.snd.started)
    BY <2>1, <2>3, FS_EmptySet, ZenonT(40)
  <2>6. SenderInv(x, 0..(n - 1), AnyPage)
    BY <2>1, <2>2, <2>3, <2>4, <2>5 DEF SenderInv, Terminal
  <2> QED BY <2>4, <2>6, SMTT(30) DEF x
<1>4. ASSUME NEW r \in Reqs PROVE ReqInv(preq[r], xfer[r], 0..(NumChunks[r] - 1))
  <2>1. NumChunks[r] \in Nat
    BY TransfersAssumption, SMTT(30)
  <2>2. preq[r] = NewPReq /\ xfer[r] = NewTransfer(NumChunks[r])
    BY <1>1, SMTT(30)
  <2>3. SenderInv(xfer[r], 0..(NumChunks[r] - 1), AnyPage) /\ NoneRegistered(xfer[r])
    BY <1>3, <2>1, <2>2, SMTT(30)
  <2> QED BY <1>2, <2>2, <2>3, SMTT(30) DEF ReqInv
<1>5. AllReqs(preq, xfer)
  BY <1>1, <1>4, SMTT(30) DEF AllReqs
<1>6. ResultsInv(results, preq)
  BY <1>1, SMTT(30) DEF ResultsInv
<1> QED BY <1>1, <1>5, <1>6, SMTT(30) DEF IInv

(* The steps of D that change a transfer change its receiving side.        *)
LEMMA DTransferSteps ==
  ASSUME IInv, NEW r \in Reqs, UNCHANGED pvars,
         DAbort(r) \/ DAwait(r) \/ DAdmit(r) \/ DAdmitFails(r) \/ DDrain(r)
  PROVE  IInv'
<1> DEFINE x == xfer[r]
<1>1. Shape(x)
  BY ShapeOf
<1>2. /\ SameSender(x, x) /\ SameSender(x, cleanup_transfer(x))
      /\ SameSender(x, poll_decode_metadata(x))
      /\ \A pages : SameSender(x, try_start_decode(x, pages))
  BY <1>1, ReceiverStepSame, SMTT(30)
<1>3. SameSender(x, ReceiverAbort(x))
  BY <1>1, ReceiverAbortSame, SMTT(30)
<1>4. SameSender(x, cleanup_transfer(poll_decode_metadata(x)))
  <2>1. Shape(poll_decode_metadata(x))
    BY <1>2, SMTT(30) DEF SameSender
  <2>2. SameSender(poll_decode_metadata(x), cleanup_transfer(poll_decode_metadata(x)))
    BY <2>1, ReceiverStepSame, SMTT(30)
  <2> QED BY <1>2, <2>2, SameSenderTrans, SMTT(30)
<1>5. \A o \in ReceiverPoll(x) : SameSender(x, o.x)
  BY <1>1, ReceiverPollSame, SMTT(30)
<1>6. \E y : SameSender(x, y) /\ xfer' = [xfer EXCEPT ![r] = y]
  <2>1. CASE DAbort(r)
    <3> DEFINE early == r \in Range(boot) \cup Range(prealloc)
               moving == r \in Range(transfer)
               y == CASE early -> cleanup_transfer(x) [] moving -> ReceiverAbort(x) [] OTHER -> x
    <3>1. xfer' = [xfer EXCEPT ![r] = y]
      BY <2>1 DEF DAbort
    <3>2. y \in {cleanup_transfer(x), ReceiverAbort(x), x}
      <4> HIDE DEF early, moving, x
      <4> QED BY SMTT(30)
    <3> HIDE DEF y, x
    <3> QED BY <1>2, <1>3, <3>1, <3>2, Zenon
  <2>2. CASE DAwait(r)
    BY <1>2, <1>4, <2>2, Zenon DEF DAwait
  <2>3. CASE DAdmit(r)
    BY <1>2, <2>3, Zenon DEF DAdmit
  <2>4. CASE DAdmitFails(r)
    BY <1>2, <2>4, Zenon DEF DAdmitFails
  <2>5. CASE DDrain(r)
    BY <1>5, <2>5, ZenonT(40) DEF DDrain
  <2> QED BY <2>1, <2>2, <2>3, <2>4, <2>5, SMTT(30)
<1> QED BY <1>6, SameStep, Zenon

(* A request whose prefill server cannot be used loses its receiver.       *)
LEMMA DRecvInv == ASSUME IInv, UNCHANGED pvars, DRecv PROVE IInv'
<1>1. PICK failed : xfer' = [r \in Reqs |-> IF r \in failed THEN cleanup_transfer(xfer[r])
                                           ELSE xfer[r]]
  BY Zenon DEF DRecv
<1>2. ASSUME NEW r \in Reqs PROVE ReqInv(preq[r], xfer'[r], 0..(NumChunks[r] - 1))
  <2>1. Shape(xfer[r])
    BY ShapeOf
  <2>2. SameSender(xfer[r], xfer[r]) /\ SameSender(xfer[r], cleanup_transfer(xfer[r]))
    BY <2>1, ReceiverStepSame, SMTT(30)
  <2>3. xfer'[r] = xfer[r] \/ xfer'[r] = cleanup_transfer(xfer[r])
    BY <1>1, Zenon
  <2>4. ReqInv(preq[r], xfer[r], 0..(NumChunks[r] - 1))
    BY DEF IInv, AllReqs
  <2>5. SameSender(xfer[r], xfer'[r])
    BY <2>2, <2>3, Zenon
  <2> QED BY <2>4, <2>5, SameSenderInv, Zenon
<1>3. AllReqs(preq, xfer')
  <2>1. xfer' = [r \in Reqs |-> xfer'[r]]
    BY <1>1
  <2>2. preq = [r \in Reqs |-> preq[r]]
    BY DEF IInv, AllReqs
  <2> QED BY <1>2, <2>1, <2>2, Zenon DEF AllReqs
<1> QED BY <1>3, SMTT(30) DEF IInv, pvars

(* A read that is done.                                                    *)
LEMMA EngineReadInv ==
  ASSUME IInv, NEW r \in Reqs, NEW c \in Chunks(r), EngineRead(r, c)
  PROVE  IInv'
<1> DEFINE y == [xfer[r] EXCEPT !.dst[c] = "done"]
<1>1. Shape(xfer[r]) /\ DOMAIN xfer = Reqs
  BY ShapeOf
<1>2. SameSender(xfer[r], y)
  BY <1>1 DEF SameSender, Shape, Record
<1>3. xfer' = [xfer EXCEPT ![r] = y] /\ UNCHANGED pvars
  BY DEF EngineRead, pvars
<1> HIDE DEF y
<1> QED BY <1>2, <1>3, SameStep, ZenonT(40)

(* Every step of the deployment keeps the invariant: one case for the      *)
(* clients, each loop, each device, the engine, the timers and the rest.   *)
LEMMA NextInv == IInv /\ [Next]_vars => IInv'
<1> SUFFICES ASSUME IInv, [Next]_vars PROVE IInv'
  BY SMTT(30)
<1>1. CASE UNCHANGED <<xfer, pvars>>
  BY <1>1, SMTT(30) DEF IInv, pvars
<1>2. CASE Clients
  <2>1. PICK r \in Reqs : \/ PArrive(r) \/ PAbort(r)
                          \/ UNCHANGED pvars /\ (DArrive(r) \/ DAbort(r))
    BY <1>2, SMTT(30) DEF Clients, OnP, OnD
  <2>2. CASE UNCHANGED pvars /\ DArrive(r)
    BY <1>1, <2>2, SMTT(30) DEF DArrive
  <2> QED BY <2>1, <2>2, PArriveInv, PAbortInv, DTransferSteps, SMTT(30)
<1>3. CASE PLoop
  <2>1. PRecv \/ (\E r \in Reqs : PSend(r)) \/ PLaunch \/ PResolve
    BY <1>3, SMTT(30) DEF PLoop, OnP
  <2> QED BY <2>1, PRecvInv, PSendInv, PLaunchInv, PResolveInv, SMTT(30)
<1>4. CASE DLoop
  <2>1. /\ UNCHANGED pvars
        /\ \/ DRecv \/ DBlocked \/ DLaunch \/ DResult
           \/ \E r \in Reqs : DAwait(r) \/ DAdmit(r) \/ DAdmitFails(r) \/ DDrain(r)
    BY <1>4, SMTT(30) DEF DLoop, OnD
  <2>2. CASE DBlocked \/ DLaunch \/ DResult
    <3>1. UNCHANGED xfer
      BY <2>2, ZenonT(40) DEF DBlocked, DLaunch, DResult
    <3> QED BY <1>1, <2>1, <3>1, SMTT(30)
  <2>3. CASE \E r \in Reqs : DAwait(r) \/ DAdmit(r) \/ DAdmitFails(r) \/ DDrain(r)
    BY <2>1, <2>3, DTransferSteps
  <2>4. CASE DRecv
    BY <2>1, <2>4, DRecvInv
  <2> QED BY <2>1, <2>2, <2>3, <2>4, SMTT(30)
<1>5. CASE OnP(PForward)
  BY <1>5, PForwardInv, SMTT(30) DEF OnP
<1>6. CASE OnD(DForward) \/ OnD(RegisterPrefill)
  <2>1. UNCHANGED pvars /\ UNCHANGED xfer
    BY <1>6, SMTT(30) DEF OnD, DForward, RegisterPrefill
  <2> QED BY <1>1, <2>1, SMTT(30)
<1>7. ASSUME NEW r \in Reqs, Engine(r) PROVE IInv'
  <2>1. PICK c \in Chunks(r) : \/ EngineRead(r, c)
                               \/ UNCHANGED pvars /\ EngineReadFails(r, c)
                               \/ UNCHANGED pvars /\ EngineSent(r, c)
    BY <1>7, SMTT(30) DEF Engine, Apart
  <2>2. c \in 0..(NumChunks[r] - 1)
    BY DEF Chunks
  <2> QED BY <2>1, <2>2, EngineReadInv, OtherTransferSteps, SettleInv, SMTT(30)
<1>8. ASSUME NEW r \in Reqs, Timers(r) PROVE IInv'
  <2>1. /\ UNCHANGED pvars
        /\ \/ DAge(r) \/ SenderTimeout(r) \/ ReceiverTimeout(r)
           \/ \E c \in 0..(NumChunks[r] - 1) : EngineSendExpires(r, c)
    BY <1>8, SMTT(30) DEF Timers, OnD, Apart, Chunks
  <2>2. CASE DAge(r)
    <3>1. UNCHANGED xfer
      BY <2>2, SMTT(30) DEF DAge
    <3> QED BY <1>1, <2>1, <3>1, SMTT(30)
  <2> QED BY <2>1, <2>2, SenderTimeoutInv, OtherTransferSteps, SettleInv, SMTT(30)
<1>9. ASSUME NEW r \in Reqs, Apart(LookupDone(r)) \/ Apart(RoomExpires(r)) PROVE IInv'
  <2>1. UNCHANGED pvars /\ (LookupDone(r) \/ RoomExpires(r))
    BY <1>9, SMTT(30) DEF Apart
  <2> QED BY <2>1, OtherTransferSteps, SMTT(30)
<1>10. CASE UNCHANGED vars
  BY <1>1, <1>10, SMTT(30) DEF vars
<1> QED BY <1>2, <1>3, <1>4, <1>5, <1>6, <1>7, <1>8, <1>9, <1>10, SMTT(30) DEF Next

(* What the engine may read was started by the sender, the sender's pages  *)
(* are the request's, and a request without sender has nothing registered. *)
LEMMA InvHolds == IInv => SourcePagesHeld
<1> SUFFICES ASSUME IInv, NEW r \in Reqs, NEW c \in Chunks(r), xfer[r].src[c] = "registered"
             PROVE  xfer[r].snd.pages[c + 1] \in Range(preq[r].pages)
  BY DEF SourcePagesHeld
<1> DEFINE x == xfer[r]
           s == x.snd.pages
<1>1. ReqInv(preq[r], x, 0..(NumChunks[r] - 1)) /\ c \in 0..(NumChunks[r] - 1)
  BY DEF IInv, AllReqs, Chunks
<1>2. SenderInv(x, 0..(NumChunks[r] - 1), AnyPage)
  BY <1>1, SMTT(30) DEF ReqInv
<1>3. c \in x.snd.started /\ c < Len(s) /\ c \in Nat /\ s \in Seq(AnyPage) /\ c \in DOMAIN x.src
  BY <1>1, <1>2, ZenonT(40) DEF SenderInv, Senders
<1>4. preq[r].sender
  BY <1>1, <1>3 DEF ReqInv, NoneRegistered
<1>5. Range(s) \subseteq Range(preq[r].pages)
  BY <1>1, <1>4, SMTT(30) DEF ReqInv
<1>6. c + 1 \in DOMAIN s
  BY <1>3, SMTT(30)
<1> QED BY <1>5, <1>6, ZenonT(40) DEF Range

(* SourcePagesHeld in every reachable state of the deployment: a page P    *)
(* registered with the engine stays with its request until the engine has  *)
(* let go of it, through every order of aborts, timeouts, failed handoffs, *)
(* polls and chunk results.                                                *)
THEOREM SourceHeld == Spec => []SourcePagesHeld
BY InitInv, NextInv, InvHolds, PTL DEF Spec
==============================================================================
