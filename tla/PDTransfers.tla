----------------------------- MODULE PDTransfers -----------------------------
(***************************************************************************)
(* The transfers of all requests between the two servers, and what happens *)
(* to them outside of the servers' loops: the steps of the native engine,  *)
(* the metadata lookups of D's executor, and the reapers that time         *)
(* transfers out.                                                          *)
(***************************************************************************)
EXTENDS KVTransfer

CONSTANTS
  Reqs,          \* the requests the router sends to both servers
  NumChunks,     \* chunks, and so pages, of each prompt
  Abortable,     \* requests a client may abort
  Impatient,     \* requests whose transfers may time out
  MaxFaults,     \* bound on faults of the engine, the network and the host
  None

ASSUME TransfersAssumption ==
  /\ NumChunks \in [Reqs -> Nat \ {0}]
  /\ Abortable \subseteq Reqs /\ Impatient \subseteq Reqs
  /\ MaxFaults \in Nat /\ None \notin Reqs

VARIABLES
  xfer,          \* the transfer of each request
  faults         \* faults so far

TInit ==
  /\ faults = 0
  /\ xfer = [r \in Reqs |-> NewTransfer(NumChunks[r])]

------------------------------------------------------------------------------
(* The engine.                                                             *)

(* done_sending of P's engine.                                             *)
EngineSent(r, c) ==
  /\ xfer[r].src[c] = "registered" /\ xfer[r].dst[c] = "done"
  /\ xfer' = [xfer EXCEPT ![r].src[c] = "done"]
  /\ UNCHANGED faults

(* A read fails, by itself or because P no longer offers the page.         *)
EngineReadFails(r, c) ==
  /\ xfer[r].dst[c] = "reading"
  /\ \/ xfer[r].src[c] # "registered" /\ UNCHANGED faults
     \/ faults < MaxFaults /\ faults' = faults + 1
  /\ xfer' = [xfer EXCEPT ![r].dst[c] = "failed"]

(* P's engine gives up on a page that nobody has read in time.             *)
EngineSendExpires(r, c) ==
  /\ r \in Impatient /\ xfer[r].src[c] = "registered" /\ xfer[r].dst[c] # "done"
  /\ xfer' = [xfer EXCEPT ![r].src[c] = "failed"]
  /\ UNCHANGED faults

------------------------------------------------------------------------------
(* The other threads.                                                      *)

(* D's executor has looked the metadata up, or has failed to.              *)
LookupDone(r) ==
  /\ xfer[r].look = Asked
  /\ \/ xfer' = [xfer EXCEPT ![r].look = Found(xfer[r].room)] /\ UNCHANGED faults
     \/ /\ faults < MaxFaults /\ faults' = faults + 1
        /\ xfer' = [xfer EXCEPT ![r].look = Found(NoBundle)]

(* reap_once on P: a started sender has waited too long for its peer.      *)
SenderTimeout(r) ==
  LET snd == xfer[r].snd
  IN  /\ r \in Impatient /\ snd.st = "TRANSFERRING" /\ snd.timed /\ ~snd.fail
      /\ xfer' = [xfer EXCEPT ![r] = SenderAbort(@)]
      /\ UNCHANGED faults

(* reap_once on D.                                                         *)
ReceiverTimeout(r) ==
  LET rcv == xfer[r].rcv
  IN  /\ r \in Impatient /\ rcv.st = "TRANSFERRING" /\ ~rcv.fail
      /\ xfer' = [xfer EXCEPT ![r] = ReceiverAbort(@)]
      /\ UNCHANGED faults

(* The bootstrap server forgets the metadata: its time is over.            *)
RoomExpires(r) ==
  /\ xfer[r].room # NoBundle /\ faults < MaxFaults /\ faults' = faults + 1
  /\ xfer' = [xfer EXCEPT ![r] = pop_room(@)]
==============================================================================
