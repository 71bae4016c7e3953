----------------------------- MODULE KVTransfer -----------------------------
(***************************************************************************)
(* The transfer of one request's KV cache from a prefill server P to a     *)
(* decode server D, chunk by chunk, over the Raiden backend: the sender on *)
(* P, the receiver on D, the metadata both exchange through the bootstrap  *)
(* server, and the native engine that moves the pages.                     *)
(*                                                                         *)
(* Everything that belongs to one transfer is a record, and the methods of *)
(* sender and receiver are operators on it.  A method that may fail yields *)
(* the set of its outcomes.  Each outcome says how many faults of the      *)
(* environment it needs, so that a model can bound them.                   *)
(*                                                                         *)
(*   room  the bundle of chunks the bootstrap server has for the room      *)
(*   src   the engine's state of each chunk on P                           *)
(*   dst   the engine's state of each chunk on D                           *)
(*   snd   RaidenTransferKVSender                                          *)
(*   rcv   RaidenTransferKVReceiver                                        *)
(*   look  the metadata lookup D has under way on its executor             *)
(*                                                                         *)
(* A chunk is one page, and its page offset is its index; pages are those  *)
(* the engine was given on either side.  Reasons, timers and byte counts   *)
(* are left out.                                                           *)
(***************************************************************************)
EXTENDS Integers, FiniteSets, Sequences, FiniteSetsExt

CONSTANT Window   \* CHUNK_TRANSFER_WINDOW

ASSUME WindowAssumption == Window \in Nat \ {0}

Terminal == {"SUCCESS", "FAILED"}

(* No metadata: the bundle is created with its first chunk.                *)
NoBundle == [chunks |-> {}, num |-> 0]

(* The lookup: none, submitted, or answered with a bundle.                 *)
Idle  == [st |-> "idle", found |-> NoBundle]
Asked == [st |-> "asked", found |-> NoBundle]
Found(bundle) == [st |-> "found", found |-> bundle]

NewSender == [st |-> "WAITING_FOR_INPUT", pages |-> <<>>, started |-> {},
              pending |-> <<>>, num |-> 0, fail |-> FALSE, timed |-> FALSE]

NewReceiver(bundle, pages) ==
  [st |-> "WAITING_FOR_INPUT", pages |-> pages, started |-> {},
   recs |-> bundle.chunks, num |-> bundle.num, fail |-> FALSE]

(* The transfer of a request with n chunks before either side began.       *)
NewTransfer(n) ==
  [room |-> NoBundle, look |-> Idle,
   src |-> [c \in 0..(n - 1) |-> "idle"], dst |-> [c \in 0..(n - 1) |-> "idle"],
   snd |-> [NewSender EXCEPT !.st = "NONE"],
   rcv |-> [NewReceiver(NoBundle, <<>>) EXCEPT !.st = "NONE"]]

------------------------------------------------------------------------------
(* The registry of transfers in the bootstrap server.                      *)

(* Mutation: no chunk creates a bundle.                                    *)
RejectsAll(x, c) == x.room = NoBundle

(* register_transfer creates a bundle from chunk zero only.                *)
Rejects(x, c) == x.room = NoBundle /\ c # 0

(* The chunks C become visible; the final one carries the chunk count.     *)
register_transfer(x, C) ==
  [x EXCEPT !.room = [chunks |-> @.chunks \cup C,
                      num |-> IF x.snd.num - 1 \in C THEN x.snd.num ELSE @.num]]

(* pop_room with the identity of the transfer.                             *)
pop_room(x) == [x EXCEPT !.room = NoBundle]

------------------------------------------------------------------------------
(* The sender.                                                             *)

(* Both sides leave a terminal state never, and take the bundle with them. *)
SenderFinish(x, st) ==
  IF x.snd.st \in Terminal THEN x
  ELSE pop_room([x EXCEPT !.snd.st = st, !.snd.timed = FALSE])

(* Mutation: an abort does not wait for the engine.                        *)
SenderAbortsAtOnce(x) ==
  IF x.snd.st \in Terminal THEN x ELSE SenderFinish([x EXCEPT !.snd.fail = TRUE], "FAILED")

(* request_abort of a transfer the engine works on only notes the failure: *)
(* the pages belong to the engine until it is done with them.              *)
SenderAbort(x) ==
  IF x.snd.st \in Terminal \/ x.snd.fail THEN x
  ELSE LET y == [x EXCEPT !.snd.fail = TRUE]
       IN  IF x.snd.st = "TRANSFERRING" THEN y ELSE SenderFinish(y, "FAILED")

(* Chunks that hold one of the engine's slots.                             *)
Active(x) == {c \in x.snd.started : x.src[c] # "done"}

(* The next n waiting chunks.                                              *)
Upcoming(x, n) == {x.snd.pending[i] : i \in 1..n}

(* register_read of the next n waiting chunks.                             *)
register_read(x, n) ==
  IF n = 0 THEN x
  ELSE [x EXCEPT !.src = [c \in DOMAIN @ |->
                            IF c \in Upcoming(x, n) THEN "registered" ELSE @[c]],
                 !.snd.started = @ \cup Upcoming(x, n),
                 !.snd.pending = SubSeq(@, n + 1, Len(@)),
                 !.snd.st = "TRANSFERRING",
                 !.snd.timed = TRUE]

(* The first n are registered and published.                               *)
Handed(x, n) == register_transfer(register_read(x, n), Upcoming(x, n))

(* How many chunks the window lets start now.                              *)
Room(x) == Max({0, Min({Len(x.snd.pending), Window - Cardinality(Active(x))})})

(* _pump_pending_chunks starts chunks until the window is full.  Chunk n   *)
(* may be declined by the engine or fail to be published: the first n - 1  *)
(* are out then, n is with the engine in the second case, and the sender   *)
(* is told to abort.                                                       *)
Pump(x) ==
  LET idle == x.snd.st \in Terminal \/ x.snd.fail \/ Room(x) = 0
      gone == Rejects(x, x.snd.pending[1])
      upto == IF gone THEN 1 ELSE Room(x)
      declined(n)    == SenderAbort(Handed(x, n - 1))
      unpublished(n) ==
        SenderAbort(register_transfer(register_read(x, n), Upcoming(x, n - 1)))
  IN  IF idle THEN {[x |-> x, ok |-> TRUE, faults |-> 0]}
      ELSE (IF gone THEN {} ELSE {[x |-> Handed(x, Room(x)), ok |-> TRUE, faults |-> 0]})
           \cup {[x |-> declined(n), ok |-> FALSE, faults |-> 1] : n \in 1..upto}
           \cup {[x |-> unpublished(n), ok |-> FALSE, faults |-> IF gone THEN 0 ELSE 1] :
                    n \in 1..upto}

(* send_chunk queues a chunk, computed into page p, and fills the window.  *)
SendChunk(x, c, p, is_final) ==
  IF \/ x.snd.st \notin {"WAITING_FOR_INPUT", "TRANSFERRING"}
     \/ x.snd.fail \/ x.snd.num # 0
  THEN {[x |-> x, ok |-> FALSE, faults |-> 0]}
  ELSE Pump([x EXCEPT !.snd.pending = Append(@, c),
                      !.snd.pages = Append(@, p),
                      !.snd.num = IF is_final THEN c + 1 ELSE 0])

(* Mutation: a failed read settles nothing.                                *)
SettledWhenDone(x) == \A c \in x.snd.started : x.src[c] = "done"

(* The engine is through with every chunk it was given.                    *)
Settled(x) == \A c \in x.snd.started : x.src[c] \in {"done", "failed"}

(* poll of a sender: failed reads abort the transfer, finished ones make   *)
(* room for waiting chunks, and the state becomes terminal only once the   *)
(* engine has settled every chunk it was given.                            *)
SenderPoll(x) ==
  LET seen == IF \E c \in x.snd.started : x.src[c] = "failed"
              THEN SenderAbort(x) ELSE x
      done(y) == /\ y.snd.pending = <<>> /\ y.snd.num # 0
                 /\ y.snd.started = 0..(y.snd.num - 1)
      settle(y) == IF ~Settled(y) THEN y
                   ELSE IF y.snd.fail THEN SenderFinish(y, "FAILED")
                   ELSE IF done(y) THEN SenderFinish(y, "SUCCESS")
                   ELSE IF y.snd.pending # <<>> THEN y
                   ELSE [y EXCEPT !.snd.timed = FALSE]
  IN  IF x.snd.st # "TRANSFERRING" THEN {[x |-> x, faults |-> 0]}
      ELSE {[x |-> settle(o.x), faults |-> o.faults] : o \in Pump(seen)}

------------------------------------------------------------------------------
(* The receiver.                                                           *)

(* D drops its lookup with the transfer.                                   *)
cleanup_transfer(x) == pop_room([x EXCEPT !.look = Idle])

ReceiverFinish(x, st) ==
  IF x.rcv.st \in Terminal THEN x
  ELSE cleanup_transfer([x EXCEPT !.rcv.st = st])

(* Mutation: an abort does not wait for the engine.                        *)
ReceiverAbortsAtOnce(x) ==
  IF x.rcv.st \in Terminal THEN x ELSE ReceiverFinish([x EXCEPT !.rcv.fail = TRUE], "FAILED")

(* request_abort of a receiver: the same with the engine's reads.          *)
ReceiverAbort(x) ==
  IF x.rcv.st \in Terminal \/ x.rcv.fail THEN x
  ELSE LET y == [x EXCEPT !.rcv.fail = TRUE]
       IN  IF x.rcv.st = "TRANSFERRING" THEN y ELSE ReceiverFinish(y, "FAILED")

(* The lookup has come back, with or without a bundle.                     *)
Answered(x) == x.look.st = "found"

(* poll_decode_metadata, for a request D has no receiver for yet.          *)
MetadataReady(x) == Answered(x) /\ 0 \in x.look.found.chunks

poll_decode_metadata(x) ==
  [x EXCEPT !.look = IF x.look = Idle THEN Asked
                     ELSE IF Answered(x) /\ ~MetadataReady(x) THEN Idle
                     ELSE @]

(* try_start_decode builds the receiver from the metadata found.           *)
try_start_decode(x, pages) ==
  [x EXCEPT !.rcv = NewReceiver(x.look.found, pages), !.look = Idle]

(* The chunks of an answered lookup are merged into the known ones.        *)
Merge(x) ==
  IF ~Answered(x) THEN x
  ELSE [x EXCEPT !.rcv.recs = @ \cup x.look.found.chunks,
                 !.rcv.num = IF x.look.found.num # 0 THEN x.look.found.num ELSE @,
                 !.look = Idle]

(* A further lookup is submitted while chunks are missing.                 *)
AskAgain(x) ==
  LET complete == x.rcv.num # 0 /\ 0..(x.rcv.num - 1) \subseteq x.rcv.recs
  IN  [x EXCEPT !.look = IF ~complete /\ @ = Idle THEN Asked ELSE @]

(* start_read of the chunks C.                                             *)
start_read(x, C) ==
  [x EXCEPT !.dst = [c \in DOMAIN @ |-> IF c \in C THEN "reading" ELSE @[c]],
            !.rcv.started = @ \cup C]

(* The n lowest chunks that are known and not started.                     *)
Lowest(x, n) ==
  LET new == x.rcv.recs \ x.rcv.started
  IN  {c \in new : Cardinality({d \in new : d < c}) < n}

Reading(x) == {c \in x.rcv.started : x.dst[c] = "reading"}

Startable(x) == Max({0, Min({Cardinality(x.rcv.recs \ x.rcv.started),
                             Window - Cardinality(Reading(x))})})

(* _discover_and_start_chunks.  The engine may refuse a read, which leaves *)
(* the earlier ones running and aborts the transfer.                       *)
Discover(x) ==
  LET m == Merge(x)
      failed == \E c \in m.rcv.started : m.dst[c] = "failed"
  IN  IF x.rcv.fail THEN {[x |-> x, faults |-> 0]}
      ELSE IF failed /\ m.rcv.recs # m.rcv.started
        THEN {[x |-> ReceiverAbort(m), faults |-> 0]}
      ELSE {[x |-> AskAgain(start_read(m, Lowest(m, Startable(m)))), faults |-> 0]}
           \cup {[x |-> ReceiverAbort(start_read(m, Lowest(m, n))), faults |-> 1] :
                   n \in 0..(Startable(m) - 1)}

(* Mutation: the chunks known so far are taken for all.                    *)
CompleteAsKnown(x) == x.rcv.started = x.rcv.recs

(* All chunks of a transfer whose number of chunks is known are started.   *)
Complete(x) == x.rcv.num # 0 /\ x.rcv.started = 0..(x.rcv.num - 1)

(* A poll starts a receiver that has its metadata, takes over what the     *)
(* engine reports, and ends it once no read of it is running.              *)
Begun(x) ==
  IF x.rcv.st = "WAITING_FOR_INPUT" THEN [x EXCEPT !.rcv.st = "TRANSFERRING"] ELSE x

Seen(x) ==
  IF \E c \in x.rcv.started : x.dst[c] = "failed" THEN ReceiverAbort(x) ELSE x

Ended(x) ==
  IF Reading(x) # {} THEN x
  ELSE IF x.rcv.fail THEN ReceiverFinish(x, "FAILED")
  ELSE IF Complete(x) THEN ReceiverFinish(x, "SUCCESS")
  ELSE x

(* SUCCESS needs every chunk of a known number of chunks; FAILED waits for *)
(* the reads that are still running.                                       *)
ReceiverPoll(x) ==
  IF Begun(x).rcv.st # "TRANSFERRING" THEN {[x |-> x, faults |-> 0]}
  ELSE {[x |-> Ended(Seen(o.x)), faults |-> o.faults] : o \in Discover(Begun(x))}
==============================================================================
