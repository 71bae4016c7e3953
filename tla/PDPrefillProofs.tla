---------------------------- MODULE PDPrefillProofs ----------------------------
(***************************************************************************)
(* P and the sending side of the transfers keep the pages the engine may   *)
(* read, for any requests, prompts, pools, windows and number of faults.   *)
(*                                                                         *)
(* The argument follows the ownership of the pages.  The engine reads only *)
(* chunks the sender started; a sender becomes terminal only when the      *)
(* engine has settled them; P releases pages of a request that has a       *)
(* sender only when the sender is terminal, and of one that has none only  *)
(* when the engine was given nothing.  All pages the sender knows are      *)
(* pages of the request, because a forward's page stays with the request   *)
(* until the request is finished, and chunks are handed over only before.  *)
(***************************************************************************)
EXTENDS PDPrefill, KVTransferProofs

(* The pages Launch may take: those of the pool, whatever is free.         *)
AnyPage == {Min(S) : S \in SUBSET PPages}

PReqs ==
  [arrived : BOOLEAN, pages : Seq(AnyPage), chunk_index : Nat, is_chunked : Int,
   sender : BOOLEAN, queued : BOOLEAN, to_finish : BOOLEAN, finished : BOOLEAN,
   deferred : BOOLEAN, answer : Seq({"done", "abort", "error"})]

(* The request q of P and its transfer.                                    *)
ReqInv(q, x, C) ==
  /\ q \in PReqs /\ SenderInv(x, C, AnyPage)
  /\ q.sender => /\ Range(x.snd.pages) \subseteq Range(q.pages)
                 /\ x.snd.started # {}
                 /\ ~x.snd.fail => q.chunk_index = Len(x.snd.pages)
  /\ ~q.sender => NoneRegistered(x)
  /\ ~q.sender /\ ~q.finished => q.chunk_index = 0
  /\ q.deferred => q.finished /\ ~q.sender
  /\ q.queued => q.sender

AllReqs(reqs, xs) ==
  /\ reqs = [r \in Reqs |-> reqs[r]] /\ xs = [r \in Reqs |-> xs[r]]
  /\ \A r \in Reqs : ReqInv(reqs[r], xs[r], 0..(NumChunks[r] - 1))

(* A launched forward writes a page of its request.                        *)
ResultInv(h, reqs) ==
  /\ Record(h, {"req", "chunk", "is_final", "page", "ran"})
  /\ h.page \in AnyPage
  /\ h.req \in Reqs => reqs[h.req].finished \/ h.page \in Range(reqs[h.req].pages)

ResultsInv(rs, reqs) ==
  /\ rs \in Seq(Range(rs))
  /\ \A i \in 1..Len(rs) : ResultInv(rs[i], reqs)

(* The inductive invariant of P.                                           *)
IInv ==
  /\ AllReqs(preq, xfer)
  /\ ResultsInv(results, preq)
  /\ psweep \subseteq {r \in Reqs : preq[r].queued}
  /\ psweep # {} <=> ppc = "send"
  /\ ppc = "resolve" => results # <<>>

(* What no step takes from a request: a finished one stays finished, and   *)
(* only a finished one loses pages.                                        *)
Keeps(q, p) ==
  /\ q.finished => p.finished
  /\ p.finished \/ Range(q.pages) \subseteq Range(p.pages)

AllKeep(f, g) == \A r \in Reqs : Keeps(f[r], g[r])
------------------------------------------------------------------------------
(* One request.                                                            *)

(* A step that leaves the sending side of its transfer alone.              *)
LEMMA SameSenderInv ==
  ASSUME NEW q, NEW x, NEW y, NEW C, ReqInv(q, x, C), SameSender(x, y)
  PROVE  ReqInv(q, y, C)
<1>1. SenderInv(y, C, AnyPage)
  BY SameSenderKeeps DEF ReqInv
<1> QED BY <1>1 DEF ReqInv, SameSender, NoneRegistered

(* request_abort of its sender.                                            *)
LEMMA ReqAbort ==
  ASSUME NEW q, NEW x, NEW C, ReqInv(q, x, C)
  PROVE  ReqInv(q, SenderAbort(x), C)
<1> DEFINE y == SenderAbort(x)
<1>1. /\ SenderInv(y, C, AnyPage) /\ y.src = x.src
      /\ y.snd.pages = x.snd.pages /\ y.snd.started = x.snd.started
      /\ x.snd.fail => y.snd.fail
  BY AbortInv DEF ReqInv
<1> HIDE DEF y
<1>2. NoneRegistered(x) => NoneRegistered(y)
  BY <1>1 DEF NoneRegistered
<1>3. ReqInv(q, y, C)
  BY <1>1, <1>2 DEF ReqInv
<1> QED BY <1>3 DEF y

(* poll of its sender, and what follows when that is terminal.             *)
LEMMA ReqPoll ==
  ASSUME NEW q, NEW x, NEW C, ReqInv(q, x, C), q.sender, NEW o \in SenderPoll(x)
  PROVE  /\ ReqInv(q, o.x, C)
         /\ o.x.snd.st \in Terminal =>
              /\ ReqInv(OnTerminal(q, o.x.snd.st), o.x, C)
              /\ Keeps(q, OnTerminal(q, o.x.snd.st))
<1> DEFINE y == o.x
<1>1. /\ SenderInv(y, C, AnyPage) /\ y.snd.pages = x.snd.pages
      /\ x.snd.started \subseteq y.snd.started
      /\ x.snd.fail => y.snd.fail
  BY PollInv DEF ReqInv
<1> HIDE DEF y
<1>2. ReqInv(q, y, C)
  BY <1>1 DEF ReqInv
<1>3. ASSUME y.snd.st \in Terminal
      PROVE  /\ ReqInv(OnTerminal(q, y.snd.st), y, C)
             /\ Keeps(q, OnTerminal(q, y.snd.st))
  <2> DEFINE k == Outcome(q, y.snd.st)
             p == OnTerminal(q, y.snd.st)
  <2>1. k \in {"done", "abort", "error"}
    BY DEF Outcome
  <2>2. q \in PReqs
    BY DEF ReqInv
  <2> DEFINE a == Append(q.answer, k)
  <2>3. p = [q EXCEPT !.finished = TRUE, !.to_finish = FALSE, !.answer = a,
                      !.pages = <<>>, !.deferred = FALSE, !.sender = FALSE, !.queued = FALSE]
    BY <2>2 DEF OnTerminal, Release, Finish, Answer, PReqs
  <2> HIDE DEF k, p
  <2>4. a \in Seq({"done", "abort", "error"}) /\ <<>> \in Seq(AnyPage)
    BY <2>1, <2>2 DEF PReqs
  <2> HIDE DEF a
  <2>5. p \in PReqs /\ ~p.sender /\ p.finished /\ ~p.deferred /\ ~p.queued
    BY <2>4, <2>2, <2>3, Zenon DEF PReqs
  <2>6. NoneRegistered(y)
    BY <1>1, <1>3 DEF SenderInv
  <2>7. ReqInv(p, y, C) /\ Keeps(q, p)
    BY <1>1, <2>5, <2>6 DEF ReqInv, Keeps
  <2> QED BY <2>7 DEF p
<1> QED BY <1>2, <1>3 DEF y

(* _process_pending_chunked_aborts.                                        *)
LEMMA ReqConsumed ==
  ASSUME NEW q, NEW x, NEW C, ReqInv(q, x, C)
  PROVE  ReqInv(ConsumedReq(q), x, C) /\ Keeps(q, ConsumedReq(q))
<1>1. CASE q.sender
  BY <1>1 DEF ConsumedReq, Keeps
<1>2. CASE ~q.sender
  <2> DEFINE p == ConsumedReq(q)
  <2>1. q \in PReqs
    BY DEF ReqInv
  <2> DEFINE a == Append(q.answer, "abort")
  <2>2. p = [q EXCEPT !.pages = <<>>, !.deferred = FALSE, !.finished = TRUE,
                      !.to_finish = FALSE, !.answer = a]
    BY <1>2, <2>1 DEF ConsumedReq, Release, Answer, PReqs
  <2>3. a \in Seq({"done", "abort", "error"}) /\ <<>> \in Seq(AnyPage)
    BY <2>1 DEF PReqs
  <2> HIDE DEF p, a
  <2>4. /\ p \in PReqs /\ p.finished /\ ~p.deferred
        /\ p.sender = q.sender /\ p.queued = q.queued
    BY <2>1, <2>2, <2>3, Zenon DEF PReqs
  <2>5. ReqInv(p, x, C) /\ Keeps(q, p)
    BY <1>2, <2>4 DEF ReqInv, Keeps
  <2> QED BY <2>5 DEF p
<1> QED BY <1>1, <1>2

(* Pages are released now or later, of a request that is finished.         *)
LEMMA ReqReleased ==
  ASSUME NEW q, NEW x, NEW C, ReqInv(q, x, C), q.finished, ~q.sender, NEW busy \in BOOLEAN
  PROVE  ReqInv(Release(q, busy), x, C) /\ Keeps(q, Release(q, busy))
<1> DEFINE p == Release(q, busy)
<1>1. q \in PReqs /\ <<>> \in Seq(AnyPage)
  BY DEF ReqInv
<1>2. /\ p \in PReqs /\ p.finished = q.finished
      /\ p.sender = q.sender /\ p.queued = q.queued
  BY <1>1, Zenon DEF Release, PReqs
<1> HIDE DEF p
<1>3. ReqInv(p, x, C) /\ Keeps(q, p)
  BY <1>2 DEF ReqInv, Keeps
<1> QED BY <1>3 DEF p

(* A request without sender is answered, its pages stay for now.           *)
LEMMA ReqFinished ==
  ASSUME NEW q, NEW x, NEW C, q \in PReqs, SenderInv(x, C, AnyPage), NoneRegistered(x),
         ~q.sender, ~q.queued, NEW k \in {"abort", "error"}
  PROVE  LET p == Release(Finish(q, k), TRUE)
         IN  ReqInv(p, x, C) /\ Keeps(q, p) /\ p.deferred
<1> DEFINE a == Append(q.answer, k)
           p == Release(Finish(q, k), TRUE)
<1>1. a \in Seq({"done", "abort", "error"})
  BY DEF PReqs
<1>2. p = [q EXCEPT !.finished = TRUE, !.to_finish = FALSE, !.answer = a, !.deferred = TRUE]
  BY DEF Release, Finish, Answer, PReqs
<1> HIDE DEF a, p
<1>3. /\ p \in PReqs /\ p.finished /\ p.deferred
      /\ p.sender = q.sender /\ p.queued = q.queued
  BY <1>1, <1>2, Zenon DEF PReqs
<1>4. ReqInv(p, x, C) /\ Keeps(q, p)
  BY <1>3 DEF ReqInv, Keeps
<1> QED BY <1>3, <1>4, Zenon DEF p

(* _raiden_handoff_chunk.                                                  *)
LEMMA ReqHandoff ==
  ASSUME NEW q, NEW x, NEW C, ReqInv(q, x, C), ~q.finished,
         NEW h, h.page \in AnyPage, h.page \in Range(q.pages),
         NEW o \in Handoff(q, x, h)
  PROVE  ReqInv(o.q, o.x, C) /\ Keeps(q, o.q)
<1> DEFINE y == IF q.sender THEN x ELSE [x EXCEPT !.snd = NewSender]
           s == [q EXCEPT !.sender = TRUE]
           good == [s EXCEPT !.chunk_index = @ + 1, !.queued = TRUE]
           kept == [s EXCEPT !.queued = TRUE]
           lost == [q EXCEPT !.sender = FALSE]
           after(v) == IF v.ok THEN good
                       ELSE IF v.x.snd.started # {} THEN kept
                       ELSE Release(Finish(lost, "error"), TRUE)
<1>1. q \in PReqs /\ q.chunk_index \in Nat
  BY DEF ReqInv, PReqs
<1>2. CASE q.sender /\ x.snd.fail
  <2>1. o = [q |-> q, x |-> x, retire |-> TRUE, faults |-> 0]
    BY <1>2 DEF Handoff
  <2> QED BY <2>1 DEF Keeps
<1>3. CASE ~(q.sender /\ x.snd.fail)
  <2>1. PICK v \in SendChunk(y, q.chunk_index, h.page, h.is_final) :
               o = [q |-> after(v), x |-> v.x, retire |-> ~v.ok, faults |-> v.faults]
    BY <1>3, Zenon DEF Handoff
  <2>2. o.q = after(v) /\ o.x = v.x
    BY <2>1
  <2>3. /\ SenderInv(y, C, AnyPage) /\ q.chunk_index = Len(y.snd.pages)
        /\ Range(y.snd.pages) \subseteq Range(q.pages)
        /\ q.sender => y.snd.started # {}
    <3>1. CASE q.sender
      BY <1>3, <3>1 DEF ReqInv
    <3>2. CASE ~q.sender
      <4>1. NoneRegistered(x) /\ SenderInv(x, C, AnyPage) /\ q.chunk_index = 0
        BY <3>2 DEF ReqInv
      <4>2. /\ NewSender \in Senders(AnyPage) /\ NewSender.pages = <<>>
            /\ NewSender.started = {} /\ NewSender.pending = <<>>
            /\ NewSender.st = "WAITING_FOR_INPUT"
        BY DEF NewSender, Senders
      <4>3. Shape(y) /\ y.snd = NewSender /\ y.src = x.src
        BY <3>2, <4>1 DEF SenderInv, Shape, Record
      <4> HIDE DEF y
      <4>4. IsFiniteSet(y.snd.started)
        BY <4>2, <4>3, FS_EmptySet, Zenon
      <4>5. SenderInv(y, C, AnyPage)
        BY <4>1, <4>2, <4>3, <4>4 DEF SenderInv, NoneRegistered, Terminal
      <4>6. Len(y.snd.pages) = 0 /\ Range(y.snd.pages) = {}
        BY <4>2, <4>3 DEF Range
      <4> QED BY <3>2, <4>1, <4>5, <4>6
    <3> QED BY <3>1, <3>2
  <2> HIDE DEF y
  <2>4. /\ SenderInv(v.x, C, AnyPage)
        /\ v.x.snd.pages = y.snd.pages \/ v.x.snd.pages = Append(y.snd.pages, h.page)
        /\ v.ok /\ ~v.x.snd.fail => Len(v.x.snd.pages) = q.chunk_index + 1
        /\ ~v.ok /\ ~v.x.snd.fail => v.x.snd.pages = y.snd.pages
        /\ v.ok => v.x.snd.started # {}
    <3>1. ~y.snd.fail => q.chunk_index = Len(y.snd.pages)
      BY <2>3
    <3> QED BY <1>1, <2>3, <3>1, SendChunkInv, SMTT(30)
  <2>5. Range(v.x.snd.pages) \subseteq Range(q.pages)
    <3>1. y.snd.pages \in Seq(AnyPage)
      BY <2>3 DEF SenderInv, Senders
    <3>2. Range(Append(y.snd.pages, h.page)) = Range(y.snd.pages) \cup {h.page}
      BY <3>1, RangeOfAppend
    <3>3. Range(v.x.snd.pages) \in {Range(y.snd.pages), Range(y.snd.pages) \cup {h.page}}
      BY <2>4, <3>2, Zenon
    <3> QED BY <2>3, <3>3
  <2>6. CASE v.ok
    <3> DEFINE n == q.chunk_index + 1
    <3>1. n \in Nat
      BY <1>1
    <3>2. good = [q EXCEPT !.sender = TRUE, !.chunk_index = n, !.queued = TRUE]
      BY <1>1 DEF PReqs
    <3> HIDE DEF n
    <3>3. /\ good \in PReqs /\ good.sender /\ good.pages = q.pages
          /\ good.finished = q.finished /\ good.deferred = q.deferred
          /\ good.chunk_index = n
      <4> HIDE DEF good
      <4> QED BY <1>1, <3>1, <3>2, Zenon DEF PReqs
    <3>4. ~q.deferred
      BY DEF ReqInv
    <3>5. o.q = good
      BY <2>2, <2>6
    <3> HIDE DEF good
    <3>6. good.queued
      BY <1>1, SMTT(30) DEF PReqs, good
    <3>7. ReqInv(good, v.x, C) /\ Keeps(q, good)
      BY <2>4, <2>5, <2>6, <3>3, <3>4, <3>6, SMTT(30) DEF ReqInv, Keeps, n
    <3> QED BY <2>2, <3>5, <3>7, Zenon
  <2>7. CASE ~v.ok /\ v.x.snd.started # {}
    <3>1. /\ kept \in PReqs /\ kept.sender /\ kept.pages = q.pages /\ kept.queued
          /\ kept.finished = q.finished /\ kept.deferred = q.deferred
          /\ kept.chunk_index = q.chunk_index
      BY <1>1, ZenonT(40) DEF PReqs
    <3>2. ~q.deferred
      BY DEF ReqInv
    <3>3. o.q = kept
      BY <2>2, <2>7
    <3> HIDE DEF kept
    <3>4. ReqInv(kept, v.x, C) /\ Keeps(q, kept)
      BY <2>3, <2>4, <2>5, <2>7, <3>1, <3>2, SMTT(30) DEF ReqInv, Keeps
    <3> QED BY <2>2, <3>3, <3>4, Zenon
  <2>8. CASE ~v.ok /\ v.x.snd.started = {}
    <3>1. NoneRegistered(v.x)
      BY <2>4, <2>8 DEF SenderInv, NoneRegistered
    <3>2. CASE q.sender
      <4>1. y = x
        BY <3>2, SMTT(30) DEF y
      <4>2. x.snd.started \subseteq v.x.snd.started
        BY <1>1, <2>3, <4>1, SendChunkInv
      <4> QED BY <2>3, <2>8, <3>2, <4>1, <4>2
    <3>3. CASE ~q.sender
      <4>1. lost \in PReqs /\ ~lost.sender /\ lost = q
        BY <1>1, <3>3, Zenon DEF PReqs
      <4>2. ~q.queued
        BY <3>3 DEF ReqInv
      <4>3. o.q = Release(Finish(lost, "error"), TRUE)
        BY <2>2, <2>8
      <4>4. /\ ReqInv(Release(Finish(q, "error"), TRUE), v.x, C)
            /\ Keeps(q, Release(Finish(q, "error"), TRUE))
        BY <1>1, <2>4, <3>1, <3>3, <4>2, "error" \in {"abort", "error"}, ReqFinished, Zenon
      <4> QED BY <2>2, <4>1, <4>3, <4>4, Zenon
    <3> QED BY <3>2, <3>3, SMTT(30)
  <2> QED BY <2>6, <2>7, <2>8
<1> QED BY <1>2, <1>3

(* process_prefill_chunk for a resolved forward, with the release of pages *)
(* that was put off.                                                       *)
LEMMA ReqChunk ==
  ASSUME NEW q, NEW x, NEW C, ReqInv(q, x, C), NEW h, h.page \in AnyPage,
         q.finished \/ h.page \in Range(q.pages), NEW busy \in BOOLEAN,
         NEW o \in ProcessChunk(Unchunk(q, h), x, h)
  PROVE  LET p == IF o.q.deferred THEN Release(o.q, busy) ELSE o.q
         IN  ReqInv(p, o.x, C) /\ Keeps(q, p)
<1> DEFINE u == Unchunk(q, h)
<1>1. /\ ReqInv(u, x, C) /\ u.pages = q.pages /\ u.finished = q.finished
      /\ u.queued = q.queued
  <2>1. q \in PReqs
    BY DEF ReqInv
  <2>2. /\ u \in PReqs /\ u.pages = q.pages /\ u.finished = q.finished
        /\ u.queued = q.queued /\ u.sender = q.sender /\ u.deferred = q.deferred
        /\ u.chunk_index = q.chunk_index
    <3> DEFINE n == q.is_chunked - 1
    <3>1. n \in Int
      BY <2>1 DEF PReqs
    <3>2. u = q \/ u = [q EXCEPT !.is_chunked = n]
      BY <2>1 DEF Unchunk, PReqs
    <3> HIDE DEF u, n
    <3> QED BY <2>1, <3>1, <3>2 DEF PReqs
  <2> HIDE DEF u
  <2> QED BY <2>2 DEF ReqInv
<1> HIDE DEF u
<1>2. ReqInv(o.q, o.x, C) /\ Keeps(u, o.q)
  <2>1. CASE ~(u.finished \/ u.to_finish)
    <3>1. o \in Handoff(u, x, h)
      BY <2>1 DEF ProcessChunk, u
    <3> QED BY <1>1, <2>1, <3>1, ReqHandoff
  <2>2. CASE (u.finished \/ u.to_finish) /\ u.sender
    <3> DEFINE k == [u EXCEPT !.queued = TRUE]
    <3>1. o = [q |-> k, x |-> SenderAbort(x), retire |-> TRUE, faults |-> 0]
      BY <2>2 DEF ProcessChunk, Abandon, u
    <3>2. o.q = k /\ o.x = SenderAbort(x)
      BY <3>1
    <3>3. ReqInv(u, SenderAbort(x), C)
      BY <1>1, ReqAbort
    <3>4. /\ k \in PReqs /\ k.pages = u.pages /\ k.finished = u.finished /\ k.queued
          /\ k.sender = u.sender /\ k.deferred = u.deferred /\ k.chunk_index = u.chunk_index
      BY <1>1, Zenon DEF ReqInv, PReqs
    <3> HIDE DEF k
    <3>5. ReqInv(k, SenderAbort(x), C) /\ Keeps(u, k)
      BY <2>2, <3>3, <3>4 DEF ReqInv, Keeps
    <3> QED BY <3>2, <3>5
  <2>3. CASE (u.finished \/ u.to_finish) /\ ~u.sender
    <3> DEFINE k == Release(Finish(u, "abort"), TRUE)
    <3>1. o = [q |-> IF u.finished THEN u ELSE k, x |-> x, retire |-> TRUE, faults |-> 0]
      BY <2>3, Zenon DEF ProcessChunk, Abandon, u
    <3>2. o.q \in {u, k} /\ o.x = x
      BY <3>1
    <3>3. /\ u \in PReqs /\ SenderInv(x, C, AnyPage) /\ NoneRegistered(x) /\ ~u.queued
      BY <1>1, <2>3 DEF ReqInv
    <3>4. ReqInv(k, x, C) /\ Keeps(u, k)
      BY <2>3, <3>3, "abort" \in {"abort", "error"}, ReqFinished, Zenon
    <3>5. Keeps(u, u)
      BY DEF Keeps
    <3> HIDE DEF k
    <3> QED BY <1>1, <3>2, <3>4, <3>5
  <2> QED BY <2>1, <2>2, <2>3
<1>3. CASE ~o.q.deferred
  BY <1>1, <1>2, <1>3 DEF Keeps
<1>4. CASE o.q.deferred
  <2>1. o.q.finished /\ ~o.q.sender
    BY <1>2, <1>4 DEF ReqInv
  <2>2. ReqInv(Release(o.q, busy), o.x, C) /\ Keeps(o.q, Release(o.q, busy))
    BY <1>2, <2>1, ReqReleased
  <2> QED BY <1>1, <1>2, <1>4, <2>2, SMTT(30) DEF Keeps
<1> QED BY <1>3, <1>4, SMTT(30)
------------------------------------------------------------------------------
(* All requests, and the forwards.                                         *)

(* A step of one request leaves the others alone.                          *)
LEMMA OneReq ==
  ASSUME NEW f, NEW g, AllReqs(f, g), NEW r, NEW p, NEW y,
         r \in Reqs => ReqInv(p, y, 0..(NumChunks[r] - 1)) /\ Keeps(f[r], p)
  PROVE  LET k == [f EXCEPT ![r] = p]
         IN  AllReqs(k, [g EXCEPT ![r] = y]) /\ AllKeep(f, k)
<1> DEFINE k == [f EXCEPT ![r] = p]
           l == [g EXCEPT ![r] = y]
<1>1. k = [s \in Reqs |-> IF s = r THEN p ELSE f[s]]
  BY DEF AllReqs
<1>2. l = [s \in Reqs |-> IF s = r THEN y ELSE g[s]]
  BY DEF AllReqs
<1> HIDE DEF k, l
<1>3. AllReqs(k, l)
  BY <1>1, <1>2 DEF AllReqs
<1>4. AllKeep(f, k)
  BY <1>1 DEF AllKeep, Keeps
<1> QED BY <1>3, <1>4 DEF k, l

(* The page of a launched forward stays with its request.                  *)
LEMMA ResultsKept ==
  ASSUME NEW rs, NEW f, NEW g, ResultsInv(rs, f), AllKeep(f, g)
  PROVE  ResultsInv(rs, g)
<1>1. ASSUME NEW h, ResultInv(h, f) PROVE ResultInv(h, g)
  BY <1>1 DEF ResultInv, AllKeep, Keeps
<1> QED BY <1>1 DEF ResultsInv

(* Launch adds a forward.                                                  *)
LEMMA ResultsAppend ==
  ASSUME NEW rs, NEW f, NEW h, ResultsInv(rs, f), ResultInv(h, f)
  PROVE  ResultsInv(Append(rs, h), f)
<1> DEFINE z == Append(rs, h)
<1>1. rs \in Seq(Range(rs))
  BY DEF ResultsInv
<1>2. /\ z \in Seq(Range(rs) \cup {h}) /\ Len(z) = Len(rs) + 1
      /\ \A i \in 1..Len(rs) : z[i] = rs[i]
      /\ z[Len(rs) + 1] = h
  BY <1>1
<1>3. z \in Seq(Range(z))
  <2> DEFINE T == Range(rs) \cup {h}
  <2>1. rs \in Seq(T) /\ h \in T
    BY <1>1
  <2> HIDE DEF T
  <2>2. Range(z) = Range(rs) \cup {h}
    BY <2>1, RangeOfAppend
  <2> HIDE DEF z
  <2> QED BY <1>2, <2>2
<1>4. ASSUME NEW i \in 1..Len(z) PROVE z[i] = h \/ (i \in 1..Len(rs) /\ z[i] = rs[i])
  BY <1>1, <1>2
<1> HIDE DEF z
<1>5. ResultsInv(z, f)
  BY <1>3, <1>4 DEF ResultsInv
<1> QED BY <1>5 DEF z

(* PResolve takes the oldest one away.                                     *)
LEMMA ResultsTail ==
  ASSUME NEW rs, NEW f, ResultsInv(rs, f), rs # <<>>
  PROVE  ResultsInv(Tail(rs), f) /\ ResultInv(Head(rs), f)
<1> DEFINE z == Tail(rs)
<1>1. rs \in Seq(Range(rs))
  BY DEF ResultsInv
<1>2. /\ Len(z) = Len(rs) - 1 /\ Len(rs) \in Nat \ {0} /\ z \in Seq(Range(rs))
      /\ \A i \in 1..Len(z) : z[i] = rs[i + 1]
      /\ Head(rs) = rs[1]
  BY <1>1
<1> HIDE DEF z
<1>3. z \in Seq(Range(z))
  BY <1>2 DEF Range
<1>4. \A i \in 1..Len(z) : i + 1 \in 1..Len(rs)
  BY <1>2
<1>5. ResultsInv(z, f) /\ ResultInv(Head(rs), f)
  BY <1>2, <1>3, <1>4 DEF ResultsInv
<1> QED BY <1>5 DEF z

(* PForward marks one as run.                                              *)
LEMMA ResultsRan ==
  ASSUME NEW rs, NEW f, ResultsInv(rs, f), NEW i \in DOMAIN rs
  PROVE  /\ ResultsInv([rs EXCEPT ![i].ran = TRUE], f)
         /\ rs # <<>> => [rs EXCEPT ![i].ran = TRUE] # <<>>
<1> DEFINE h == [rs[i] EXCEPT !.ran = TRUE]
           z == [rs EXCEPT ![i].ran = TRUE]
<1>1. rs \in Seq(Range(rs)) /\ Len(rs) \in Nat /\ DOMAIN rs = 1..Len(rs)
  BY DEF ResultsInv
<1>2. ResultInv(h, f)
  <2>1. ResultInv(rs[i], f)
    BY <1>1 DEF ResultsInv
  <2>2. Record(h, {"req", "chunk", "is_final", "page", "ran"}) /\ h.page = rs[i].page
        /\ h.req = rs[i].req
    BY <2>1, Zenon DEF ResultInv, Record
  <2> QED BY <2>1, <2>2 DEF ResultInv
<1>3. z = [j \in 1..Len(rs) |-> IF j = i THEN h ELSE rs[j]]
  BY <1>1, Zenon
<1> HIDE DEF h, z
<1>4. \A j \in 1..Len(rs) : z[j] \in Range(z)
  BY <1>3 DEF Range
<1>5. z \in Seq(Range(z)) /\ Len(z) = Len(rs)
  BY <1>1, <1>3, <1>4
<1>6. ResultsInv(z, f)
  BY <1>1, <1>2, <1>3, <1>5 DEF ResultsInv
<1>7. rs # <<>> => z # <<>>
  BY <1>1, <1>5
<1> QED BY <1>6, <1>7 DEF z
------------------------------------------------------------------------------
(* The steps of P.                                                         *)

(* A step that only changes one request or its transfer.                   *)
LEMMA PStep ==
  ASSUME IInv, NEW r, NEW p, NEW y,
         r \in Reqs => /\ ReqInv(p, y, 0..(NumChunks[r] - 1))
                       /\ Keeps(preq[r], p) /\ p.queued = preq[r].queued,
         preq' = [preq EXCEPT ![r] = p], xfer' = [xfer EXCEPT ![r] = y],
         UNCHANGED <<ppc, psweep, results>>
  PROVE  IInv'
<1>1. AllReqs(preq, xfer)
  BY DEF IInv
<1>2. AllReqs(preq', xfer') /\ AllKeep(preq, preq')
  BY <1>1, OneReq, Zenon
<1>3. ResultsInv(results, preq)
  BY DEF IInv
<1>4. ResultsInv(results', preq')
  BY <1>2, <1>3, ResultsKept
<1>5. \A s \in Reqs : preq'[s].queued = preq[s].queued
  BY <1>1 DEF AllReqs
<1> QED BY <1>2, <1>4, <1>5 DEF IInv

(* The same, of a transfer alone: what the request knows of it is kept.    *)
LEMMA TStep ==
  ASSUME IInv, NEW r, NEW y,
         r \in Reqs => ReqInv(preq[r], y, 0..(NumChunks[r] - 1)),
         xfer' = [xfer EXCEPT ![r] = y], UNCHANGED pvars
  PROVE  IInv'
<1>1. preq' = [preq EXCEPT ![r] = preq[r]]
  BY DEF pvars, IInv, AllReqs
<1>2. Keeps(preq[r], preq[r])
  BY DEF Keeps
<1>3. UNCHANGED <<ppc, psweep, results>>
  BY DEF pvars
<1> QED BY <1>1, <1>2, <1>3, PStep, Zenon

(* A request arrives at P.                                                 *)
LEMMA PArriveInv == ASSUME IInv, NEW r \in Reqs, PArrive(r) PROVE IInv'
<1> DEFINE p == [preq[r] EXCEPT !.arrived = TRUE]
<1>1. ReqInv(preq[r], xfer[r], 0..(NumChunks[r] - 1)) /\ preq[r] \in PReqs
  BY Zenon DEF IInv, AllReqs, ReqInv
<1>2. /\ p \in PReqs /\ p.pages = preq[r].pages /\ p.finished = preq[r].finished
      /\ p.queued = preq[r].queued /\ p.sender = preq[r].sender
      /\ p.deferred = preq[r].deferred /\ p.chunk_index = preq[r].chunk_index
  BY <1>1, Zenon DEF PReqs
<1>3. preq' = [preq EXCEPT ![r] = p] /\ UNCHANGED <<xfer, ppc, psweep, results>>
  BY DEF PArrive
<1> HIDE DEF p
<1>4. ReqInv(p, xfer[r], 0..(NumChunks[r] - 1)) /\ Keeps(preq[r], p)
  BY <1>1, <1>2 DEF ReqInv, Keeps
<1>5. xfer' = [xfer EXCEPT ![r] = xfer[r]]
  BY <1>3 DEF IInv, AllReqs
<1> QED BY <1>2, <1>3, <1>4, <1>5, PStep, ZenonT(40)

(* abort_request on P takes no page and no started chunk away.             *)
LEMMA PAbortInv == ASSUME IInv, NEW r \in Reqs, PAbort(r) PROVE IInv'
<1> DEFINE q == preq[r]
           C == 0..(NumChunks[r] - 1)
           y == IF q.queued THEN SenderAbort(xfer[r]) ELSE xfer[r]
<1>1. ReqInv(q, xfer[r], C) /\ q \in PReqs
  BY Zenon DEF IInv, AllReqs, ReqInv
<1>2. ReqInv(q, y, C)
  BY <1>1, ReqAbort
<1>3. xfer' = [xfer EXCEPT ![r] = y] /\ UNCHANGED <<ppc, psweep, results>>
  BY Zenon DEF PAbort, IInv, AllReqs
<1>4. PICK m : preq' = [preq EXCEPT ![r] = IF r \in Range(waiting_queue) THEN Answer(q, "abort")
                                           ELSE [q EXCEPT !.to_finish = @ \/ m]]
  BY Zenon DEF PAbort
<1> DEFINE a == Append(q.answer, "abort")
           b == q.to_finish \/ m
           p == IF r \in Range(waiting_queue) THEN Answer(q, "abort")
                ELSE [q EXCEPT !.to_finish = @ \/ m]
<1>5. a \in Seq({"done", "abort", "error"}) /\ b \in BOOLEAN
  BY <1>1 DEF PReqs
<1>6. p = [q EXCEPT !.answer = a] \/ p = [q EXCEPT !.to_finish = b]
  BY <1>1 DEF Answer, PReqs
<1> HIDE DEF a, b, p, q, y
<1>7. /\ p \in PReqs /\ p.pages = q.pages /\ p.finished = q.finished
      /\ p.queued = q.queued /\ p.sender = q.sender
      /\ p.deferred = q.deferred /\ p.chunk_index = q.chunk_index
  BY <1>1, <1>5, <1>6, Zenon DEF PReqs
<1>8. ReqInv(p, y, C) /\ Keeps(q, p)
  BY <1>2, <1>7 DEF ReqInv, Keeps
<1>9. preq' = [preq EXCEPT ![r] = p]
  BY <1>4 DEF p, q
<1> QED BY <1>3, <1>7, <1>8, <1>9, PStep, Zenon DEF q

(* The sweep over the senders begins with the queued ones.                 *)
LEMMA PRecvInv == ASSUME IInv, PRecv PROVE IInv'
  BY DEF IInv, PRecv

(* The device runs a forward.                                              *)
LEMMA PForwardInv == ASSUME IInv, PForward PROVE IInv'
<1>1. PICK i \in DOMAIN results : results' = [results EXCEPT ![i].ran = TRUE]
  BY Zenon DEF PForward
<1>2. UNCHANGED <<xfer, ppc, psweep, preq>>
  BY DEF PForward
<1>3. ResultsInv(results, preq)
  BY DEF IInv
<1>4. ResultsInv(results', preq) /\ (results # <<>> => results' # <<>>)
  BY <1>1, <1>3, ResultsRan, ZenonT(40)
<1> QED BY <1>2, <1>4 DEF IInv

(* The request polled is queued, so it has a sender.                       *)
LEMMA PSendInv == ASSUME IInv, NEW r \in Reqs, PSend(r) PROVE IInv'
<1> DEFINE C == 0..(NumChunks[r] - 1)
<1>1. /\ r \in psweep /\ psweep' = psweep \ {r}
      /\ ppc' = IF psweep' = {} THEN "launch" ELSE "send"
      /\ results' = results
  BY SMTT(30) DEF PSend, IInv
<1>2. ReqInv(preq[r], xfer[r], C) /\ preq[r].sender
  <2>1. ReqInv(preq[r], xfer[r], C) /\ preq[r].queued
    BY <1>1, Zenon DEF IInv, AllReqs
  <2> QED BY <2>1 DEF ReqInv
<1>3. PICK o \in SenderPoll(xfer[r]) :
        /\ xfer' = [xfer EXCEPT ![r] = o.x]
        /\ IF o.x.snd.st \in Terminal /\ InFlight(r) = {}
           THEN preq' = [preq EXCEPT ![r] = OnTerminal(@, o.x.snd.st)]
           ELSE UNCHANGED preq
  BY Zenon DEF PSend
<1> DEFINE p == IF o.x.snd.st \in Terminal /\ InFlight(r) = {}
                THEN OnTerminal(preq[r], o.x.snd.st) ELSE preq[r]
<1>4. preq' = [preq EXCEPT ![r] = p]
  BY <1>3 DEF IInv, AllReqs
<1>5. ReqInv(p, o.x, C) /\ Keeps(preq[r], p)
  <2>1. /\ ReqInv(preq[r], o.x, C)
        /\ o.x.snd.st \in Terminal => /\ ReqInv(OnTerminal(preq[r], o.x.snd.st), o.x, C)
                                      /\ Keeps(preq[r], OnTerminal(preq[r], o.x.snd.st))
    BY <1>2, ReqPoll
  <2>2. Keeps(preq[r], preq[r])
    BY DEF Keeps
  <2> QED BY <2>1, <2>2, SMTT(30)
<1> HIDE DEF p
<1>6. AllReqs(preq, xfer) /\ ResultsInv(results, preq)
  BY DEF IInv
<1>7. AllReqs(preq', xfer') /\ AllKeep(preq, preq')
  BY <1>3, <1>4, <1>5, <1>6, OneReq, ZenonT(40)
<1>8. ResultsInv(results', preq')
  BY <1>1, <1>6, <1>7, ResultsKept
<1>9. psweep' \subseteq {s \in Reqs : preq'[s].queued}
  BY <1>1, <1>4 DEF IInv, AllReqs
<1> QED BY <1>1, <1>7, <1>8, <1>9 DEF IInv

(* The result of the oldest forward is applied.                            *)
LEMMA PResolveInv == ASSUME IInv, PResolve PROVE IInv'
<1> DEFINE h == Head(results)
           r == h.req
           C == 0..(NumChunks[r] - 1)
           busy == InFlight(r) # {1}
<1>1. /\ AllReqs(preq, xfer) /\ ResultsInv(results, preq)
      /\ results # <<>> /\ psweep = {}
  BY DEF IInv, PResolve
<1>2. ResultsInv(Tail(results), preq) /\ ResultInv(h, preq)
  BY <1>1, ResultsTail, SMTT(30)
<1>3. PICK o \in ProcessChunk(Unchunk(preq[r], h), xfer[r], h) :
        /\ xfer' = [xfer EXCEPT ![r] = o.x]
        /\ preq' = [preq EXCEPT ![r] = IF o.q.deferred THEN Release(o.q, busy) ELSE o.q]
  BY Zenon DEF PResolve
<1> DEFINE p == IF o.q.deferred THEN Release(o.q, busy) ELSE o.q
<1>4. r \in Reqs => ReqInv(p, o.x, C) /\ Keeps(preq[r], p)
  <2> SUFFICES ASSUME r \in Reqs PROVE ReqInv(p, o.x, C) /\ Keeps(preq[r], p)
    OBVIOUS
  <2>1. /\ ReqInv(preq[r], xfer[r], C) /\ h.page \in AnyPage
        /\ preq[r].finished \/ h.page \in Range(preq[r].pages)
    BY <1>1, <1>2 DEF AllReqs, ResultInv
  <2>2. busy \in BOOLEAN
    OBVIOUS
  <2> HIDE DEF busy, h
  <2> QED BY <1>3, <2>1, <2>2, ReqChunk
<1>5. preq' = [preq EXCEPT ![r] = p] /\ xfer' = [xfer EXCEPT ![r] = o.x]
  BY <1>3
<1> HIDE DEF p, r
<1>6. AllReqs(preq', xfer') /\ AllKeep(preq, preq')
  BY <1>1, <1>4, <1>5, OneReq, Zenon
<1>7. results' = Tail(results) /\ psweep' = psweep /\ ppc' = "recv"
  BY DEF PResolve
<1>8. ResultsInv(results', preq')
  BY <1>2, <1>6, <1>7, ResultsKept
<1> QED BY <1>1, <1>6, <1>7, <1>8 DEF IInv

(* What Launch does to its request.                                        *)
Launched(q, page, n) == [q EXCEPT !.pages = Append(@, page), !.is_chunked = @ + n]

(* A page is appended: nothing else of the request changes but the count   *)
(* of its chunks in flight.                                                *)
LEMMA ReqLaunched ==
  ASSUME NEW q, NEW x, NEW C, ReqInv(q, x, C), NEW page \in AnyPage, NEW n \in Int
  PROVE  LET p == Launched(q, page, n)
         IN  ReqInv(p, x, C) /\ Keeps(q, p) /\ page \in Range(p.pages)
<1> DEFINE p == Launched(q, page, n)
           s == Append(q.pages, page)
           m == q.is_chunked + n
<1>1. q \in PReqs /\ q.pages \in Seq(AnyPage) /\ m \in Int
  BY DEF ReqInv, PReqs
<1>2. p = [q EXCEPT !.pages = s, !.is_chunked = m]
  BY <1>1 DEF Launched, PReqs
<1>3. s \in Seq(AnyPage) /\ Range(s) = Range(q.pages) \cup {page}
  BY <1>1, RangeOfAppend
<1> HIDE DEF p, s, m
<1>4. /\ p \in PReqs /\ p.pages = s /\ p.finished = q.finished
      /\ p.queued = q.queued /\ p.sender = q.sender
      /\ p.deferred = q.deferred /\ p.chunk_index = q.chunk_index
  BY <1>1, <1>2, <1>3, Zenon DEF PReqs
<1>5. ReqInv(p, x, C) /\ Keeps(q, p) /\ page \in Range(p.pages)
  BY <1>3, <1>4 DEF ReqInv, Keeps
<1> QED BY <1>5, SMTT(30) DEF p

(* Launch from the requests reqs, after an abort may have been consumed.   *)
LEMMA LaunchInv ==
  ASSUME NEW reqs, NEW r, AllReqs(reqs, xfer), ResultsInv(results, reqs), Launch(reqs, r)
  PROVE  AllReqs(preq', xfer) /\ ResultsInv(results', preq')
<1> DEFINE c == Len(reqs[r].pages)
           fin == c + 1 = NumChunks[r]
           page == Min(PFree(reqs))
           n == IF fin THEN 0 ELSE 1
           p == Launched(reqs[r], page, n)
           h == [req |-> r, chunk |-> c, is_final |-> fin, page |-> page, ran |-> FALSE]
<1>1. page \in AnyPage /\ n \in Int
  BY DEF PFree, AnyPage
<1>2. preq' = [reqs EXCEPT ![r].pages = Append(@, page), ![r].is_chunked = @ + n]
  BY DEF Launch
<1>3. results' = Append(results, h)
  BY DEF Launch
<1>4. preq' = [reqs EXCEPT ![r] = p]
  <2> HIDE DEF page, n
  <2>1. CASE r \in Reqs
    <3>1. reqs[r] \in PReqs /\ DOMAIN reqs = Reqs
      BY <2>1 DEF AllReqs, ReqInv
    <3> QED BY <1>2, <2>1, <3>1, Zenon DEF Launched, PReqs
  <2>2. CASE r \notin Reqs
    <3>1. DOMAIN reqs = Reqs
      BY DEF AllReqs
    <3> QED BY <1>2, <2>2, <3>1, Zenon
  <2> QED BY <2>1, <2>2
<1>5. Record(h, {"req", "chunk", "is_final", "page", "ran"}) /\ h.req = r /\ h.page = page
  <2> HIDE DEF c, fin, page
  <2> QED BY DEF Record
<1> HIDE DEF c, fin, n, page, h
<1>6. r \in Reqs => /\ ReqInv(p, xfer[r], 0..(NumChunks[r] - 1))
                    /\ Keeps(reqs[r], p) /\ page \in Range(p.pages)
  <2> SUFFICES ASSUME r \in Reqs
               PROVE  /\ ReqInv(p, xfer[r], 0..(NumChunks[r] - 1))
                      /\ Keeps(reqs[r], p) /\ page \in Range(p.pages)
    OBVIOUS
  <2>1. ReqInv(reqs[r], xfer[r], 0..(NumChunks[r] - 1))
    BY DEF AllReqs
  <2> QED BY <1>1, <2>1, ReqLaunched, SMTT(30)
<1> HIDE DEF p
<1>7. AllReqs(preq', [xfer EXCEPT ![r] = xfer[r]]) /\ AllKeep(reqs, preq')
  BY <1>4, <1>6, OneReq, Zenon
<1>8. [xfer EXCEPT ![r] = xfer[r]] = xfer
  BY DEF AllReqs
<1>9. ResultInv(h, preq')
  BY <1>1, <1>4, <1>5, <1>6 DEF ResultInv, AllReqs
<1>10. ResultsInv(results, preq')
  BY <1>7, ResultsKept
<1> QED BY <1>3, <1>7, <1>8, <1>9, <1>10, ResultsAppend

(* launch: an abort is consumed, a forward is launched, both or neither.   *)
LEMMA PLaunchInv == ASSUME IInv, PLaunch PROVE IInv'
<1> DEFINE reqs == IF Consumes THEN [preq EXCEPT ![pending_abort] = ConsumedReq(@)] ELSE preq
           k == ConsumedReq(preq[pending_abort])
<1>1. /\ AllReqs(preq, xfer) /\ ResultsInv(results, preq) /\ psweep = {}
      /\ xfer' = xfer /\ psweep' = psweep
  BY DEF IInv, PLaunch
<1>2. AllReqs(reqs, xfer) /\ ResultsInv(results, reqs)
  <2>1. CASE ~Consumes
    BY <1>1, <2>1
  <2>2. CASE Consumes
    <3>1. reqs = [preq EXCEPT ![pending_abort] = k]
      BY <2>2
    <3>2. pending_abort \in Reqs =>
            /\ ReqInv(k, xfer[pending_abort], 0..(NumChunks[pending_abort] - 1))
            /\ Keeps(preq[pending_abort], k)
      BY <1>1, ReqConsumed DEF AllReqs
    <3> HIDE DEF reqs, k
    <3>3. AllReqs(reqs, [xfer EXCEPT ![pending_abort] = xfer[pending_abort]]) /\ AllKeep(preq, reqs)
      BY <1>1, <3>1, <3>2, OneReq, Zenon
    <3>4. [xfer EXCEPT ![pending_abort] = xfer[pending_abort]] = xfer
      BY <1>1 DEF AllReqs
    <3> QED BY <1>1, <3>3, <3>4, ResultsKept
  <2> QED BY <2>1, <2>2
<1>3. \/ preq' = preq /\ results' = results
      \/ preq' = reqs /\ results' = results
      \/ \E r : Launch(reqs, r)
  <2> DEFINE held == IF Consumes THEN None ELSE chunked
             next == Head(waiting_queue)
  <2>1. \/ NoLaunch(preq, chunked) \/ Launch(reqs, held)
        \/ NoLaunch(reqs, held) \/ Launch(reqs, next)
    BY Zenon DEF PLaunch
  <2> HIDE DEF reqs, held, next
  <2> QED BY <2>1 DEF NoLaunch
<1> HIDE DEF reqs
<1>4. AllReqs(preq', xfer) /\ ResultsInv(results', preq')
  BY <1>1, <1>2, <1>3, LaunchInv
<1>5. ppc' # "send" /\ (ppc' = "resolve" => results' # <<>>)
  BY DEF PLaunch
<1> QED BY <1>1, <1>4, <1>5 DEF IInv
------------------------------------------------------------------------------
(* The steps of the transfers.                                             *)

(* The invariant says how transfers look.                                  *)
LEMMA ShapeOf == ASSUME IInv, NEW r \in Reqs PROVE Shape(xfer[r]) /\ DOMAIN xfer = Reqs
BY DEF IInv, AllReqs, ReqInv, SenderInv

(* A step of D's side of a transfer.                                       *)
LEMMA SameStep ==
  ASSUME IInv, NEW r \in Reqs, NEW y, SameSender(xfer[r], y),
         xfer' = [xfer EXCEPT ![r] = y], UNCHANGED pvars
  PROVE  IInv'
<1>1. ReqInv(preq[r], xfer[r], 0..(NumChunks[r] - 1))
  BY DEF IInv, AllReqs
<1>2. ReqInv(preq[r], y, 0..(NumChunks[r] - 1))
  BY <1>1, SameSenderInv
<1> QED BY <1>2, TStep, Zenon

(* The engine lets go of a chunk on P.                                     *)
LEMMA ReqSettled ==
  ASSUME NEW q, NEW x, NEW C, ReqInv(q, x, C), NEW c \in C, NEW v \in {"done", "failed"}
  PROVE  ReqInv(q, [x EXCEPT !.src[c] = v], C)
<1> DEFINE s == [x.src EXCEPT ![c] = v]
           y == [x EXCEPT !.src = s]
<1>1. SenderInv(x, C, AnyPage)
  BY DEF ReqInv
<1>2. /\ s \in [C -> Marks] /\ DOMAIN s = DOMAIN x.src
      /\ \A d \in C : s[d] = "registered" => x.src[d] = "registered"
  BY <1>1 DEF SenderInv, Marks
<1> HIDE DEF s
<1>3. Shape(y) /\ y.snd = x.snd /\ y.src = s
  BY <1>1, SMTT(30) DEF SenderInv, Shape, Record
<1> HIDE DEF y
<1>4. NoneRegistered(x) => NoneRegistered(y)
  BY <1>1, <1>2, <1>3, SMTT(30) DEF NoneRegistered, SenderInv
<1>5. SenderInv(y, C, AnyPage)
  BY <1>1, <1>2, <1>3, <1>4, SMTT(30) DEF SenderInv
<1>6. ReqInv(q, y, C)
  BY <1>3, <1>4, <1>5, SMTT(30) DEF ReqInv
<1> QED BY <1>6 DEF y, s

(* The engine has sent a chunk or given it up.                             *)
LEMMA SettleInv ==
  ASSUME IInv, NEW r \in Reqs, NEW c \in 0..(NumChunks[r] - 1), UNCHANGED pvars,
         EngineSent(r, c) \/ EngineSendExpires(r, c)
  PROVE  IInv'
<1>1. PICK v \in {"done", "failed"} : xfer' = [xfer EXCEPT ![r].src[c] = v]
  BY DEF EngineSent, EngineSendExpires
<1> DEFINE y == [xfer[r] EXCEPT !.src[c] = v]
<1>2. ReqInv(preq[r], xfer[r], 0..(NumChunks[r] - 1))
  BY DEF IInv, AllReqs
<1>3. ReqInv(preq[r], y, 0..(NumChunks[r] - 1))
  BY <1>2, ReqSettled, Zenon
<1>4. xfer' = [xfer EXCEPT ![r] = y]
  BY <1>1
<1> HIDE DEF y
<1> QED BY <1>3, <1>4, TStep, Zenon

(* The reaper of P aborts a sender.                                        *)
LEMMA SenderTimeoutInv ==
  ASSUME IInv, NEW r \in Reqs, SenderTimeout(r), UNCHANGED pvars
  PROVE  IInv'
<1>1. ReqInv(preq[r], xfer[r], 0..(NumChunks[r] - 1))
  BY DEF IInv, AllReqs
<1>2. ReqInv(preq[r], SenderAbort(xfer[r]), 0..(NumChunks[r] - 1))
  BY <1>1, ReqAbort
<1>3. xfer' = [xfer EXCEPT ![r] = SenderAbort(xfer[r])]
  BY DEF SenderTimeout
<1> QED BY <1>2, <1>3, TStep, Zenon

(* Reads that fail, lookups, the receiver's timeout and a forgotten room.  *)
LEMMA OtherTransferSteps ==
  ASSUME IInv, NEW r \in Reqs, UNCHANGED pvars,
         \/ \E c \in 0..(NumChunks[r] - 1) : EngineReadFails(r, c)
         \/ LookupDone(r) \/ ReceiverTimeout(r) \/ RoomExpires(r)
  PROVE  IInv'
<1> DEFINE x == xfer[r]
<1>1. Shape(x) /\ DOMAIN xfer = Reqs
  BY ShapeOf
<1>2. /\ \A c : SameSender(x, [x EXCEPT !.dst[c] = "failed"])
      /\ \A l : SameSender(x, [x EXCEPT !.look = l])
      /\ SameSender(x, pop_room(x))
  BY <1>1 DEF SameSender, Shape, Record, pop_room
<1>3. SameSender(x, ReceiverAbort(x))
  BY <1>1, ReceiverAbortSame
<1>4. \E y : SameSender(x, y) /\ xfer' = [xfer EXCEPT ![r] = y]
  <2>1. CASE \E c \in 0..(NumChunks[r] - 1) : EngineReadFails(r, c)
    <3>1. PICK c : xfer' = [xfer EXCEPT ![r].dst[c] = "failed"]
      BY <2>1, Zenon DEF EngineReadFails
    <3>2. xfer' = [xfer EXCEPT ![r] = [x EXCEPT !.dst[c] = "failed"]]
      BY <3>1
    <3> HIDE DEF x
    <3> QED BY <1>2, <3>2, Zenon
  <2>2. CASE LookupDone(r)
    <3>1. PICK l : xfer' = [xfer EXCEPT ![r].look = l]
      BY <2>2 DEF LookupDone
    <3>2. xfer' = [xfer EXCEPT ![r] = [x EXCEPT !.look = l]]
      BY <3>1
    <3> HIDE DEF x
    <3> QED BY <1>2, <3>2, Zenon
  <2>3. CASE ReceiverTimeout(r)
    BY <1>3, <2>3, Zenon DEF ReceiverTimeout
  <2>4. CASE RoomExpires(r)
    BY <1>2, <2>4, Zenon DEF RoomExpires
  <2> QED BY <2>1, <2>2, <2>3, <2>4
<1> QED BY <1>4, SameStep, Zenon
==============================================================================
