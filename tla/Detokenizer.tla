----------------------------- MODULE Detokenizer -----------------------------
(***************************************************************************)
(* DetokenizerManager: incremental decoding of the token ids the scheduler *)
(* sends into the text increments the tokenizer process appends.           *)
(*                                                                         *)
(* The tokens a request produces are numbered 1, 2, ...; the last Surround *)
(* tokens of its prompt come before them, numbered up to 0.  A character   *)
(* may take several tokens; it is named by the token that completes it.    *)
(* The offsets count list elements, as in the code.                        *)
(***************************************************************************)
EXTENDS Integers, Sequences, SequencesExt, FiniteSets, FiniteSetsExt

CONSTANTS
  Surround,    \* INIT_INCREMENTAL_DETOKENIZATION_OFFSET, at most the prompt's length
  EndsChar,    \* the output tokens that complete a character
  MaxStates    \* DETOKENIZER_MAX_STATES

ASSUME DetokenizerAssumption ==
  /\ Surround \in Nat
  /\ EndsChar \subseteq Nat \ {0}
  /\ MaxStates \in Nat \ {0}

(* What a request's chunk of output carries while it has not finished.     *)
Unfinished == "none"

(* The character that decoding puts for bytes that are not a whole one.    *)
Replacement == -1 - Surround

Whole(id) == id <= 0 \/ id \in EndsChar

Drop(s, n) == SubSeq(s, n + 1, Len(s))

(* tokenizer.batch_decode of one list of consecutive ids, which may begin  *)
(* or end inside a character.                                              *)
decode(ids) ==
  LET whole == SelectSeq(ids, Whole)
      text == [i \in DOMAIN whole |->
                 IF i = 1 /\ ~Whole(ids[1] - 1) THEN Replacement ELSE whole[i]]
  IN  IF ids # <<>> /\ ~Whole(Last(ids)) THEN Append(text, Replacement) ELSE text

(* Encoding with errors="replace" and decoding again changes nothing: the  *)
(* replacement character is itself valid.                                  *)
find_printable_text(text) == text

(* A matched stop token is not part of the output.                         *)
trim_matched_stop(ids, reason) ==
  IF reason = "stop" THEN Front(ids) ELSE ids
------------------------------------------------------------------------------
(* decode_status is a LimitedCapacityDict: its keys in the order they were *)
(* set, and a DecodeStatus for each.  past lists all keys ever set.        *)
NoStatus == [keys |-> <<>>, of |-> <<>>, past |-> <<>>]

DecodeStatus(m) ==
  [decoded_text |-> <<>>, decode_ids |-> m.decode_ids, surr_offset |-> 0,
   read_offset |-> m.read_offset, sent_offset |-> 0]

(* __setitem__: the oldest entry makes room, finished or not.              *)
SetItem(d, rid, s) ==
  LET kept == IF Len(d.keys) >= MaxStates THEN Tail(d.keys) ELSE d.keys
  IN  [keys |-> Append(kept, rid), past |-> Append(d.past, rid),
       of |-> [k \in ToSet(kept) \cup {rid} |-> IF k = rid THEN s ELSE d.of[k]]]

(* The first loop of handle_batch_token_id_out, for one request.           *)
Receive(d, m) ==
  IF m.rid \in ToSet(d.keys)
  THEN [d EXCEPT !.of[m.rid].decode_ids = @ \o m.decode_ids]
  ELSE SetItem(d, m.rid, DecodeStatus(m))

Received(d, batch) == FoldLeft(Receive, d, batch)

(* Some request of the batch lost its entry to a later one: RuntimeError.  *)
NotFound(received, batch) ==
  \E i \in DOMAIN batch : batch[i].rid \notin ToSet(received.keys)

(* The second loop: what is new is what read_ids decode to beyond the text *)
(* of surr_ids.  It is committed unless it ends inside a character.        *)
ReadIds(s, reason) == trim_matched_stop(Drop(s.decode_ids, s.surr_offset), reason)
SurrIds(s) == SubSeq(s.decode_ids, s.surr_offset + 1, s.read_offset)
NewText(s, reason) == Drop(decode(ReadIds(s, reason)), Len(decode(SurrIds(s))))
NewIds(s, reason) == Drop(ReadIds(s, reason), Len(SurrIds(s)))

Commits(s, reason) ==
  /\ reason = Unfinished
  /\ NewText(s, reason) # <<>> /\ Last(NewText(s, reason)) # Replacement

OutputStr(s, reason) ==
  s.decoded_text \o (IF reason = Unfinished /\ ~Commits(s, reason)
                     THEN find_printable_text(NewText(s, reason))
                     ELSE NewText(s, reason))

KeepsReadOffset(s, reason) ==
  LET sent == [s EXCEPT !.sent_offset = Len(OutputStr(s, reason))]
  IN  IF Commits(s, reason)
      THEN [sent EXCEPT !.decoded_text = OutputStr(s, reason)]
      ELSE sent

Advanced(s, reason) ==
  LET sent == [s EXCEPT !.sent_offset = Len(OutputStr(s, reason))]
  IN  IF Commits(s, reason)
      THEN [sent EXCEPT !.decoded_text = OutputStr(s, reason),
                        !.surr_offset = s.read_offset,
                        !.read_offset = Len(s.decode_ids)]
      ELSE sent

(* BatchStrOut, one request of it: the text beyond sent_offset and the ids. *)
Increment(s, m) ==
  [rid |-> m.rid, reason |-> m.reason, ids |-> NewIds(s, m.reason),
   text |-> Drop(OutputStr(s, m.reason), s.sent_offset)]

AfterBatch(received, batch) ==
  LET Of(k) == {i \in DOMAIN batch : batch[i].rid = k}
  IN  [received EXCEPT !.of =
         [k \in DOMAIN received.of |->
            IF Of(k) = {} THEN received.of[k]
            ELSE Advanced(received.of[k], batch[Max(Of(k))].reason)]]

BatchStrOut(received, batch) ==
  [i \in DOMAIN batch |-> Increment(received.of[batch[i].rid], batch[i])]
==============================================================================
