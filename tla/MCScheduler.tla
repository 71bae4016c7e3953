----------------------------- MODULE MCScheduler -----------------------------
(***************************************************************************)
(* Instances of the scheduler for TLC.                                     *)
(***************************************************************************)
EXTENDS Scheduler

CONSTANTS q1, q2, q3

(* q1 needs two chunks of two tokens, the others one.                      *)
ShortAndLong == [r \in Reqs |-> IF r = q1 THEN 3 ELSE 1]

AbortOne == {{r} : r \in Reqs}

(* One rank; any request is aborted.                                       *)
OneRank(tokens, max_new) ==
  [dp_size |-> 1, dp_rank |-> [r \in Reqs |-> 0], capacity |-> tokens,
   max_new_tokens |-> max_new, invalid |-> {}, aborts |-> AbortOne]

(* Two ranks; q3 is on the second.                                         *)
TwoRanks(rejected, aborted) ==
  [dp_size |-> 2, dp_rank |-> [r \in Reqs |-> IF r = q3 THEN 1 ELSE 0],
   capacity |-> 7, max_new_tokens |-> [r \in Reqs |-> 2],
   invalid |-> rejected, aborts |-> aborted]

(* Each request wants n tokens; in the second, q3 is prefill-only.         *)
Tokens(n) == [r \in Reqs |-> n]
PrefillOnlyThird(n) == [r \in Reqs |-> IF r = q3 THEN 0 ELSE n]

(* Memory runs out on one rank; two ranks, with and without a rejection.   *)
Safety == {OneRank(9, PrefillOnlyThird(4)), TwoRanks({q2}, {}),
           TwoRanks({}, {{q2}, {q3}})}

Live == {OneRank(7, Tokens(2))}

NoAborts == {[OneRank(7, Tokens(2)) EXCEPT !.aborts = {}]}

RetractPause == {[OneRank(9, Tokens(3)) EXCEPT !.aborts = {}]}

AcrossRanks == {TwoRanks({}, AbortOne)}
==============================================================================
