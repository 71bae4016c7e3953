------------------------------- MODULE MCKVCache -------------------------------
(***************************************************************************)
(* KVCache on small instances.                                             *)
(***************************************************************************)
EXTENDS KVCache

CONSTANTS q1, q2, q3, a, b

(* For pages of one token: two prompts that part in the middle, and another. *)
ForkedPrompts == q1 :> <<a, a, b>> @@ q2 :> <<a, a>> @@ q3 :> <<b>>

(* For pages of two tokens: two prompts that share two pages, and another. *)
PagedPrompts == q1 :> <<a, a, b, b, a>> @@ q2 :> <<a, a, b, b, b>> @@ q3 :> <<b, b>>

Server(size, num, tokens, prompts, n) ==
  [page_size |-> size, num_pages |-> num, max_new_tokens |-> tokens, prompt |-> prompts,
   max_pending |-> n]

(* Both page sizes, each under both event loops.  The pools are as small as
   the budget of the longest request allows. *)
Servers == UNION {{Server(1, 7, 3, ForkedPrompts, n), Server(2, 4, 2, PagedPrompts, n),
                   Server(2, 5, 3, PagedPrompts, n)} : n \in 1..2}

===============================================================================
