-------------------------------- MODULE KVPool --------------------------------
(***************************************************************************)
(* What every KV pool allocator promises its callers, without saying how.  *)
(* Each data-parallel rank has its own set of pages (slots when the page   *)
(* size is 1); a page is either free or held by a caller, and the          *)
(* operations only move pages between the two.                             *)
(***************************************************************************)
CONSTANTS Ranks,    \* data-parallel ranks
          Pages     \* page numbers of one rank; page 0 is the dummy page

VARIABLES free,     \* free[rank]: pages that may be handed out
          held      \* held[rank]: pages that callers use

vars == <<free, held>>

Init == /\ free = [rank \in Ranks |-> Pages]
        /\ held = [rank \in Ranks |-> {}]

(* A caller receives some free pages of one rank. *)
Alloc == \E rank \in Ranks : \E S \in SUBSET free[rank] :
            /\ free' = [free EXCEPT ![rank] = @ \ S]
            /\ held' = [held EXCEPT ![rank] = @ \cup S]

(* Held pages become free, on several ranks at once when a free group ends. *)
Free == \E S \in [Ranks -> SUBSET Pages] :
            /\ \A rank \in Ranks : S[rank] \subseteq held[rank]
            /\ free' = [rank \in Ranks |-> free[rank] \cup S[rank]]
            /\ held' = [rank \in Ranks |-> held[rank] \ S[rank]]

(* The pools of some ranks are reset; whoever held their pages has lost them. *)
Clear == \E R \in SUBSET Ranks :
            /\ free' = [rank \in Ranks |-> IF rank \in R THEN Pages ELSE free[rank]]
            /\ held' = [rank \in Ranks |-> IF rank \in R THEN {} ELSE held[rank]]

Next == Alloc \/ Free \/ Clear

Spec == Init /\ [][Next]_vars

===============================================================================
