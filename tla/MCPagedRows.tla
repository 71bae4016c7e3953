----------------------------- MODULE MCPagedRows -----------------------------
(* Instances of PagedRows for TLC.                                         *)
EXTENDS PagedRows

(* Ranks do not interact, and requests differ in nothing but their rows.   *)
Symmetric == Permutations(Ranks) \cup Permutations(Reqs)
==============================================================================
