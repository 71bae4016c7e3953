------------------------------ MODULE RadixCache ------------------------------
(***************************************************************************)
(* RadixCache: the prefix tree that owns the KV pages of cached token      *)
(* sequences, for one data-parallel rank and one extra_key namespace (the  *)
(* child keys of different ranks and namespaces never compare equal).      *)
(*                                                                         *)
(* A key is a sequence of page-sized blocks of tokens: match_prefix and    *)
(* insert only ever compare and cut whole pages.  A node is named by its   *)
(* path, the blocks from the root to its end: split_node gives the upper  *)
(* part a new node and leaves the path of the old one as it was, so a path *)
(* names one TreeNode object for as long as the object is in the tree.     *)
(* Sizes are counted in pages.  last_access_time is left out: eviction may *)
(* pick any unlocked leaf.                                                 *)
(***************************************************************************)
EXTENDS Integers, Sequences, SequencesExt, FiniteSets, FiniteSetsExt

Root == <<>>

(* A node holds the pages of its own part of the path. *)
reset == [nodes |-> [p \in {Root} |-> [value |-> <<>>, lock_ref |-> 1]],
          evictable_size_ |-> 0,
          protected_size_ |-> 0]

Paths(c) == DOMAIN c.nodes

Longest(S) == CHOOSE p \in S : \A q \in S : Len(q) <= Len(p)
Shortest(S) == CHOOSE p \in S : \A q \in S : Len(p) <= Len(q)

parent(c, node) == Longest({p \in Paths(c) : IsStrictPrefix(p, node)})

children(c, node) == {p \in Paths(c) \ {Root} : parent(c, p) = node}

(* The pages of the path down to node: what match_prefix returns as indices. *)
PathPages(c, node) ==
  [i \in 1..Len(node) |->
     LET p == Shortest({q \in Paths(c) : IsPrefix(q, node) /\ Len(q) >= i})
     IN  c.nodes[p].value[i - Len(parent(c, p))]]

key_match(p, q) ==
  Max({n \in 0..Min({Len(p), Len(q)}) : SubSeq(p, 1, n) = SubSeq(q, 1, n)})

(* How far down the tree key is cached. *)
MatchLen(c, key) == Max({key_match(p, key) : p \in Paths(c)})
Matched(c, key) == SubSeq(key, 1, MatchLen(c, key))

SplitSwapsValue(c, at) ==
  LET child == Shortest({p \in Paths(c) : IsPrefix(at, p)})
      value == c.nodes[child].value
      rest == Len(child) - Len(at)
      upper == [value |-> SubSeq(value, rest + 1, Len(value)),
                lock_ref |-> c.nodes[child].lock_ref]
      lower == [c.nodes[child] EXCEPT !.value = SubSeq(value, 1, rest)]
  IN  IF child = at THEN c
      ELSE [c EXCEPT !.nodes = [p \in Paths(c) \cup {at} |->
                                  CASE p = at -> upper
                                    [] p = child -> lower
                                    [] OTHER -> c.nodes[p]]]

(* Make the path `at`, which ends inside or at the end of some node, a node. *)
split_node(c, at) ==
  LET child == Shortest({p \in Paths(c) : IsPrefix(at, p)})
      len == Len(at) - Len(parent(c, child))
      value == c.nodes[child].value
      upper == [value |-> SubSeq(value, 1, len), lock_ref |-> c.nodes[child].lock_ref]
      lower == [c.nodes[child] EXCEPT !.value = SubSeq(value, len + 1, Len(value))]
  IN  IF child = at THEN c
      ELSE [c EXCEPT !.nodes = [p \in Paths(c) \cup {at} |->
                                  CASE p = at -> upper
                                    [] p = child -> lower
                                    [] OTHER -> c.nodes[p]]]

(* match_prefix returns Matched(c, key) as the last node; looking the key up may
   split the node in which the match ends. *)
match_prefix(c, key) == split_node(c, Matched(c, key))

(* insert returns MatchLen(c, key): the part of value beyond it becomes a leaf,
   the rest stays with the caller. *)
insert(c, key, value) ==
  LET prefix_len == MatchLen(c, key)
      split == match_prefix(c, key)
      leaf == [value |-> SubSeq(value, prefix_len + 1, Len(value)), lock_ref |-> 0]
  IN  IF prefix_len = Len(key) THEN split
      ELSE [split EXCEPT
              !.nodes = [p \in Paths(split) \cup {key} |->
                           IF p = key THEN leaf ELSE split.nodes[p]],
              !.evictable_size_ = @ + Len(leaf.value)]
-------------------------------------------------------------------------------
Upward(c, node) == {p \in Paths(c) \ {Root} : IsPrefix(p, node)}

TokensIn(c, S) == MapThenSumSet(LAMBDA p : Len(c.nodes[p].value), S)

AddToLocks(c, S, n) ==
  [p \in Paths(c) |-> IF p \in S THEN [c.nodes[p] EXCEPT !.lock_ref = @ + n]
                                 ELSE c.nodes[p]]

IncLockRefLastOnly(c, node) ==
  LET S == {node} \ {Root}
      delta == TokensIn(c, {p \in S : c.nodes[p].lock_ref = 0})
  IN  [nodes |-> AddToLocks(c, S, 1),
       evictable_size_ |-> c.evictable_size_ - delta,
       protected_size_ |-> c.protected_size_ + delta]

inc_lock_ref(c, node) ==
  LET S == Upward(c, node)
      delta == TokensIn(c, {p \in S : c.nodes[p].lock_ref = 0})
  IN  [nodes |-> AddToLocks(c, S, 1),
       evictable_size_ |-> c.evictable_size_ - delta,
       protected_size_ |-> c.protected_size_ + delta]

dec_lock_ref(c, node) ==
  LET S == Upward(c, node)
      delta == TokensIn(c, {p \in S : c.nodes[p].lock_ref = 1})
  IN  [nodes |-> AddToLocks(c, S, -1),
       evictable_size_ |-> c.evictable_size_ + delta,
       protected_size_ |-> c.protected_size_ - delta]

(* What evict may delete next: an unlocked leaf. *)
Victims(c) == {p \in Paths(c) \ {Root} : children(c, p) = {} /\ c.nodes[p].lock_ref = 0}

delete_leaf(c, node) ==
  [c EXCEPT !.nodes = [p \in Paths(c) \ {node} |-> c.nodes[p]],
            !.evictable_size_ = @ - Len(c.nodes[node].value)]

===============================================================================
