---------------------------- MODULE PagedAllocator ----------------------------
(***************************************************************************)
(* PagedTokenToKVPoolAllocator: the free lists of the paged KV pool.       *)
(*                                                                         *)
(* The code keeps two arrays of page numbers per rank.  free_pages is kept *)
(* sorted and allocation takes its head; free() puts pages in front of     *)
(* release_pages, which is merged into free_pages and sorted only when     *)
(* free_pages is too short.  The order inside release_pages is therefore   *)
(* never seen and an array is modelled by the set of its elements together *)
(* with its length: it has a duplicate exactly when the length exceeds the *)
(* cardinality.  Between free_group_begin and free_group_end freed indices *)
(* are only queued.                                                        *)
(***************************************************************************)
EXTENDS Integers, FiniteSets

CONSTANTS Ranks,    \* data-parallel ranks, each with its own pages
          NumPages  \* pages_per_rank

ASSUME NumPagesAssumption == NumPages \in Nat

Pages == 1..NumPages

VARIABLES
  free_pages,             \* free_pages[rank]: array, ascending
  release_pages,          \* release_pages[rank]: array, freed but not merged yet
  free_group,             \* free_group[rank]: pages of the queued indices
  is_not_in_free_group,   \* one flag for all ranks
  held                    \* held[rank]: pages callers were given and have not freed

vars == <<free_pages, release_pages, free_group, is_not_in_free_group, held>>

(* An array of page numbers whose order does not matter. *)
Arrays == [pages : SUBSET Pages, len : Nat]
EmptyArray == [pages |-> {}, len |-> 0]
FullArrayWithDummy == [pages |-> 0..NumPages, len |-> NumPages + 1]
FullArray == [pages |-> Pages, len |-> NumPages]
Concat(a, b) == [pages |-> a.pages \cup b.pages, len |-> a.len + b.len]

(* The first n entries of an ascending array. *)
Heads(a, n) == {T \in SUBSET a.pages :
                  /\ Cardinality(T) = n
                  /\ \A p \in T : \A q \in a.pages \ T : p < q}

available_size(rank) == free_pages[rank].len + release_pages[rank].len
-------------------------------------------------------------------------------
Init == /\ free_pages = [rank \in Ranks |-> FullArray]
        /\ release_pages = [rank \in Ranks |-> EmptyArray]
        /\ free_group = [rank \in Ranks |-> {}]
        /\ is_not_in_free_group = TRUE
        /\ held = [rank \in Ranks |-> {}]

(* free_pages[rank] as it is when n pages are about to be taken: merged with
   release_pages[rank] when it is too short by itself. *)
MustMerge(rank, n) == n > free_pages[rank].len

CandidatesForgetReleased(rank, n) == free_pages[rank]

Candidates(rank, n) ==
  IF MustMerge(rank, n) THEN Concat(free_pages[rank], release_pages[rank])
                        ELSE free_pages[rank]

Merge(rank, n) ==
  release_pages' = IF MustMerge(rank, n)
                   THEN [release_pages EXCEPT ![rank] = EmptyArray]
                   ELSE release_pages

TakeClosesGroup(rank, n, T) ==
  LET all == Concat(Candidates(rank, n),
                    [pages |-> free_group[rank], len |-> Cardinality(free_group[rank])])
  IN  /\ n <= all.len
      /\ T \in Heads(all, n)
      /\ free_pages' = [free_pages EXCEPT ![rank] =
                          [pages |-> all.pages \ T, len |-> all.len - n]]
      /\ Merge(rank, n)
      /\ free_group' = [free_group EXCEPT ![rank] = {}]
      /\ held' = [held EXCEPT ![rank] = @ \cup T]
      /\ UNCHANGED is_not_in_free_group

(* The common part of alloc, alloc_extend and alloc_decode: T are the n pages
   taken from the head of the list. *)
TakePages(rank, n, T) ==
  /\ n <= Candidates(rank, n).len
  /\ T \in Heads(Candidates(rank, n), n)
  /\ free_pages' = [free_pages EXCEPT ![rank] =
                      [pages |-> Candidates(rank, n).pages \ T,
                       len   |-> Candidates(rank, n).len - n]]
  /\ Merge(rank, n)
  /\ held' = [held EXCEPT ![rank] = @ \cup T]
  /\ UNCHANGED <<free_group, is_not_in_free_group>>

Alloc(rank, n) == \E T \in SUBSET Pages : TakePages(rank, n, T)

(* Not enough pages: None is returned, yet the merge has been done. *)
AllocFails(rank, n) ==
  /\ n > Candidates(rank, n).len
  /\ free_pages' = [free_pages EXCEPT ![rank] = Candidates(rank, n)]
  /\ Merge(rank, n)
  /\ UNCHANGED <<free_group, is_not_in_free_group, held>>

UnlistedForgetsReleased(rank, S) == S \ free_pages[rank].pages

(* np.unique of the freed pages, minus those already in one of the lists. *)
Unlisted(rank, S) == (S \ release_pages[rank].pages) \ free_pages[rank].pages

Released(rank, S) ==
  LET new == Unlisted(rank, S)
  IN  Concat([pages |-> new, len |-> Cardinality(new)], release_pages[rank])

(* S are the pages of the indices handed to free().  Callers free what they
   hold; outside a free group a page that is already listed does no harm. *)
Free(rank, S) ==
  /\ S # {}
  /\ \/ /\ is_not_in_free_group
        /\ S \subseteq held[rank] \cup free_pages[rank].pages
                         \cup release_pages[rank].pages
        /\ release_pages' = [release_pages EXCEPT ![rank] = Released(rank, S)]
        /\ UNCHANGED free_group
     \/ /\ ~is_not_in_free_group
        /\ S \subseteq held[rank]
        /\ free_group' = [free_group EXCEPT ![rank] = @ \cup S]
        /\ UNCHANGED release_pages
  /\ held' = [held EXCEPT ![rank] = @ \ S]
  /\ UNCHANGED <<free_pages, is_not_in_free_group>>

FreeGroupBegin ==
  /\ is_not_in_free_group' = FALSE
  /\ UNCHANGED <<free_pages, release_pages, free_group, held>>

FreeGroupEnd ==
  /\ is_not_in_free_group' = TRUE
  /\ release_pages' = [rank \in Ranks |-> Released(rank, free_group[rank])]
  /\ free_group' = [rank \in Ranks |-> {}]
  /\ UNCHANGED <<free_pages, held>>

(* clear(): R is one rank or all of them; the flag is reset in either case. *)
Clear(R) ==
  /\ free_pages' = [rank \in Ranks |-> IF rank \in R THEN FullArray ELSE free_pages[rank]]
  /\ release_pages' = [rank \in Ranks |->
                         IF rank \in R THEN EmptyArray ELSE release_pages[rank]]
  /\ free_group' = [rank \in Ranks |-> IF rank \in R THEN {} ELSE free_group[rank]]
  /\ held' = [rank \in Ranks |-> IF rank \in R THEN {} ELSE held[rank]]
  /\ is_not_in_free_group' = TRUE

Next ==
  \/ \E rank \in Ranks, n \in 0..NumPages : Alloc(rank, n) \/ AllocFails(rank, n)
  \/ \E rank \in Ranks : \E S \in SUBSET Pages : Free(rank, S)
  \/ FreeGroupBegin
  \/ FreeGroupEnd
  \/ \E R \in {Ranks} \cup {{rank} : rank \in Ranks} : Clear(R)

Spec == Init /\ [][Next]_vars
-------------------------------------------------------------------------------
(* The lists hold page numbers of the pool, never the dummy page 0. *)
TypeOK ==
  /\ free_pages \in [Ranks -> Arrays]
  /\ release_pages \in [Ranks -> Arrays]
  /\ free_group \in [Ranks -> SUBSET Pages]
  /\ is_not_in_free_group \in BOOLEAN
  /\ held \in [Ranks -> SUBSET Pages]

(* No page is listed twice: the arrays have no duplicates and do not overlap.
   This is what makes available_size() a page count. *)
NoDuplicates ==
  \A rank \in Ranks :
    /\ free_pages[rank].len = Cardinality(free_pages[rank].pages)
    /\ release_pages[rank].len = Cardinality(release_pages[rank].pages)
    /\ free_pages[rank].pages \cap release_pages[rank].pages = {}

Listed(rank) == free_pages[rank].pages \cup release_pages[rank].pages

(* A page is listed as free, queued in the free group or held by a caller: never
   two of these (it would be given out twice) and never none (it would leak). *)
PagePartition ==
  \A rank \in Ranks :
    /\ Listed(rank) \cap held[rank] = {}
    /\ Listed(rank) \cap free_group[rank] = {}
    /\ free_group[rank] \cap held[rank] = {}
    /\ Listed(rank) \cup free_group[rank] \cup held[rank] = Pages

(* The abstract pool: a queued page counts as held until its free group ends. *)
PoolFree == [rank \in Ranks |-> Listed(rank)]
PoolHeld == [rank \in Ranks |-> held[rank] \cup free_group[rank]]

Pool == INSTANCE KVPool WITH free <- PoolFree, held <- PoolHeld

(* The allocator implements KVPool: every call, whatever its merging, queueing and
   deduplication, moves pages the way the abstract pool allows, or not at all. *)
ImplementsKVPool == Pool!Spec

===============================================================================
