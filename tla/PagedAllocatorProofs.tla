------------------------- MODULE PagedAllocatorProofs -------------------------
(***************************************************************************)
(* Proofs about PagedAllocator, for any number of ranks and pages.         *)
(*                                                                         *)
(* NoDuplicates and PagePartition need each other: a page that leaves held *)
(* is put in release_pages only when it is in neither list, and this keeps *)
(* lengths equal to cardinalities only because the lists are disjoint.     *)
(* With TypeOK their conjunction is inductive.                             *)
(***************************************************************************)
EXTENDS PagedAllocator, FiniteSetTheorems, TLAPS

IInv == TypeOK /\ NoDuplicates /\ PagePartition

(* Sets of pages are finite, and their sizes are natural numbers. *)
LEMMA PagesFinite ==
  \A S \in SUBSET Pages : IsFiniteSet(S) /\ Cardinality(S) \in Nat
<1>1. IsFiniteSet(Pages)
  BY FS_Interval, NumPagesAssumption DEF Pages
<1>2. TAKE S \in SUBSET Pages
<1>3. IsFiniteSet(S)
  BY <1>1, FS_Subset
<1> QED BY <1>3, FS_CardinalityType

(* Sizes of disjoint unions and of differences, the only facts about
   Cardinality the invariant needs. *)
LEMMA DisjointUnionSize ==
  ASSUME NEW S \in SUBSET Pages, NEW T \in SUBSET Pages, S \cap T = {}
  PROVE  Cardinality(S \cup T) = Cardinality(S) + Cardinality(T)
<1>1. IsFiniteSet(S) /\ IsFiniteSet(T)
  BY PagesFinite
<1>2. Cardinality(S \cup T) =
        Cardinality(S) + Cardinality(T) - Cardinality(S \cap T)
  BY <1>1, FS_Union
<1>3. Cardinality(S \cap T) = 0
  BY FS_EmptySet
<1> QED BY <1>2, <1>3, PagesFinite

(* What is left of a finite set without a subset of it.                    *)
LEMMA SubsetDifferenceSize ==
  ASSUME NEW S \in SUBSET Pages, NEW T \in SUBSET S
  PROVE  Cardinality(S \ T) = Cardinality(S) - Cardinality(T)
<1>1. IsFiniteSet(S)
  BY PagesFinite
<1>2. Cardinality(S \ T) = Cardinality(S) - Cardinality(S \cap T)
  BY <1>1, FS_Difference
<1>3. S \cap T = T
  OBVIOUS
<1> QED BY <1>2, <1>3

(* Pages are numbered from one.                                            *)
LEMMA PageCount == Cardinality(Pages) = NumPages
  BY FS_Interval, NumPagesAssumption DEF Pages

(* What an allocation may take: an array without duplicates made of pages that
   were listed, whether or not release_pages had to be merged. *)
LEMMA CandidatesFacts ==
  ASSUME IInv, NEW rank \in Ranks, NEW n \in Nat
  PROVE  /\ Candidates(rank, n) \in Arrays
         /\ Candidates(rank, n).len = Cardinality(Candidates(rank, n).pages)
         /\ Candidates(rank, n).pages \cup
              (IF MustMerge(rank, n) THEN {} ELSE release_pages[rank].pages) = Listed(rank)
<1>1. /\ free_pages[rank] \in Arrays /\ release_pages[rank] \in Arrays
  BY DEF IInv, TypeOK
<1>2. CASE MustMerge(rank, n)
  <2>1. Candidates(rank, n) =
          [pages |-> free_pages[rank].pages \cup release_pages[rank].pages,
           len |-> free_pages[rank].len + release_pages[rank].len]
    BY <1>2 DEF Candidates, Concat
  <2>2. Cardinality(free_pages[rank].pages \cup release_pages[rank].pages) =
          Cardinality(free_pages[rank].pages) + Cardinality(release_pages[rank].pages)
    BY <1>1, DisjointUnionSize DEF IInv, NoDuplicates, Arrays
  <2> QED BY <1>1, <1>2, <2>1, <2>2 DEF IInv, NoDuplicates, Arrays, Listed
<1>3. CASE ~MustMerge(rank, n)
  BY <1>1, <1>3 DEF Candidates, IInv, NoDuplicates, Arrays, Listed
<1> QED BY <1>2, <1>3

(* Freeing pages keeps release_pages free of duplicates: what is added is new
   to both lists. *)
LEMMA ReleasedFacts ==
  ASSUME IInv, NEW rank \in Ranks, NEW S \in SUBSET Pages
  PROVE  /\ Released(rank, S) \in Arrays
         /\ Released(rank, S).len = Cardinality(Released(rank, S).pages)
         /\ Released(rank, S).pages = Unlisted(rank, S) \cup release_pages[rank].pages
<1>1. release_pages[rank] \in Arrays
  BY DEF IInv, TypeOK
<1>2. Unlisted(rank, S) \in SUBSET Pages /\ Unlisted(rank, S) \cap release_pages[rank].pages = {}
  BY DEF Unlisted
<1>3. Cardinality(Unlisted(rank, S)) \in Nat
  BY <1>2, PagesFinite
<1>4. Released(rank, S) =
        [pages |-> Unlisted(rank, S) \cup release_pages[rank].pages,
         len |-> Cardinality(Unlisted(rank, S)) + release_pages[rank].len]
  BY DEF Released, Concat
<1>5. Cardinality(Unlisted(rank, S) \cup release_pages[rank].pages) =
        Cardinality(Unlisted(rank, S)) + Cardinality(release_pages[rank].pages)
  BY <1>1, <1>2, DisjointUnionSize DEF Arrays
<1> QED BY <1>1, <1>2, <1>3, <1>4, <1>5 DEF IInv, NoDuplicates, Arrays

(* A step keeps the arrays of all ranks but one as they are, so the facts below
   are about the rank an action works on. *)
LEMMA TakeStep ==
  ASSUME IInv, NEW rank \in Ranks, NEW n \in Nat, NEW T \in SUBSET Pages,
         TakePages(rank, n, T)
  PROVE  IInv'
<1> DEFINE c == Candidates(rank, n)
<1>1. /\ c \in Arrays
      /\ c.len = Cardinality(c.pages)
      /\ c.pages \cup (IF MustMerge(rank, n) THEN {} ELSE release_pages[rank].pages)
           = Listed(rank)
  BY CandidatesFacts
<1>2. /\ T \subseteq c.pages
      /\ Cardinality(T) = n
      /\ n <= c.len
  BY DEF TakePages, Heads
<1>3. Cardinality(c.pages \ T) = c.len - n
  BY <1>1, <1>2, SubsetDifferenceSize DEF Arrays
<1>4. [pages |-> c.pages \ T, len |-> c.len - n] \in Arrays
  BY <1>1, <1>2 DEF Arrays
<1> HIDE DEF c
<1>5. free_pages' = [free_pages EXCEPT ![rank] = [pages |-> c.pages \ T, len |-> c.len - n]]
  BY DEF TakePages, c
<1>6. release_pages' = IF MustMerge(rank, n)
                       THEN [release_pages EXCEPT ![rank] = EmptyArray] ELSE release_pages
  BY DEF TakePages, Merge
<1>7. /\ held' = [held EXCEPT ![rank] = @ \cup T]
      /\ free_group' = free_group
      /\ is_not_in_free_group' = is_not_in_free_group
  BY DEF TakePages
<1>8. EmptyArray \in Arrays /\ EmptyArray.pages = {} /\ EmptyArray.len = 0
  BY DEF EmptyArray, Arrays
<1>9. TypeOK'
  BY <1>4, <1>5, <1>6, <1>7, <1>8 DEF IInv, TypeOK
<1>10. c.pages \cap release_pages[rank].pages = {} \/ MustMerge(rank, n)
  BY DEF c, Candidates, IInv, NoDuplicates
<1>11. NoDuplicates'
  <2> SUFFICES ASSUME NEW r \in Ranks
               PROVE  /\ free_pages'[r].len = Cardinality(free_pages'[r].pages)
                      /\ release_pages'[r].len = Cardinality(release_pages'[r].pages)
                      /\ free_pages'[r].pages \cap release_pages'[r].pages = {}
    BY DEF NoDuplicates
  <2>1. CASE r = rank
    BY <2>1, <1>3, <1>5, <1>6, <1>8, <1>10, FS_EmptySet DEF IInv, NoDuplicates, TypeOK
  <2>2. CASE r # rank
    BY <2>2, <1>5, <1>6 DEF IInv, NoDuplicates, TypeOK
  <2> QED BY <2>1, <2>2
<1>12. PagePartition'
  <2> SUFFICES ASSUME NEW r \in Ranks
               PROVE  /\ Listed(r)' \cap held'[r] = {}
                      /\ Listed(r)' \cap free_group'[r] = {}
                      /\ free_group'[r] \cap held'[r] = {}
                      /\ Listed(r)' \cup free_group'[r] \cup held'[r] = Pages
    BY DEF PagePartition
  <2>1. CASE r = rank
    <3>1. Listed(r)' = Listed(r) \ T
      BY <2>1, <1>1, <1>2, <1>5, <1>6, <1>8, <1>10 DEF Listed, IInv, TypeOK, c
    <3>2. held'[r] = held[r] \cup T /\ T \subseteq Listed(r)
      BY <2>1, <1>1, <1>2, <1>7 DEF IInv, TypeOK, c
    <3> QED BY <3>1, <3>2, <1>7 DEF IInv, PagePartition
  <2>2. CASE r # rank
    BY <2>2, <1>5, <1>6, <1>7 DEF IInv, PagePartition, Listed, TypeOK
  <2> QED BY <2>1, <2>2
<1> QED BY <1>9, <1>11, <1>12 DEF IInv

(* An allocation that fails has merged the released pages at most.         *)
LEMMA FailStep ==
  ASSUME IInv, NEW rank \in Ranks, NEW n \in Nat, AllocFails(rank, n)
  PROVE  IInv' /\ \A r \in Ranks : Listed(r)' = Listed(r)
<1> DEFINE c == Candidates(rank, n)
<1>1. /\ c \in Arrays
      /\ c.len = Cardinality(c.pages)
      /\ c.pages \cup (IF MustMerge(rank, n) THEN {} ELSE release_pages[rank].pages)
           = Listed(rank)
  BY CandidatesFacts
<1>2. c.pages \cap release_pages[rank].pages = {} \/ MustMerge(rank, n)
  BY DEF Candidates, IInv, NoDuplicates
<1>3. /\ free_pages' = [free_pages EXCEPT ![rank] = c]
      /\ release_pages' = IF MustMerge(rank, n)
                          THEN [release_pages EXCEPT ![rank] = EmptyArray] ELSE release_pages
      /\ held' = held /\ free_group' = free_group
      /\ is_not_in_free_group' = is_not_in_free_group
  BY DEF AllocFails, Merge
<1>4. EmptyArray \in Arrays /\ EmptyArray.pages = {} /\ EmptyArray.len = 0
  BY DEF EmptyArray, Arrays
<1> HIDE DEF c
<1>5. TypeOK'
  BY <1>1, <1>3, <1>4 DEF IInv, TypeOK
<1>6. NoDuplicates'
  BY <1>1, <1>2, <1>3, <1>4, FS_EmptySet DEF IInv, NoDuplicates, TypeOK
<1>7. \A r \in Ranks : Listed(r)' = Listed(r)
  BY <1>1, <1>3, <1>4 DEF Listed, IInv, TypeOK
<1>8. PagePartition'
  BY <1>3, <1>7 DEF IInv, PagePartition
<1> QED BY <1>5, <1>6, <1>7, <1>8 DEF IInv

(* free, inside a group and outside of one.                                *)
LEMMA FreeStep ==
  ASSUME IInv, NEW rank \in Ranks, NEW S \in SUBSET Pages, Free(rank, S)
  PROVE  IInv'
<1>1. CASE is_not_in_free_group
  <2> DEFINE rel == Released(rank, S)
  <2>1. /\ rel \in Arrays
        /\ rel.len = Cardinality(rel.pages)
        /\ rel.pages = Unlisted(rank, S) \cup release_pages[rank].pages
    BY ReleasedFacts
  <2> HIDE DEF rel
  <2>2. /\ release_pages' = [release_pages EXCEPT ![rank] = rel]
        /\ S \subseteq held[rank] \cup Listed(rank)
        /\ free_group' = free_group /\ free_pages' = free_pages
        /\ is_not_in_free_group' = is_not_in_free_group
        /\ held' = [held EXCEPT ![rank] = @ \ S]
    BY <1>1 DEF Free, rel, Listed
  <2>3. TypeOK'
    BY <2>1, <2>2 DEF IInv, TypeOK
  <2>4. NoDuplicates'
    BY <2>1, <2>2 DEF IInv, NoDuplicates, TypeOK, Unlisted
  <2>5. PagePartition'
    <3> SUFFICES ASSUME NEW r \in Ranks
                 PROVE  /\ Listed(r)' \cap held'[r] = {}
                        /\ Listed(r)' \cap free_group'[r] = {}
                        /\ free_group'[r] \cap held'[r] = {}
                        /\ Listed(r)' \cup free_group'[r] \cup held'[r] = Pages
      BY DEF PagePartition
    <3>1. CASE r = rank
      <4>1. Listed(r)' = Listed(r) \cup S /\ held'[r] = held[r] \ S
        BY <3>1, <2>1, <2>2 DEF Listed, Unlisted, IInv, TypeOK
      <4> QED BY <4>1, <3>1, <2>2 DEF IInv, PagePartition
    <3>2. CASE r # rank
      BY <3>2, <2>2 DEF Listed, IInv, TypeOK, PagePartition
    <3> QED BY <3>1, <3>2
  <2> QED BY <2>3, <2>4, <2>5 DEF IInv
<1>2. CASE ~is_not_in_free_group
  <2>1. /\ free_group' = [free_group EXCEPT ![rank] = @ \cup S]
        /\ held' = [held EXCEPT ![rank] = @ \ S]
        /\ S \subseteq held[rank]
        /\ UNCHANGED <<free_pages, release_pages, is_not_in_free_group>>
    BY <1>2 DEF Free
  <2> QED BY <2>1 DEF IInv, TypeOK, NoDuplicates, PagePartition, Listed
<1> QED BY <1>1, <1>2

(* free_group_end releases what the group collected.                       *)
LEMMA GroupEndStep ==
  ASSUME IInv, FreeGroupEnd
  PROVE  IInv' /\ \A r \in Ranks : Listed(r)' = Listed(r) \cup free_group[r]
<1>1. /\ release_pages' = [r \in Ranks |-> Released(r, free_group[r])]
      /\ free_group' = [r \in Ranks |-> {}]
      /\ is_not_in_free_group' = TRUE
      /\ UNCHANGED <<free_pages, held>>
  BY DEF FreeGroupEnd
<1>2. \A r \in Ranks :
        /\ Released(r, free_group[r]) \in Arrays
        /\ Released(r, free_group[r]).len = Cardinality(Released(r, free_group[r]).pages)
        /\ Released(r, free_group[r]).pages =
             Unlisted(r, free_group[r]) \cup release_pages[r].pages
  BY ReleasedFacts DEF IInv, TypeOK
<1>3. \A r \in Ranks : Unlisted(r, free_group[r]) = free_group[r]
  BY DEF Unlisted, IInv, PagePartition, Listed
<1>4. TypeOK'
  BY <1>1, <1>2 DEF IInv, TypeOK
<1>5. NoDuplicates'
  BY <1>1, <1>2, <1>3 DEF IInv, NoDuplicates, PagePartition, Listed
<1>6. \A r \in Ranks : Listed(r)' = Listed(r) \cup free_group[r]
  BY <1>1, <1>2, <1>3 DEF Listed
<1>7. PagePartition'
  BY <1>1, <1>6 DEF IInv, PagePartition
<1> QED BY <1>4, <1>5, <1>6, <1>7 DEF IInv

(* clear makes all pages free.                                             *)
LEMMA ClearStep ==
  ASSUME IInv, NEW R \in SUBSET Ranks, Clear(R)
  PROVE  IInv'
<1>1. FullArray \in Arrays /\ FullArray.pages = Pages /\ FullArray.len = Cardinality(Pages)
  BY PageCount, NumPagesAssumption DEF FullArray, Arrays
<1>2. EmptyArray \in Arrays /\ EmptyArray.pages = {} /\ EmptyArray.len = 0
  BY DEF EmptyArray, Arrays
<1>3. TypeOK'
  BY <1>1, <1>2 DEF IInv, TypeOK, Clear
<1>4. NoDuplicates'
  BY <1>1, <1>2, FS_EmptySet DEF IInv, NoDuplicates, Clear
<1>5. PagePartition'
  BY <1>1, <1>2 DEF IInv, PagePartition, Clear, Listed
<1> QED BY <1>3, <1>4, <1>5 DEF IInv

-------------------------------------------------------------------------------
(* All pages are free at first.                                            *)
LEMMA InitIInv == Init => IInv
<1> SUFFICES ASSUME Init PROVE IInv
  OBVIOUS
<1>1. FullArray \in Arrays /\ FullArray.pages = Pages /\ FullArray.len = Cardinality(Pages)
  BY PageCount, NumPagesAssumption DEF FullArray, Arrays
<1>2. EmptyArray \in Arrays /\ EmptyArray.pages = {} /\ EmptyArray.len = 0
  BY DEF EmptyArray, Arrays
<1> QED BY <1>1, <1>2, FS_EmptySet
        DEF Init, IInv, TypeOK, NoDuplicates, PagePartition, Listed

(* Every operation keeps the invariant.                                    *)
LEMMA NextIInv == IInv /\ [Next]_vars => IInv'
<1> SUFFICES ASSUME IInv, [Next]_vars PROVE IInv'
  OBVIOUS
<1>1. ASSUME NEW rank \in Ranks, NEW n \in 0..NumPages, Alloc(rank, n) PROVE IInv'
  BY <1>1, TakeStep, NumPagesAssumption DEF Alloc
<1>2. ASSUME NEW rank \in Ranks, NEW n \in 0..NumPages, AllocFails(rank, n) PROVE IInv'
  BY <1>2, FailStep, NumPagesAssumption
<1>3. ASSUME NEW rank \in Ranks, NEW S \in SUBSET Pages, Free(rank, S) PROVE IInv'
  BY <1>3, FreeStep
<1>4. CASE FreeGroupBegin
  BY <1>4 DEF FreeGroupBegin, IInv, TypeOK, NoDuplicates, PagePartition, Listed
<1>5. CASE FreeGroupEnd
  BY <1>5, GroupEndStep
<1>6. ASSUME NEW R \in {Ranks} \cup {{rank} : rank \in Ranks}, Clear(R) PROVE IInv'
  BY <1>6, ClearStep
<1>7. CASE UNCHANGED vars
  BY <1>7 DEF vars, IInv, TypeOK, NoDuplicates, PagePartition, Listed
<1> QED BY <1>1, <1>2, <1>3, <1>4, <1>5, <1>6, <1>7 DEF Next

(* The inductive invariant holds in every reachable state of the allocator. *)
THEOREM AlwaysIInv == Spec => []IInv
  BY InitIInv, NextIInv, PTL DEF Spec

(* The allocator's variables keep their types whatever calls are made. *)
THEOREM TypeCorrect == Spec => []TypeOK
<1>1. IInv => TypeOK
  BY DEF IInv
<1> QED BY <1>1, AlwaysIInv, PTL

(* No sequence of alloc, free, free-group and clear calls lists a page twice, so
   available_size() never counts a page two times. *)
THEOREM ListsHaveNoDuplicates == Spec => []NoDuplicates
<1>1. IInv => NoDuplicates
  BY DEF IInv
<1> QED BY <1>1, AlwaysIInv, PTL

(* Every page is listed, queued or held, and only one of these: the allocator
   neither loses a page nor gives one to two callers. *)
THEOREM PagesArePartitioned == Spec => []PagePartition
<1>1. IInv => PagePartition
  BY DEF IInv
<1> QED BY <1>1, AlwaysIInv, PTL
-------------------------------------------------------------------------------
(* An initial state of the allocator is one of the pool.                   *)
LEMMA InitMaps == Init => Pool!Init
<1> SUFFICES ASSUME Init PROVE Pool!Init
  OBVIOUS
<1> QED BY DEF Init, Pool!Init, PoolFree, PoolHeld, Listed, FullArray, EmptyArray

(* An allocation is an abstract Alloc of the same pages. *)
LEMMA TakeMaps ==
  ASSUME IInv, NEW rank \in Ranks, NEW n \in Nat, NEW T \in SUBSET Pages,
         TakePages(rank, n, T)
  PROVE  Pool!Alloc
<1>1. /\ Candidates(rank, n).pages \cup
           (IF MustMerge(rank, n) THEN {} ELSE release_pages[rank].pages) = Listed(rank)
      /\ T \subseteq Candidates(rank, n).pages
  BY CandidatesFacts DEF TakePages, Heads
<1>2. IInv'
  BY TakeStep
<1>3. \A r \in Ranks : Listed(r)' = IF r = rank THEN Listed(r) \ T ELSE Listed(r)
  <2> SUFFICES ASSUME NEW r \in Ranks
               PROVE  Listed(r)' = IF r = rank THEN Listed(r) \ T ELSE Listed(r)
    OBVIOUS
  <2>1. CASE r = rank
    <3>1. held'[r] = held[r] \cup T /\ free_group'[r] = free_group[r]
      BY <2>1 DEF TakePages, IInv, TypeOK
    <3> QED BY <2>1, <3>1, <1>1, <1>2 DEF IInv, PagePartition
  <2>2. CASE r # rank
    BY <2>2 DEF TakePages, Merge, Listed, IInv, TypeOK
  <2> QED BY <2>1, <2>2
<1>4. \A r \in Ranks :
        held'[r] \cup free_group'[r] =
          IF r = rank THEN (held[r] \cup free_group[r]) \cup T ELSE held[r] \cup free_group[r]
  BY DEF TakePages, IInv, TypeOK
<1>5. T \in SUBSET Listed(rank)
  BY <1>1
<1>6. PoolFree' = [PoolFree EXCEPT ![rank] = @ \ T]
  BY <1>3 DEF PoolFree
<1>7. PoolHeld' = [PoolHeld EXCEPT ![rank] = @ \cup T]
  BY <1>4 DEF PoolHeld
<1>8. T \in SUBSET PoolFree[rank]
  BY <1>5 DEF PoolFree
<1> QED BY <1>6, <1>7, <1>8 DEF Pool!Alloc

(* Outside a free group a free is an abstract Free of the pages that were held;
   inside one nothing changes abstractly. *)
LEMMA FreeMaps ==
  ASSUME IInv, NEW rank \in Ranks, NEW S \in SUBSET Pages, Free(rank, S)
  PROVE  Pool!Free \/ UNCHANGED <<PoolFree, PoolHeld>>
<1>1. CASE is_not_in_free_group
  <2> DEFINE F == [r \in Ranks |-> IF r = rank THEN S \cap held[rank] ELSE {}]
  <2>1. /\ release_pages' = [release_pages EXCEPT ![rank] = Released(rank, S)]
        /\ S \subseteq held[rank] \cup Listed(rank)
        /\ UNCHANGED <<free_group, free_pages>>
        /\ held' = [held EXCEPT ![rank] = @ \ S]
    BY <1>1 DEF Free, Listed
  <2>2. Released(rank, S).pages = Unlisted(rank, S) \cup release_pages[rank].pages
    BY ReleasedFacts
  <2>3. \A r \in Ranks : Listed(r)' = Listed(r) \cup F[r]
    BY <2>1, <2>2 DEF Listed, Unlisted, IInv, TypeOK
  <2>4. \A r \in Ranks : held'[r] = held[r] \ F[r]
    BY <2>1 DEF IInv, TypeOK
  <2>5. F \in [Ranks -> SUBSET Pages] /\ \A r \in Ranks : F[r] \subseteq held[r]
    OBVIOUS
  <2> HIDE DEF F
  <2>6. PoolFree' = [r \in Ranks |-> PoolFree[r] \cup F[r]]
    BY <2>3 DEF PoolFree
  <2>7. PoolHeld' = [r \in Ranks |-> PoolHeld[r] \ F[r]]
    BY <2>1, <2>4, <2>5 DEF PoolHeld, IInv, PagePartition
  <2>8. \A r \in Ranks : F[r] \subseteq PoolHeld[r]
    BY <2>5 DEF PoolHeld
  <2> QED BY <2>5, <2>6, <2>7, <2>8 DEF Pool!Free
<1>2. CASE ~is_not_in_free_group
  <2>1. /\ free_group' = [free_group EXCEPT ![rank] = @ \cup S]
        /\ held' = [held EXCEPT ![rank] = @ \ S]
        /\ S \subseteq held[rank]
        /\ UNCHANGED <<free_pages, release_pages>>
    BY <1>2 DEF Free
  <2> QED BY <2>1 DEF PoolFree, PoolHeld, Listed, IInv, TypeOK
<1> QED BY <1>1, <1>2

(* free_group_end is a step of the pool or none.                           *)
LEMMA GroupEndMaps ==
  ASSUME IInv, FreeGroupEnd
  PROVE  Pool!Free
<1>1. \A r \in Ranks : Listed(r)' = Listed(r) \cup free_group[r]
  BY GroupEndStep
<1>2. free_group \in [Ranks -> SUBSET Pages]
  BY DEF IInv, TypeOK
<1>3. \A r \in Ranks : free_group[r] \subseteq PoolHeld[r]
  BY DEF PoolHeld
<1>4. PoolFree' = [r \in Ranks |-> PoolFree[r] \cup free_group[r]]
  BY <1>1 DEF PoolFree
<1>5. PoolHeld' = [r \in Ranks |-> PoolHeld[r] \ free_group[r]]
  BY DEF FreeGroupEnd, PoolHeld, IInv, PagePartition
<1> QED BY <1>2, <1>3, <1>4, <1>5 DEF Pool!Free

(* Every operation is a step of the pool or none.                          *)
LEMMA NextMaps ==
  ASSUME IInv, [Next]_vars
  PROVE  [Pool!Next]_<<PoolFree, PoolHeld>>
<1>1. ASSUME NEW rank \in Ranks, NEW n \in 0..NumPages, Alloc(rank, n) PROVE Pool!Next
  BY <1>1, TakeMaps, NumPagesAssumption DEF Alloc, Pool!Next
<1>2. ASSUME NEW rank \in Ranks, NEW n \in 0..NumPages, AllocFails(rank, n)
      PROVE  UNCHANGED <<PoolFree, PoolHeld>>
  <2>1. \A r \in Ranks : Listed(r)' = Listed(r)
    BY <1>2, FailStep, NumPagesAssumption
  <2> QED BY <1>2, <2>1 DEF AllocFails, PoolFree, PoolHeld
<1>3. ASSUME NEW rank \in Ranks, NEW S \in SUBSET Pages, Free(rank, S)
      PROVE  Pool!Next \/ UNCHANGED <<PoolFree, PoolHeld>>
  BY <1>3, FreeMaps DEF Pool!Next
<1>4. CASE FreeGroupBegin
  BY <1>4 DEF FreeGroupBegin, PoolFree, PoolHeld, Listed
<1>5. CASE FreeGroupEnd
  BY <1>5, GroupEndMaps DEF Pool!Next
<1>6. ASSUME NEW R \in {Ranks} \cup {{rank} : rank \in Ranks}, Clear(R) PROVE Pool!Next
  <2>1. R \in SUBSET Ranks
    OBVIOUS
  <2>2. PoolFree' = [r \in Ranks |-> IF r \in R THEN Pages ELSE PoolFree[r]]
    BY <1>6 DEF Clear, PoolFree, Listed, FullArray, EmptyArray
  <2>3. PoolHeld' = [r \in Ranks |-> IF r \in R THEN {} ELSE PoolHeld[r]]
    BY <1>6 DEF Clear, PoolHeld
  <2> QED BY <2>1, <2>2, <2>3 DEF Pool!Clear, Pool!Next
<1>7. CASE UNCHANGED vars
  BY <1>7 DEF vars, PoolFree, PoolHeld, Listed
<1> QED BY <1>1, <1>2, <1>3, <1>4, <1>5, <1>6, <1>7 DEF Next

(* The paged allocator implements the abstract KV pool, for any number of ranks
   and pages: its callers may reason with KVPool alone. *)
THEOREM Refinement == Spec => ImplementsKVPool
<1>1. IInv /\ [Next]_vars => [Pool!Next]_Pool!vars
  BY NextMaps DEF Pool!vars
<1> QED BY <1>1, InitMaps, AlwaysIInv, PTL DEF Spec, ImplementsKVPool, Pool!Spec

===============================================================================
