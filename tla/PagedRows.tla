------------------------------- MODULE PagedRows -------------------------------
(***************************************************************************)
(* The token slots that alloc_extend and alloc_decode give to the requests *)
(* of a batch.  rows[rank][req] is the request's row of req_to_token: slot *)
(* page * page_size + offset for each of its tokens.  The attention kernel *)
(* reads one page number per page_size tokens of a row, so a row must fill *)
(* its pages in order and share none of them.                              *)
(***************************************************************************)
EXTENDS PagedAllocator, SequencesExt

CONSTANTS Reqs,       \* requests
          PageSize,   \* page_size
          MaxLen      \* bound on the length of a row

ASSUME PageSizeAssumption == PageSize \in Nat \ {0}
ASSUME MaxLenAssumption == MaxLen \in Nat

VARIABLE rows

rowVars == <<vars, rows>>

PageOf(slot) == slot \div PageSize
PagesOf(row) == {PageOf(row[i]) : i \in DOMAIN row}
NumPagesFor(len) == (len + PageSize - 1) \div PageSize

LastLocForgotten(row) == -1

(* last_loc of a row; -1 stands before its first token. *)
LastLoc(row) == IF row = <<>> THEN -1 ELSE Last(row)

AscendingSeq(S) == SetToSortSeq(S, <)

(* total_new_pages: batch is a sequence of <<req, number of new tokens>>. *)
TotalNewPages(rank, batch) ==
  FoldLeft(LAMBDA n, e : n + NumPagesFor(Len(rows[rank][e[1]]) + e[2])
                           - NumPagesFor(Len(rows[rank][e[1]])),
           0, batch)

(* What one sequence of the batch gets: first the rest of its last page, then
   the pages from position page_idx on, the last of them possibly in part. *)
ExtendRow(row, extend_len, pages, page_idx) ==
  LET pre_len == Len(row)
      part1_size == Min({extend_len, NumPagesFor(pre_len) * PageSize - pre_len})
      Slot(i) == IF i <= part1_size
                 THEN LastLoc(row) + i
                 ELSE pages[page_idx + (i - part1_size - 1) \div PageSize] * PageSize
                        + ((i - part1_size - 1) % PageSize)
  IN  row \o [i \in 1..extend_len |-> Slot(i)]

(* The loop over the batch; the second component counts the pages used. *)
AllocExtendImpl(rank, batch, pages) ==
  FoldLeft(LAMBDA acc, e :
             LET row == rows[rank][e[1]]
                 room == NumPagesFor(Len(row)) * PageSize - Len(row)
                 rest == e[2] - Min({e[2], room})
             IN  <<[acc[1] EXCEPT ![e[1]] = ExtendRow(row, e[2], pages, acc[2] + 1)],
                   acc[2] + rest \div PageSize
                          + (IF rest % PageSize > 0 THEN 1 ELSE 0)>>,
           <<rows[rank], 0>>, batch)

NeverNeedsPage(row) == FALSE

(* needs_new_page and the loop of _alloc_decode_impl: one token per request. *)
NeedsNewPage(row) == NumPagesFor(Len(row) + 1) > NumPagesFor(Len(row))

AllocDecodeImpl(rank, batch, pages) ==
  FoldLeft(LAMBDA acc, req :
             LET row == rows[rank][req]
             IN  IF NeedsNewPage(row)
                 THEN <<[acc[1] EXCEPT ![req] = Append(@, pages[acc[2] + 1] * PageSize)],
                        acc[2] + 1>>
                 ELSE <<[acc[1] EXCEPT ![req] = Append(@, LastLoc(row) + 1)], acc[2]>>,
           <<rows[rank], 0>>, batch)
-------------------------------------------------------------------------------
RowInit == Init /\ rows = [rank \in Ranks |-> [req \in Reqs |-> <<>>]]

AllocExtend(rank, batch) ==
  \E T \in SUBSET Pages :
    /\ TakePages(rank, TotalNewPages(rank, batch), T)
    /\ rows' = [rows EXCEPT ![rank] = AllocExtendImpl(rank, batch, AscendingSeq(T))[1]]

AllocDecode(rank, batch) ==
  \E T \in SUBSET Pages :
    /\ TakePages(rank, Cardinality({req \in ToSet(batch) : NeedsNewPage(rows[rank][req])}), T)
    /\ rows' = [rows EXCEPT ![rank] = AllocDecodeImpl(rank, batch, AscendingSeq(T))[1]]

(* alloc(n * page_size): all slots of n pages, for a request without any. *)
AllocPages(rank, req, n) ==
  \E T \in SUBSET Pages :
    /\ rows[rank][req] = <<>> /\ n * PageSize <= MaxLen
    /\ TakePages(rank, n, T)
    /\ rows' = [rows EXCEPT ![rank][req] =
                  [i \in 1..(n * PageSize) |->
                     AscendingSeq(T)[(i - 1) \div PageSize + 1] * PageSize
                       + ((i - 1) % PageSize)]]

(* One of the three returns None. *)
AllocNone(rank, n) == AllocFails(rank, n) /\ UNCHANGED rows

(* Slots that are free already are freed again. *)
FreeAgain(rank, S) ==
  is_not_in_free_group /\ S \subseteq Listed(rank) /\ Free(rank, S) /\ UNCHANGED rows

(* clear() comes with the clearing of req_to_token. *)
ClearRows(R) ==
  /\ Clear(R)
  /\ rows' = [rank \in Ranks |-> IF rank \in R THEN [req \in Reqs |-> <<>>] ELSE rows[rank]]

(* The request ends: every slot of its row is freed. *)
ReleaseRow(rank, req) ==
  /\ rows[rank][req] # <<>>
  /\ Free(rank, PagesOf(rows[rank][req]))
  /\ rows' = [rows EXCEPT ![rank][req] = <<>>]

(* A request is on one rank at a time. *)
Here(rank) == {req \in Reqs : \A other \in Ranks \ {rank} : rows[other][req] = <<>>}

Batches(rank) ==
  {b \in SeqOf(Here(rank), Cardinality(Here(rank))) : b # <<>> /\ IsInjective(b)}

ExtendBatches(rank) ==
  {b \in UNION {[1..n -> Here(rank) \X (0..MaxLen)] : n \in 1..Cardinality(Here(rank))} :
     /\ IsInjective([i \in DOMAIN b |-> b[i][1]])
     /\ \A i \in DOMAIN b : Len(rows[rank][b[i][1]]) + b[i][2] <= MaxLen}

DecodeBatches(rank) ==
  {b \in Batches(rank) : \A i \in DOMAIN b : Len(rows[rank][b[i]]) \in 1..(MaxLen - 1)}

RowNext ==
  \/ \E rank \in Ranks : \E batch \in ExtendBatches(rank) : AllocExtend(rank, batch)
  \/ \E rank \in Ranks : \E batch \in DecodeBatches(rank) : AllocDecode(rank, batch)
  \/ \E rank \in Ranks, req \in Reqs : ReleaseRow(rank, req)
  \/ \E rank \in Ranks, n \in 1..NumPages : \E req \in Here(rank) : AllocPages(rank, req, n)
  \/ \E rank \in Ranks, n \in 1..(Cardinality(Reqs) * NumPagesFor(MaxLen)) : AllocNone(rank, n)
  \/ \E rank \in Ranks : \E S \in SUBSET Pages : FreeAgain(rank, S)
  \/ \E R \in {Ranks} \cup {{rank} : rank \in Ranks} : ClearRows(R)
  \/ (FreeGroupBegin \/ FreeGroupEnd) /\ UNCHANGED rows

RowSpec == RowInit /\ [][RowNext]_rowVars
-------------------------------------------------------------------------------
(* Token i of a row sits at offset (i-1) % page_size of a page, and all tokens of
   one logical page are in the same physical page: page_table[k] describes them. *)
RowLayout ==
  \A rank \in Ranks, req \in Reqs :
    LET row == rows[rank][req]
    IN  \A i \in DOMAIN row :
          /\ row[i] % PageSize = (i - 1) % PageSize
          /\ i > 1 /\ (i - 1) % PageSize # 0 => row[i] = row[i-1] + 1

(* The rows divide the held pages among them: no page serves two requests or two
   places of one row, and every page counted as taken is in some row. *)
RowsDivideHeld ==
  \A rank \in Ranks :
    /\ UNION {PagesOf(rows[rank][req]) : req \in Reqs} = held[rank]
    /\ \A r1, r2 \in Reqs :
         r1 # r2 => PagesOf(rows[rank][r1]) \cap PagesOf(rows[rank][r2]) = {}
    /\ \A req \in Reqs :
         Cardinality(PagesOf(rows[rank][req])) = NumPagesFor(Len(rows[rank][req]))

===============================================================================
