------------------------------ MODULE HistoryPage -----------------------------
(***************************************************************************)
(* The history of scans, a page of it at a time.  What the page asks for - *)
(* the filters and the number of the page - is the key its answers are     *)
(* kept under, so that going back shows what was answered then and asks    *)
(* again only when that has gone stale.                                    *)
(*                                                                         *)
(* A scan is known by when it completed.  The three filters, which reset   *)
(* the page alike, are one: the scans that match it; of the sort, which    *)
(* does not reset it, the direction is kept.  The page stays open and has  *)
(* the focus, and no answer is kept long enough to be forgotten.  KPI      *)
(* cards, badges and the export of a scan are left out.                    *)
(***************************************************************************)
EXTENDS Naturals, FiniteSets

CONSTANTS
    MaxScans,           \* bound
    MaxPage,            \* bound
    PageSize,
    Matching,           \* the scans the filter, when set, lets through
    Filters, Orders     \* whether it may be set, and which directions are used

PageAssumption ==
    /\ PageSize \in Nat \ {0} /\ MaxPage \in Nat \ {0}
    /\ FALSE \in Filters /\ Filters \subseteq BOOLEAN
    /\ TRUE \in Orders /\ Orders \subseteq BOOLEAN

Scans == 1 .. MaxScans
None == 0

VARIABLES
    stored,             \* the history at the server
    page, filtered, descending, \* params and the filter
    cache,              \* per key, the last answer; fresh until it is invalidated
    fetch,              \* per key, its request
    selectedScanId,
    deletion,           \* the one deletion under way: [id, answer]
    deleted             \* a history: the deletions that were told to have succeeded

historyVars == <<stored, page, filtered, descending, cache, fetch, selectedScanId,
                 deletion, deleted>>

\* An answer is old, a history, when a deletion was told after the server made
\* it and did not stop it, or when asking again has failed since.
Keys == (1 .. MaxPage) \X Filters \X Orders
Nothing == [rows |-> {}, pages |-> 0, fresh |-> FALSE, known |-> FALSE, old |-> FALSE]
NoFetch == [pc |-> "idle", rows |-> {}, pages |-> 0, old |-> FALSE]
Asking == [NoFetch EXCEPT !.pc = "asking"]
NoDeletion == [id |-> None, answer |-> "none"]

HistoryTypeOK ==
    /\ stored \subseteq Scans
    /\ page \in 1 .. MaxPage /\ filtered \in Filters /\ descending \in Orders
    /\ cache \in [Keys -> [rows : SUBSET Scans, pages : 0 .. MaxScans, fresh : BOOLEAN,
                           known : BOOLEAN, old : BOOLEAN]]
    /\ fetch \in [Keys -> [pc : {"asking", "answered", "idle"}, rows : SUBSET Scans,
                           pages : 0 .. MaxScans, old : BOOLEAN]]
    /\ selectedScanId \in Scans \cup {None}
    /\ deletion \in [id : Scans \cup {None}, answer : {"none", "done", "error"}]
    /\ deleted \subseteq Scans

Key == <<page, filtered, descending>>
historyData == cache[Key]

HistoryInit ==
    /\ stored \in {1 .. n : n \in 0 .. MaxScans}
    /\ page = 1 /\ filtered = FALSE /\ descending = TRUE
    /\ cache = [k \in Keys |-> Nothing]
    /\ fetch = [k \in Keys |-> IF k = Key THEN Asking ELSE NoFetch]
    /\ selectedScanId = None
    /\ deletion = NoDeletion
    /\ deleted = {}

-----------------------------------------------------------------------------
(* The server's answer to a key.                                           *)

Chosen(k) == IF k[2] THEN stored \cap Matching ELSE stored
Ahead(s, k) == Cardinality({t \in Chosen(k) : IF k[3] THEN t > s ELSE t < s})
RowsOf(k) == {s \in Chosen(k) : Ahead(s, k) \div PageSize = k[1] - 1}
PagesOf(k) == (Cardinality(Chosen(k)) + PageSize - 1) \div PageSize

FetchAnswers(k) ==
    /\ fetch[k].pc = "asking"
    /\ fetch' = [fetch EXCEPT ![k] = [pc |-> "answered", rows |-> RowsOf(k),
                                      pages |-> PagesOf(k), old |-> FALSE]]
    /\ UNCHANGED <<stored, page, filtered, descending, cache, selectedScanId,
                   deletion, deleted>>

\* Whichever key is shown by then; the answer counts as fresh from now on.
FetchArrives(k) ==
    /\ fetch[k].pc = "answered"
    /\ cache' = [cache EXCEPT ![k] = [rows |-> fetch[k].rows, pages |-> fetch[k].pages,
                                      fresh |-> TRUE, known |-> TRUE, old |-> fetch[k].old]]
    /\ fetch' = [fetch EXCEPT ![k] = NoFetch]
    /\ UNCHANGED <<stored, page, filtered, descending, selectedScanId, deletion,
                   deleted>>

\* The last retry has failed: what was answered before stays, and stays stale.
FetchFails(k) ==
    /\ fetch[k].pc = "asking"
    /\ cache' = [cache EXCEPT ![k].fresh = FALSE, ![k].old = cache[k].known]
    /\ fetch' = [fetch EXCEPT ![k] = NoFetch]
    /\ UNCHANGED <<stored, page, filtered, descending, selectedScanId, deletion,
                   deleted>>

\* A key one comes to is asked for, unless a request of it is under way still
\* or its answer is fresh and not ten seconds old.
Come(k) ==
    \/ fetch[k].pc = "idle" /\ fetch' = [fetch EXCEPT ![k] = Asking]
    \/ (fetch[k].pc # "idle" \/ cache[k].fresh) /\ UNCHANGED fetch

-----------------------------------------------------------------------------
\* The page turns to another key.  The request of the key that is left goes
\* on: the query functions take no signal to stop it by.
TurnTo(p, f, d) ==
    /\ page' = p /\ filtered' = f /\ descending' = d
    /\ Key' # Key /\ Come(Key')
    /\ UNCHANGED <<stored, cache, selectedScanId, deletion, deleted>>

\* The filters, and clearing them: back to the first page.  What does not
\* change the key changes nothing.
SetFilter == selectedScanId = None /\ \E f \in Filters : TurnTo(1, f, descending)

\* The head of a column, on whichever page one is.
ToggleSort == selectedScanId = None /\ \E d \in Orders : TurnTo(page, filtered, d)

\* The pagination, shown when the answer has more than one page.
PageLinks == selectedScanId = None /\ historyData.known /\ historyData.pages > 1
Previous == PageLinks /\ page > 1 /\ TurnTo(page - 1, filtered, descending)
NextPage == PageLinks /\ page < historyData.pages /\ page < MaxPage
            /\ TurnTo(page + 1, filtered, descending)

\* The details of a row, in a dialog over the page.
Select(s) ==
    /\ selectedScanId = None /\ historyData.known /\ s \in historyData.rows
    /\ selectedScanId' = s
    /\ UNCHANGED <<stored, page, filtered, descending, cache, fetch, deletion,
                   deleted>>
Deselect ==
    /\ selectedScanId # None
    /\ selectedScanId' = None
    /\ UNCHANGED <<stored, page, filtered, descending, cache, fetch, deletion,
                   deleted>>

-----------------------------------------------------------------------------
(* Deleting.                                                               *)

\* The buttons of all rows are disabled while a deletion is pending.
AskToDelete(s) ==
    /\ selectedScanId = None /\ historyData.known /\ s \in historyData.rows
    /\ deletion = NoDeletion
    /\ deletion' = [id |-> s, answer |-> "none"]
    /\ UNCHANGED <<stored, page, filtered, descending, cache, fetch,
                   selectedScanId, deleted>>

\* The answer may get lost, with and without an effect.
ServerDeletes ==
    /\ deletion.id # None /\ deletion.answer = "none"
    /\ \E done \in BOOLEAN, a \in {"done", "error"} :
          /\ a = "done" => done
          /\ deletion' = [deletion EXCEPT !.answer = a]
          /\ stored' = IF done THEN stored \ {deletion.id} ELSE stored
    /\ UNCHANGED <<page, filtered, descending, cache, fetch, selectedScanId,
                   deleted>>

\* invalidateQueries(["scanHistory"]): every answer is stale, and the key that
\* is shown is asked for again.  A request under way is dropped for it only if
\* its key is shown and has an answer to show meanwhile.  Any other goes on,
\* and its answer will count as fresh although it may have been made before
\* (external, @tanstack/react-query).
GoesOn(k) == fetch[k].pc # "idle" /\ (k = Key => ~cache[k].known)
Invalidate ==
    /\ cache' = [k \in Keys |-> [cache[k] EXCEPT !.fresh = FALSE]]
    /\ fetch' = [k \in Keys |->
          IF GoesOn(k) THEN [fetch[k] EXCEPT !.old = (fetch[k].pc = "answered")]
          ELSE IF k = Key THEN Asking ELSE fetch[k]]

\* useDeleteScanHistory's onSuccess; an error tells nobody.
DeletionEnds ==
    /\ deletion.answer # "none"
    /\ deletion' = NoDeletion
    /\ IF deletion.answer = "done"
       THEN Invalidate /\ deleted' = deleted \cup {deletion.id}
       ELSE UNCHANGED <<cache, fetch, deleted>>
    /\ UNCHANGED <<stored, page, filtered, descending, selectedScanId>>

HistoryNext ==
    \/ SetFilter \/ ToggleSort \/ Previous \/ NextPage
    \/ Deselect \/ ServerDeletes \/ DeletionEnds
    \/ \E k \in Keys : FetchAnswers(k) \/ FetchArrives(k) \/ FetchFails(k)
    \/ \E s \in Scans : Select(s) \/ AskToDelete(s)

HistorySpec == HistoryInit /\ [][HistoryNext]_historyVars

-----------------------------------------------------------------------------
\* A scan whose deletion was told is gone from the table once its key is not
\* asked for, on whichever page, under whichever filter and in whichever
\* order one comes to it, unless the answer shown is old: the one way it
\* comes back is a request the deletion did not stop, or one that failed
\* (useDeleteScanHistory).
DeletedIsGone ==
    fetch[Key].pc = "idle" /\ ~historyData.old => historyData.rows \cap deleted = {}
===============================================================================
