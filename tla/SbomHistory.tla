------------------------------ MODULE SbomHistory -----------------------------
(***************************************************************************)
(* The page of generated SBOMs: HistoryPage over the SBOMs of the server,  *)
(* sorted either way, with the details of one in a dialog.  SBOMs are      *)
(* generated meanwhile, from the page of images.  The download of a        *)
(* document, which keeps no state here, is left out; how a document is     *)
(* written and removed is SbomArtifacts'.                                  *)
(***************************************************************************)
EXTENDS Naturals, FiniteSets

CONSTANTS MaxScans, MaxPage, PageSize, Matching, Filters, Orders    \* as HistoryPage

VARIABLES
    stored, page, filtered, descending, cache, fetch, selectedScanId, deletion, deleted,
    made,               \* how many SBOMs there have been
    read                \* the SBOMs whose details a dialog has

pageVars == <<stored, page, filtered, descending, cache, fetch, selectedScanId, deletion,
              deleted>>
sbomHistoryVars == <<pageVars, made, read>>

Page == INSTANCE HistoryPage

SBOMs == Page!Scans

SbomHistoryTypeOK ==
    Page!HistoryTypeOK /\ made \in 0 .. MaxScans /\ read \subseteq SBOMs

SbomHistoryInit == Page!HistoryInit /\ made \in 0 .. MaxScans /\ stored = 1 .. made /\ read = {}

\* The newest SBOM, of another page: this one is not told.
Generated ==
    /\ made < MaxScans
    /\ made' = made + 1
    /\ stored' = stored \cup {made'}
    /\ UNCHANGED <<page, filtered, descending, cache, fetch, selectedScanId, deletion,
                   deleted, read>>

\* GetSBOMHistoryDetail answers the dialog, which keeps what it has read
\* and, when there is nothing (any more), stays as it is.
DetailsArrive ==
    /\ selectedScanId \in stored
    /\ read' = read \cup {selectedScanId}
    /\ UNCHANGED <<pageVars, made>>

-----------------------------------------------------------------------------
(* What the user does, as on the page of scans.                            *)

SetFilter == Page!SetFilter
ToggleSort == Page!ToggleSort
ClickRow == \E s \in SBOMs : Page!Select(s) \/ Page!AskToDelete(s)
TurnPage == Page!Previous \/ Page!NextPage
CloseDetails == Page!Deselect

Answers ==
    \E k \in Page!Keys : Page!FetchAnswers(k) \/ Page!FetchArrives(k) \/ Page!FetchFails(k)
Deletes == Page!ServerDeletes \/ Page!DeletionEnds

SbomHistoryNext ==
    \/ Generated \/ DetailsArrive
    \/ /\ SetFilter \/ ToggleSort \/ ClickRow \/ TurnPage \/ CloseDetails
       /\ UNCHANGED <<made, read>>
    \/ (Answers \/ Deletes) /\ UNCHANGED <<made, read>>

SbomHistorySpec == SbomHistoryInit /\ [][SbomHistoryNext]_sbomHistoryVars

-----------------------------------------------------------------------------
\* An SBOM whose deletion was told is gone from the table, whatever is
\* generated, opened and sorted meanwhile, unless the answer shown is old, as
\* DeletedIsGone of HistoryPage (useDeleteSBOMHistory).
DeletedSbomIsGone == Page!DeletedIsGone
===============================================================================
