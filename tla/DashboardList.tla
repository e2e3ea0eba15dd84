---------------------------- MODULE DashboardList ----------------------------
(***************************************************************************)
(* The list of containers on the dashboard: the filters, the order, the    *)
(* grouping and the page, all kept in the URL; the containers that pass;   *)
(* the page of them that is drawn; and the rows that are ticked.  After    *)
(* every change two effects run: one drops from the ticked rows what is    *)
(* not on the page, one moves the page back when the list has become       *)
(* shorter.  The first sees the page as it was before the second.          *)
(***************************************************************************)
EXTENDS Integers, FiniteSets

CONSTANTS
    Containers, Hosts, States,
    HostOf,             \* [Containers -> Hosts]
    ProjectOf,          \* [Containers -> the compose project, or the PM2 namespace]
    Rank,               \* [Containers -> Nat]: creation time, and the order of the list
    Alphabet,           \* [States -> Nat]: how the names of states compare
    Searches, Finds,    \* search texts, "" among them; [Searches -> SUBSET Containers]
    Ranges, Covers,     \* date ranges, "none" among them; [Ranges -> SUBSET Containers]
    PageSizes, UrlPages \* sizes offered; the pages a URL may ask for

VARIABLES
    listing,            \* data.containers: the state of each container there is
    params,             \* the URL parameters
    selected            \* selectedContainerIds

listVars == <<listing, params, selected>>

Projects == {ProjectOf[c] : c \in Containers}

Params ==
    [search : Searches, state : States \cup {"all"}, host : Hosts \cup {"all"},
     sort : {"asc", "desc"}, sortBy : {"created", "state"}, group : {"none", "compose"},
     dates : Ranges, page : Int, pageSize : PageSizes, expanded : SUBSET Projects]

ListTypeOK ==
    /\ \E there \in SUBSET Containers : listing \in [there -> States]
    /\ params \in Params
    /\ selected \subseteq Containers

-----------------------------------------------------------------------------
\* matchesFilters, over a listing and parameters; the state counts ignore the
\* filter by state.
Matches(list, p, c, includeState) ==
    /\ c \in Finds[p.search]
    /\ p.host = "all" \/ HostOf[c] = p.host
    /\ c \in Covers[p.dates]
    /\ includeState => p.state = "all" \/ list[c] = p.state

\* getSortValue for the columns that order this list differently: the time of
\* creation and the state.
SortValue(list, p, c) ==
    IF p.sortBy = "created" THEN Rank[c] ELSE Alphabet[list[c]]

\* filteredContainers: equal values keep the order of the list.
Passing(list, p) == {c \in DOMAIN list : Matches(list, p, c, TRUE)}

FilteredContainers(list, p) ==
    LET passing == Passing(list, p)
        Before(a, b) ==
            LET va == SortValue(list, p, a)
                vb == SortValue(list, p, b)
            IN  \/ IF p.sort = "desc" THEN va > vb ELSE va < vb
                \/ va = vb /\ Rank[a] < Rank[b]
    IN  [c \in passing |-> Cardinality({d \in passing : Before(d, c)})]   \* its index

TotalPages(list, p) ==
    LET n == Cardinality(Passing(list, p))
    IN  IF n = 0 THEN 1 ELSE (n + p.pageSize - 1) \div p.pageSize

\* pageItems, as a set: the slice of a page below 1 ends before it starts.
PageItems(list, p) ==
    LET index == FilteredContainers(list, p)
    IN  {c \in DOMAIN index : index[c] \div p.pageSize = p.page - 1}

\* groupedItems: the projects of the page.
GroupsOnPage == {ProjectOf[c] : c \in PageItems(listing, params)}

\* stateCounts: what the summary says of each state.
StateCounts ==
    [s \in States |-> Cardinality({c \in DOMAIN listing :
                          Matches(listing, params, c, FALSE) /\ listing[c] = s})]

\* The rows that are drawn: of a group only when it is expanded.
Rows ==
    {c \in PageItems(listing, params) :
        params.group = "compose" => ProjectOf[c] \in params.expanded}

\* What the select box of the toolbar offers: the states there are.
StateChoices == {listing[c] : c \in DOMAIN listing} \cup {"all"}

-----------------------------------------------------------------------------
\* Fault: drops only what does not exist.
OnlyExisting(list, p, chosen) == chosen \cap DOMAIN list

\* The selection's effect, with the page as it was rendered.
OnPage(list, p, chosen) == chosen \cap PageItems(list, p)

\* The page's effect.
Shortened(list, p) ==
    [p EXCEPT !.page = IF @ > TotalPages(list, p) THEN TotalPages(list, p) ELSE @]

\* A render with a new listing and new parameters, its effects, and the render
\* that they cause.
Render(list, p, chosen) ==
    LET moved == Shortened(list, p)
    IN  /\ listing' = list
        /\ params' = moved
        /\ selected' = OnPage(list, moved, OnPage(list, p, chosen))

\* The URL asks for a page while the list is not there yet: with no container
\* there is one page, so that the effect of the first render forgets the page.
ListInit ==
    /\ listing = << >>
    /\ \E size \in PageSizes, asked \in UrlPages, group \in {"none", "compose"} :
          params = Shortened(<< >>,
                       [search |-> "", state |-> "all", host |-> "all", sort |-> "desc",
                        sortBy |-> "created", group |-> group, dates |-> "none",
                        page |-> asked, pageSize |-> size, expanded |-> {}])
    /\ selected = {}

\* updateParams: nothing is set when nothing would change.
UpdateParams(p) ==
    /\ p # params
    /\ Render(listing, p, selected)

-----------------------------------------------------------------------------
\* ["containers"] is fetched: at first, after 30 s in use, on a click, or after
\* an action.
Fetched ==
    \E there \in SUBSET Containers :
        \E list \in [there -> States] :
            /\ list # listing
            /\ Render(list, params, selected)

\* A URL is entered whose page the list may not have.
OpenUrl(page) == UpdateParams([params EXCEPT !.page = page])

SetSearchTerm(text) == UpdateParams([params EXCEPT !.search = text, !.page = 1])

SetStateFilter(state) ==
    /\ state \in StateChoices
    /\ UpdateParams([params EXCEPT !.state = state, !.page = 1])

SetHostFilter(host) == UpdateParams([params EXCEPT !.host = host, !.page = 1])

SetSort(direction, column) ==
    /\ direction = params.sort \/ column = params.sortBy    \* one menu at a time
    /\ UpdateParams([params EXCEPT !.sort = direction, !.sortBy = column])

SetGroupBy(group) == UpdateParams([params EXCEPT !.group = group, !.page = 1])

SetDateRange(range) == UpdateParams([params EXCEPT !.dates = range, !.page = 1])

SetPageSize(size) == UpdateParams([params EXCEPT !.pageSize = size, !.page = 1])

\* renderPaginationNumbers and the two arrows: the pages one click away.
PageLinks ==
    LET total == TotalPages(listing, params)
    IN  IF total <= 7
        THEN (1 .. total) \cup {params.page - 1, params.page + 1}
        ELSE {1, total, params.page - 1, params.page + 1}

\* handlePageClick.
SetPage(page) ==
    /\ page \in PageLinks
    /\ page >= 1 /\ page <= TotalPages(listing, params)
    /\ UpdateParams([params EXCEPT !.page = page])

\* handleToggleGroup.
ToggleGroup(project) ==
    /\ params.group = "compose" /\ project \in GroupsOnPage
    /\ UpdateParams([params EXCEPT !.expanded =
                        IF project \in @ THEN @ \ {project} ELSE @ \cup {project}])

-----------------------------------------------------------------------------
\* handleToggleSelect, by the box of a row.
ToggleSelect(c) ==
    /\ c \in Rows
    /\ selected' = IF c \in selected THEN selected \ {c} ELSE selected \cup {c}
    /\ UNCHANGED <<listing, params>>

\* handleSelectAll: the whole page, the rows of closed groups with it.
SelectAll ==
    /\ selected' = LET items == PageItems(listing, params)
                   IN  IF Cardinality(selected) = Cardinality(items) THEN {} ELSE items
    /\ UNCHANGED <<listing, params>>

\* The button "Clear", and the end of a batch.
ClearSelection ==
    /\ selected # {}
    /\ selected' = {}
    /\ UNCHANGED <<listing, params>>

ListNext ==
    \/ Fetched
    \/ \E page \in UrlPages : OpenUrl(page) \/ SetPage(page)
    \/ \E text \in Searches : SetSearchTerm(text)
    \/ \E state \in States \cup {"all"} : SetStateFilter(state)
    \/ \E host \in Hosts \cup {"all"} : SetHostFilter(host)
    \/ \E direction \in {"asc", "desc"}, column \in {"created", "state"} :
          SetSort(direction, column)
    \/ \E group \in {"none", "compose"} : SetGroupBy(group)
    \/ \E range \in Ranges : SetDateRange(range)
    \/ \E size \in PageSizes : SetPageSize(size)
    \/ \E project \in Projects : ToggleGroup(project)
    \/ \E c \in Containers : ToggleSelect(c)
    \/ SelectAll \/ ClearSelection

ListSpec == ListInit /\ [][ListNext]_listVars

-----------------------------------------------------------------------------
\* Whatever the filters, the page in the URL and the refetches did: while
\* containers pass the filters, a page the user can have asked for shows some
\* of them, and what is ticked, hence what a batch stops or removes, is on the
\* page that is shown (containers-dashboard.tsx:329-335, 590-600).
PageShowsWhatIsTicked ==
    /\ params.page >= 1 /\ Passing(listing, params) # {}
          => PageItems(listing, params) # {}
    /\ selected \subseteq PageItems(listing, params)
=============================================================================
