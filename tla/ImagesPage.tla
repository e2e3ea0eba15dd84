------------------------------ MODULE ImagesPage ------------------------------
(***************************************************************************)
(* The list of images of all hosts, removing one after a confirmation, and *)
(* pulling one to several hosts, one host after the other, in a dialog     *)
(* that can be cancelled or closed meanwhile.                              *)
(*                                                                         *)
(* The lines of progress, the sizes and the dates are left out.  A place   *)
(* is a host with an image; images are searched by their name only.        *)
(***************************************************************************)
EXTENDS Naturals, Sequences, FiniteSets

CONSTANTS
    Images, Hosts,
    ReadOnly,           \* what GET /api/v1/images says of the server
    MaxFlows            \* bound: removals and pulls, together

Places == Images \X Hosts
NoPlace == <<"none", "none">>
NoImage == "none"

VARIABLES
    there,          \* the images at the hosts
    query,          \* ["images"]: [pc, data], data as read when the server answered
    images,         \* the answer the page holds
    searchText,
    imageToDelete,
    removals,       \* the removals under way: [place, answer]
    isPullDialogOpen, imageName, selectedHosts,
    pull,           \* handlePull under way
    strays,         \* the places of cancelled pulls, which a host may still finish
    flows,          \* how many removals and pulls there have been
    untold          \* a history: the hosts changed since the list was read and nothing
                    \* told the page, or reading it again failed

imagesVars == <<there, query, images, searchText, imageToDelete, removals,
                isPullDialogOpen, imageName, selectedHosts, pull, strays, flows, untold>>

NoPull == [pc |-> "no", image |-> NoImage, hosts |-> << >>, at |-> 0, aborted |-> FALSE]

ImagesTypeOK ==
    /\ there \subseteq Places
    /\ query \in [pc : {"asking", "answered", "idle"}, data : SUBSET Places]
    /\ images \subseteq Places
    /\ searchText \in Images \cup {""}
    /\ imageToDelete \in Places \cup {NoPlace}
    /\ removals \subseteq [place : Places, answer : {"none", "done", "error"}]
    /\ isPullDialogOpen \in BOOLEAN
    /\ imageName \in Images \cup {""}
    /\ selectedHosts \in Seq(Hosts)
    /\ pull \in [pc : {"no", "asking", "done", "error"}, image : Images \cup {NoImage},
                 hosts : Seq(Hosts), at : 0 .. Cardinality(Hosts), aborted : BOOLEAN]
    /\ strays \subseteq Places
    /\ flows \in 0 .. MaxFlows /\ untold \in BOOLEAN

ImagesInit ==
    /\ there \in SUBSET Places /\ Cardinality(there) <= 2
    /\ query = [pc |-> "asking", data |-> {}]
    /\ images = {}
    /\ searchText = ""
    /\ imageToDelete = NoPlace /\ removals = {}
    /\ isPullDialogOpen = FALSE /\ imageName = "" /\ selectedHosts = << >>
    /\ pull = NoPull /\ strays = {}
    /\ flows = 0 /\ untold = FALSE

-----------------------------------------------------------------------------
(* The query and the table.                                                *)

QueryAnswers ==
    /\ query.pc = "asking"
    /\ query' = [pc |-> "answered", data |-> there]
    /\ untold' = FALSE
    /\ UNCHANGED <<there, images, searchText, imageToDelete, removals, isPullDialogOpen,
                   imageName, selectedHosts, pull, strays, flows>>
QueryArrives ==
    /\ query.pc = "answered"
    /\ images' = query.data
    /\ query' = [pc |-> "idle", data |-> {}]
    /\ UNCHANGED <<there, searchText, imageToDelete, removals, isPullDialogOpen,
                   imageName, selectedHosts, pull, strays, flows, untold>>

\* The last retry has failed: the page keeps what it has.
QueryFails ==
    /\ query.pc = "asking"
    /\ query' = [query EXCEPT !.pc = "idle"]
    /\ untold' = TRUE
    /\ UNCHANGED <<there, images, searchText, imageToDelete, removals, isPullDialogOpen,
                   imageName, selectedHosts, pull, strays, flows>>

\* invalidateQueries(["images"]), and refetch of the button: what is under
\* way is dropped and asked for anew.
Invalidate == query' = [pc |-> "asking", data |-> {}]

Reload ==
    /\ query.pc = "idle"
    /\ Invalidate
    /\ UNCHANGED <<there, images, searchText, imageToDelete, removals, isPullDialogOpen,
                   imageName, selectedHosts, pull, strays, flows, untold>>

\* filteredImages, the rows of the table; hosts, in the order of the list.
Rows == IF searchText = "" THEN images ELSE {p \in images : p[1] = searchText}
HostsListed == {p[2] : p \in images}

Search(text) ==
    /\ text # searchText /\ imageToDelete = NoPlace /\ ~isPullDialogOpen
    /\ searchText' = text
    /\ UNCHANGED <<there, query, images, imageToDelete, removals, isPullDialogOpen,
                   imageName, selectedHosts, pull, strays, flows, untold>>

-----------------------------------------------------------------------------
(* Removing an image.                                                      *)

\* The button of a row, which a read-only server does not offer.
AskToDelete(p) ==
    /\ ~ReadOnly /\ p \in Rows
    /\ imageToDelete = NoPlace /\ ~isPullDialogOpen
    /\ imageToDelete' = p
    /\ UNCHANGED <<there, query, images, searchText, removals, isPullDialogOpen, imageName,
                   selectedHosts, pull, strays, flows, untold>>

CancelDelete ==
    /\ imageToDelete # NoPlace
    /\ imageToDelete' = NoPlace
    /\ UNCHANGED <<there, query, images, searchText, removals, isPullDialogOpen, imageName,
                   selectedHosts, pull, strays, flows, untold>>

\* handleDelete up to its await; the action of the dialog closes it.
Delete ==
    /\ imageToDelete # NoPlace /\ flows < MaxFlows
    /\ \A r \in removals : r.place # imageToDelete      \* one request for one place
    /\ flows' = flows + 1
    /\ removals' = removals \cup {[place |-> imageToDelete, answer |-> "none"]}
    /\ imageToDelete' = NoPlace
    /\ UNCHANGED <<there, query, images, searchText, isPullDialogOpen, imageName,
                   selectedHosts, pull, strays, untold>>

\* The host removes the image, or refuses to: it may be in use or gone.  Its
\* answer may be lost, which is an error although the image is gone.
Removed(r) ==
    /\ r \in removals /\ r.answer = "none"
    /\ \E done \in BOOLEAN, a \in {"done", "error"} :
          /\ a = "done" => done
          /\ done => r.place \in there
          /\ removals' = (removals \ {r}) \cup {[r EXCEPT !.answer = a]}
          /\ there' = IF done THEN there \ {r.place} ELSE there
          /\ untold' = (untold \/ (done /\ a = "error"))
    /\ UNCHANGED <<query, images, searchText, imageToDelete, isPullDialogOpen, imageName,
                   selectedHosts, pull, strays, flows>>

\* The rest of handleDelete: its finally closes the confirmation that is
\* open by then, of whichever image.
DeleteEnds(r) ==
    /\ r \in removals /\ r.answer # "none"
    /\ removals' = removals \ {r}
    /\ imageToDelete' = NoPlace
    /\ IF r.answer = "done" THEN Invalidate ELSE UNCHANGED query
    /\ UNCHANGED <<there, images, searchText, isPullDialogOpen, imageName, selectedHosts,
                   pull, strays, flows, untold>>

-----------------------------------------------------------------------------
(* Pulling an image.                                                       *)

isPulling == pull.pc # "no"

\* openPullDialog selects the first host, if any has an image.
OpenPull ==
    /\ ~ReadOnly /\ ~isPullDialogOpen /\ imageToDelete = NoPlace
    /\ isPullDialogOpen' = TRUE
    /\ IF HostsListed = {} THEN selectedHosts' = << >>
       ELSE \E h \in HostsListed : selectedHosts' = <<h>>
    /\ UNCHANGED <<there, query, images, searchText, imageToDelete, removals, imageName,
                   pull, strays, flows, untold>>

\* handleClose(false): closing cancels, and forgets the name.
ClosePull ==
    /\ isPullDialogOpen
    /\ isPullDialogOpen' = FALSE
    /\ imageName' = ""
    /\ pull' = IF isPulling THEN [pull EXCEPT !.aborted = TRUE] ELSE pull
    /\ UNCHANGED <<there, query, images, searchText, imageToDelete, removals,
                   selectedHosts, strays, flows, untold>>

\* The input and the hosts can be changed while nothing is pulled.
TypeName(i) ==
    /\ isPullDialogOpen /\ ~isPulling /\ imageName # i
    /\ imageName' = i
    /\ UNCHANGED <<there, query, images, searchText, imageToDelete, removals,
                   isPullDialogOpen, selectedHosts, pull, strays, flows, untold>>
ToggleHost(h) ==
    /\ isPullDialogOpen /\ ~isPulling /\ h \in HostsListed
    /\ \/ \E i \in DOMAIN selectedHosts :      \* the one place of h
             /\ selectedHosts[i] = h
             /\ selectedHosts' = SubSeq(selectedHosts, 1, i - 1)
                                 \o SubSeq(selectedHosts, i + 1, Len(selectedHosts))
       \/ /\ \A i \in DOMAIN selectedHosts : selectedHosts[i] # h
          /\ selectedHosts' = Append(selectedHosts, h)
    /\ UNCHANGED <<there, query, images, searchText, imageToDelete, removals,
                   isPullDialogOpen, imageName, pull, strays, flows, untold>>

\* handlePull up to its first await.
Pull ==
    /\ isPullDialogOpen /\ ~isPulling
    /\ imageName # "" /\ selectedHosts # << >>
    /\ flows < MaxFlows
    /\ flows' = flows + 1
    /\ pull' = [pc |-> "asking", image |-> imageName, hosts |-> selectedHosts, at |-> 1,
                aborted |-> FALSE]
    /\ UNCHANGED <<there, query, images, searchText, imageToDelete, removals,
                   isPullDialogOpen, imageName, selectedHosts, strays, untold>>

\* handleCancel of the button.
CancelPull ==
    /\ isPullDialogOpen /\ isPulling /\ ~pull.aborted
    /\ pull' = [pull EXCEPT !.aborted = TRUE]
    /\ UNCHANGED <<there, query, images, searchText, imageToDelete, removals,
                   isPullDialogOpen, imageName, selectedHosts, strays, flows, untold>>

\* The host that is asked has pulled the image, or fails.
HostPulls ==
    /\ pull.pc = "asking"
    /\ \/ /\ there' = there \cup {<<pull.image, pull.hosts[pull.at]>>}
          /\ pull' = [pull EXCEPT !.pc = "done"]
       \/ /\ UNCHANGED there
          /\ pull' = [pull EXCEPT !.pc = "error"]
    /\ UNCHANGED <<query, images, searchText, imageToDelete, removals, isPullDialogOpen,
                   imageName, selectedHosts, strays, flows, untold>>

\* A host nobody waits for any more has pulled the image after all.
StrayPull(p) ==
    /\ p \in strays
    /\ strays' = strays \ {p}
    /\ there' = there \cup {p} /\ untold' = TRUE
    /\ UNCHANGED <<query, images, searchText, imageToDelete, removals, isPullDialogOpen,
                   imageName, selectedHosts, pull, flows>>

\* The request for the next host, which fetch refuses with a signal that has
\* fired; the loop ends with that, or after its last host.
AskNext ==
    IF pull.aborted \/ pull.at = Len(pull.hosts)
    THEN pull' = NoPull /\ Invalidate
    ELSE pull' = [pull EXCEPT !.pc = "asking", !.at = @ + 1] /\ UNCHANGED query

\* One round of the loop ends: with the host's answer, or without it, once
\* aborted or when the connection is lost.
PullProceeds ==
    /\ \/ pull.pc \in {"done", "error"} /\ UNCHANGED strays
       \/ /\ pull.pc = "asking"
          /\ strays' = strays \cup {<<pull.image, pull.hosts[pull.at]>>}
    /\ AskNext
    /\ UNCHANGED <<there, images, searchText, imageToDelete, removals, isPullDialogOpen,
                   imageName, selectedHosts, flows, untold>>

ImagesNext ==
    \/ QueryAnswers \/ QueryArrives \/ QueryFails \/ Reload
    \/ \E text \in Images \cup {""} : Search(text)
    \/ \E p \in Places : AskToDelete(p) \/ StrayPull(p)
    \/ CancelDelete \/ Delete
    \/ \E r \in removals : Removed(r) \/ DeleteEnds(r)
    \/ OpenPull \/ ClosePull \/ Pull \/ CancelPull \/ HostPulls \/ PullProceeds
    \/ \E i \in Images : TypeName(i)
    \/ \E h \in Hosts : ToggleHost(h)

ImagesSpec == ImagesInit /\ [][ImagesNext]_imagesVars

-----------------------------------------------------------------------------
\* When nothing is under way the table is what the hosts have: no removal
\* and no pull, cancelled or not, leaves the page with an older answer, but
\* for what a host did without anybody being told - a removal whose answer
\* was lost, a pull that went on - and for a list that could not be read
\* again (use-images-query.ts, image-pull-dialog.tsx handlePull).
RestShowsTheHosts ==
    query.pc = "idle" /\ removals = {} /\ ~isPulling /\ ~untold => images = there

\* Once a pull has been cancelled or its dialog closed, no further host is
\* asked for the image (image-pull-dialog.tsx, pull-image.ts).
CancelledAsksNoMore ==
    [][pull.aborted => pull'.at <= pull.at]_imagesVars
===============================================================================
