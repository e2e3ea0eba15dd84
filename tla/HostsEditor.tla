------------------------------ MODULE HostsEditor -----------------------------
(***************************************************************************)
(* The editors of the Docker and of the Coolify hosts on the settings      *)
(* page: a draft of the hosts in the file of the server, one row of which  *)
(* may be under edit, with a test for every host.                          *)
(*                                                                         *)
(* A host is its name and what stands beside it: the address of a Docker   *)
(* host; the token of a Coolify host, which is shown masked (its address   *)
(* is left out).  What is typed into a form is chosen when the form is     *)
(* used, and what a test answers is not shown.  A row also carries the     *)
(* name it was loaded under: nothing in the code reads that, only the      *)
(* properties do.                                                          *)
(***************************************************************************)
EXTENDS Naturals, Sequences

CONSTANTS
    Names, EnvNames,    \* hosts of the file, hosts of the environment
    Values, Typed,      \* what may stand beside a name, and what is typed
    First,              \* what the file may hold at first
    MaxRows, MaxEdits, MaxOthers    \* bounds

None == "none"
Masked == "masked"

VARIABLES
    section,            \* "docker" or "coolify"
    stored,             \* the hosts in the server's file: a sequence of [name, value]
    others,             \* how many times somebody else saved
    listed,             \* config.hosts, the last answer, without those of the environment
    fetch,              \* [pc, hosts], the request for the settings
    fileHosts,          \* the draft: a sequence of [name, value, was]
    edits,              \* how many times it was changed
    editing,            \* [index, was]; index 0: no row is under edit
    isAdding,
    save,               \* [pc, hosts], updateMutation
    testingKeys,
    latest,             \* the host of the last test, until it answers
    overtaken           \* a history: testingKeys whose test was overtaken by a later one

hostsVars == <<section, stored, others, listed, fetch, fileHosts, edits, editing, isAdding,
               save, testingKeys, latest, overtaken>>

AllNames == Names \cup EnvNames
Shown == Values \cup {Masked}
Rows == [name : Names, value : Shown, was : Names \cup {None}]
Lists(S) == UNION {[1 .. n -> S] : n \in 0 .. MaxRows}
Members(rows) == {rows[i] : i \in DOMAIN rows}
Without(rows, i) == SubSeq(rows, 1, i - 1) \o SubSeq(rows, i + 1, Len(rows))
NoEdit == [index |-> 0, was |-> None]
Idle == [pc |-> "idle", hosts |-> <<>>]

HostsTypeOK ==
    /\ section \in {"docker", "coolify"}
    /\ stored \in Lists([name : Names, value : Values])
    /\ others \in 0 .. MaxOthers
    /\ listed \in Lists([name : Names, value : Shown])
    /\ fetch.pc \in {"idle", "asking", "answered"}
    /\ fileHosts \in Lists(Rows) /\ edits \in 0 .. MaxEdits
    /\ editing \in [index : 0 .. MaxRows, was : Names \cup {None}]
    /\ isAdding \in BOOLEAN
    /\ save.pc \in {"idle", "asking", "done", "error"}
    /\ testingKeys \subseteq AllNames /\ latest \in AllNames \cup {None}
    /\ overtaken \subseteq testingKeys

\* The answer of the settings: tokens are masked.
View(hosts) ==
    [i \in DOMAIN hosts |->
        IF section = "coolify" THEN [hosts[i] EXCEPT !.value = Masked] ELSE hosts[i]]

\* A draft as it is loaded.
Loaded(hosts) ==
    [i \in DOMAIN hosts |->
        [name |-> hosts[i].name, value |-> hosts[i].value, was |-> hosts[i].name]]

Plain(rows) == [i \in DOMAIN rows |-> [name |-> rows[i].name, value |-> rows[i].value]]

Distinct(rows) == \A i, j \in DOMAIN rows : rows[i].name = rows[j].name => i = j

HostsInit ==
    /\ section \in {"docker", "coolify"}
    /\ stored \in First
    /\ others = 0
    /\ listed = View(stored) /\ fetch = Idle
    /\ fileHosts = Loaded(listed) /\ edits = 0
    /\ editing = NoEdit /\ isAdding = FALSE
    /\ save = Idle
    /\ testingKeys = {} /\ latest = None /\ overtaken = {}

-----------------------------------------------------------------------------
(* The settings query.                                                     *)

\* It is stale, and the page is looked at again.  While the last answer is an
\* error the page shows nothing else, and begins anew, as in HostsInit, with
\* the next one; that is left out.
Refetch ==
    /\ fetch.pc = "idle"
    /\ fetch' = [Idle EXCEPT !.pc = "asking"]
    /\ UNCHANGED <<section, stored, others, listed, fileHosts, edits, editing,
                   isAdding, save, testingKeys, latest, overtaken>>

FetchAnswers ==
    /\ fetch.pc = "asking"
    /\ fetch' = [pc |-> "answered", hosts |-> View(stored)]
    /\ UNCHANGED <<section, stored, others, listed, fileHosts, edits, editing,
                   isAdding, save, testingKeys, latest, overtaken>>

\* The effect on config.hosts, which is another object only when the answer
\* differs: the draft and all that belongs to it start again.
FollowConfig ==
    IF fetch.hosts = listed
    THEN UNCHANGED <<fileHosts, editing, isAdding, testingKeys, overtaken>>
    ELSE /\ fileHosts' = Loaded(fetch.hosts)
         /\ editing' = NoEdit /\ isAdding' = FALSE
         /\ testingKeys' = {} /\ overtaken' = {}

FetchArrives ==
    /\ fetch.pc = "answered"
    /\ listed' = fetch.hosts /\ fetch' = Idle
    /\ FollowConfig
    /\ UNCHANGED <<section, stored, others, edits, save, latest>>

\* Somebody else saves the hosts.
OtherSaves ==
    /\ others < MaxOthers
    /\ others' = others + 1
    /\ \E i \in DOMAIN stored :
          stored' \in {Without(stored, i)} \cup {[stored EXCEPT ![i].value = v] : v \in Typed}
    /\ UNCHANGED <<section, listed, fetch, fileHosts, edits, editing, isAdding, save,
                   testingKeys, latest, overtaken>>

-----------------------------------------------------------------------------
(* The draft.                                                              *)

\* A row's buttons.
RowButtons(i) == i \in DOMAIN fileHosts /\ editing.index = 0

Edit == edits < MaxEdits /\ edits' = edits + 1

handleRemove(i) ==
    /\ RowButtons(i)
    /\ fileHosts' = Without(fileHosts, i) /\ Edit
    /\ UNCHANGED <<section, stored, others, listed, fetch, editing, isAdding, save,
                   testingKeys, latest, overtaken>>

handleStartEdit(i) ==
    /\ RowButtons(i)
    /\ editing' = [index |-> i, was |-> fileHosts[i].was]
    /\ UNCHANGED <<section, stored, others, listed, fetch, fileHosts, edits, isAdding,
                   save, testingKeys, latest, overtaken>>

handleCancelEdit ==
    /\ editing # NoEdit
    /\ editing' = NoEdit
    /\ UNCHANGED <<section, stored, others, listed, fetch, fileHosts, edits, isAdding,
                   save, testingKeys, latest, overtaken>>

\* The row under edit keeps its name or takes one no other has, and keeps
\* what stands beside it or is given another.
MayBecome(i, n) ==
    /\ n \notin EnvNames
    /\ \A j \in DOMAIN fileHosts : j # i => fileHosts[j].name # n

handleSaveEdit(n, v) ==
    LET i == editing.index IN
    /\ i # 0
    /\ MayBecome(i, n)
    /\ v \in Typed \cup {fileHosts[i].value}
    /\ fileHosts' = [fileHosts EXCEPT ![i].name = n, ![i].value = v] /\ Edit
    /\ editing' = NoEdit
    /\ UNCHANGED <<section, stored, others, listed, fetch, isAdding, save, testingKeys, latest,
                   overtaken>>

OpenOrCloseForm ==
    /\ isAdding' = ~isAdding
    /\ UNCHANGED <<section, stored, others, listed, fetch, fileHosts, edits, editing,
                   save, testingKeys, latest, overtaken>>

handleAddHost(n, v) ==
    /\ isAdding /\ Len(fileHosts) < MaxRows
    /\ MayBecome(0, n)
    /\ fileHosts' = Append(fileHosts, [name |-> n, value |-> v, was |-> None]) /\ Edit
    /\ isAdding' = FALSE
    /\ UNCHANGED <<section, stored, others, listed, fetch, editing, save, testingKeys, latest,
                   overtaken>>

-----------------------------------------------------------------------------
(* Saving.                                                                 *)

hasChanges == Plain(fileHosts) # listed

handleSave ==
    /\ hasChanges /\ save.pc = "idle"
    /\ save' = [pc |-> "asking", hosts |-> fileHosts]
    /\ UNCHANGED <<section, stored, others, listed, fetch, fileHosts, edits, editing,
                   isAdding, testingKeys, latest, overtaken>>

\* The server's token of a row: what was typed, or the one it has for a host
\* of that name.
Kept(row) == {s.value : s \in {t \in Members(stored) : t.name = row.name}}
Token(row) == IF row.value = Masked THEN CHOOSE v \in Kept(row) : TRUE ELSE row.value

Accepted(rows) ==
    /\ Distinct(rows)
    /\ \A row \in Members(rows) : row.value = Masked => Kept(row) # {}

\* The answer may be lost, which is an error.
ServerUpdates ==
    /\ save.pc = "asking" /\ Accepted(save.hosts)
    /\ stored' = [i \in DOMAIN save.hosts |->
                     [name |-> save.hosts[i].name, value |-> Token(save.hosts[i])]]
    /\ \E answer \in {"done", "error"} : save' = [save EXCEPT !.pc = answer]
    /\ UNCHANGED <<section, others, listed, fetch, fileHosts, edits, editing, isAdding,
                   testingKeys, latest, overtaken>>

\* What is not accepted is refused, and what is may fail.
ServerRefuses ==
    /\ save.pc = "asking"
    /\ save' = [save EXCEPT !.pc = "error"]
    /\ UNCHANGED <<section, stored, others, listed, fetch, fileHosts, edits, editing,
                   isAdding, testingKeys, latest, overtaken>>

\* onSuccess asks for the settings again, instead of a request under way.
SaveEnds ==
    /\ save.pc \in {"done", "error"}
    /\ save' = Idle
    /\ fetch' = IF save.pc = "done" THEN [Idle EXCEPT !.pc = "asking"] ELSE fetch
    /\ UNCHANGED <<section, stored, others, listed, fileHosts, edits, editing, isAdding,
                   testingKeys, latest, overtaken>>

-----------------------------------------------------------------------------
(* Testing a host of the draft.  The callbacks given to mutate are called  *)
(* only if no other test was started on the way.                           *)

\* The rows with a Test button: that of a row under edit is gone, and a
\* Coolify host of the environment has none.
Testable ==
    {fileHosts[i].name : i \in DOMAIN fileHosts \ {editing.index}}
    \cup (IF section = "docker" THEN EnvNames ELSE {})

handleTest(k) ==
    /\ k \in Testable \ testingKeys
    /\ testingKeys' = testingKeys \cup {k}
    /\ latest' = k
    /\ overtaken' = overtaken \cup ({latest} \cap testingKeys)
    /\ UNCHANGED <<section, stored, others, listed, fetch, fileHosts, edits, editing, isAdding,
                   save>>

\* The last test answers; the answers of others are not heard.
TestEnds ==
    /\ latest # None
    /\ testingKeys' = testingKeys \ {latest} /\ overtaken' = overtaken \ {latest}
    /\ latest' = None
    /\ UNCHANGED <<section, stored, others, listed, fetch, fileHosts, edits, editing, isAdding,
                   save>>

HostsNext ==
    \/ Refetch \/ FetchAnswers \/ FetchArrives \/ OtherSaves
    \/ handleCancelEdit \/ OpenOrCloseForm
    \/ \E i \in 1 .. MaxRows : handleRemove(i) \/ handleStartEdit(i)
    \/ \E n \in AllNames, v \in Shown : handleSaveEdit(n, v)
    \/ \E n \in AllNames, v \in Typed : handleAddHost(n, v)
    \/ handleSave \/ ServerUpdates \/ ServerRefuses \/ SaveEnds
    \/ \E k \in AllNames : handleTest(k)
    \/ TestEnds

HostsSpec == HostsInit /\ [][HostsNext]_hostsVars

-----------------------------------------------------------------------------
\* Whatever comes between Edit and Done, Done changes the row that Edit was
\* pressed on; and no two rows of the table have one name (handleSaveEdit,
\* handleAddHost and the effect on config.hosts).
DoneChangesTheRow ==
    /\ editing.index # 0 =>
          /\ editing.index \in DOMAIN fileHosts
          /\ fileHosts[editing.index].was = editing.was
    /\ Distinct(fileHosts)
    /\ \A row \in Members(fileHosts) : row.name \notin EnvNames

\* A host whose test goes on spinning is being tested, or its test was
\* overtaken by another (handleTest).
SpinnersAreTests ==
    testingKeys \subseteq {latest} \cup overtaken

\* A host that is renamed takes the name of another stored host.
Trades(rows) ==
    \E row \in Members(rows) : row.was # row.name /\ row.name \in {s.name : s \in Members(stored)}

\* A token that is left masked is kept: the host it was loaded with has it
\* after the save, unless hosts trade names on the way or somebody else
\* removes or changes it (the placeholder of handleSaveEdit's form:
\* "Leave masked to keep existing").
MaskedIsKept ==
    [][\A i \in DOMAIN save.hosts :
          LET row == save.hosts[i] IN
          save'.pc = "done" /\ save.pc = "asking" /\ row.value = Masked
              /\ ~Trades(save.hosts)
          => \E s \in Members(stored) : s.name = row.was /\ stored'[i].value = s.value]_hostsVars
===============================================================================
