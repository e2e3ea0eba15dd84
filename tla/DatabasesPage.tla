----------------------------- MODULE DatabasesPage ----------------------------
(***************************************************************************)
(* The page of databases: instances, the databases of the one shown, the   *)
(* tables of the one chosen, and a table's columns and rows.  Each list is *)
(* a query whose key is the path to it, and effects repair the selection   *)
(* after every render, until they find nothing to repair.                  *)
(*                                                                         *)
(* A level is the length of a path: 0 asks for the instances, 3 for the    *)
(* columns and rows of a table, which are one query here.  Retries of a    *)
(* request are part of it.  A request whose key the page leaves is as if   *)
(* it had not been made.                                                   *)
(***************************************************************************)
EXTENDS Naturals, Sequences

CONSTANTS
    Instances, Databases, Tables,   \* numbers, listed in their order
    Catalogues,         \* what the server may have: sets of paths
    MaxChanges, MaxFailures \* bounds: how often that changes, and requests fail

None == 0
Levels == 0 .. 3

\* The keys of the queries that are enabled.
Keys == {<<>>} \cup {<<i>> : i \in Instances} \cup (Instances \X Databases)
        \cup (Instances \X Databases \X Tables)
Listable == Instances \cup Databases \cup Tables

VARIABLES
    catalogue, changes, failures,
    selected,           \* the keys of the instance, the database and the table
    cache,              \* per key: [known, items, error]
    fetch,              \* the request of each level: [pc, items]
    rounds,             \* of effects, since the last event
    picked              \* a history: the path the user chose, as far as every answer
                        \* since has listed it

databasesVars == <<catalogue, changes, failures, selected, cache, fetch, rounds, picked>>

Nothing == [known |-> FALSE, items |-> {}, error |-> FALSE]
Idle == [pc |-> "idle", items |-> {}]
Asking == [Idle EXCEPT !.pc = "asking"]

DatabasesTypeOK ==
    /\ catalogue \in Catalogues /\ changes \in 0 .. MaxChanges /\ failures \in 0 .. MaxFailures
    /\ selected \in (Instances \cup {None}) \X (Databases \cup {None}) \X (Tables \cup {None})
    /\ cache \in [Keys -> [known : BOOLEAN, items : SUBSET Listable, error : BOOLEAN]]
    /\ fetch \in [Levels -> [pc : {"idle", "asking", "answered"}, items : SUBSET Listable]]
    /\ rounds \in Nat
    /\ picked \in Keys

DatabasesInit ==
    /\ catalogue \in Catalogues /\ changes = 0 /\ failures = 0
    /\ selected = <<None, None, None>>
    /\ cache = [k \in Keys |-> Nothing]
    /\ fetch = [l \in Levels |-> IF l = 0 THEN Asking ELSE Idle]
    /\ rounds = 0 /\ picked = <<>>

-----------------------------------------------------------------------------
(* What a render makes of a selection and of the answers.                  *)

\* The first of a list, and the one selected or else the first.
FirstOf(names) == IF names = {} THEN None ELSE CHOOSE n \in names : \A m \in names : n <= m
OrFirst(name, names) == IF name \in names THEN name ELSE FirstOf(names)

Items(c, k) == IF k \in Keys THEN c[k].items ELSE {}

selectedInstance(s, c) == OrFirst(s[1], c[<<>>].items)
databases(s, c) == Items(c, <<selectedInstance(s, c)>>)
tables(s, c) == Items(c, <<selectedInstance(s, c), s[2]>>)
selectedTable(s, c) == OrFirst(s[3], tables(s, c))

Path(s, c) == <<selectedInstance(s, c), s[2], selectedTable(s, c)>>
Shown == Path(selected, cache)
Key(l) == SubSeq(Shown, 1, l)

Enabled(k) == k \in Keys

\* A query whose key has changed is asked, if it is enabled.
Rerender(s, c, asked) ==
    /\ selected' = s /\ cache' = c
    /\ fetch' = [l \in Levels |->
          LET k == SubSeq(Path(s, c), 1, l) IN
          IF k = Key(l) THEN asked[l] ELSE IF Enabled(k) THEN Asking ELSE Idle]

\* The three effects, in their order: the last to set a state wins.
AfterEffects(s, c) ==
    LET instance == selectedInstance(s, c)
        table == selectedTable(s, c)
        gone == s[2] \notin databases(s, c)
    IN  << IF instance = None \/ s[1] = None THEN instance ELSE s[1],
           OrFirst(s[2], databases(s, c)),
           IF table # None /\ s[3] = None THEN table
           ELSE IF table = None \/ gone THEN None ELSE s[3] >>

Settled == AfterEffects(selected, cache) = selected

Effects ==
    /\ ~Settled
    /\ Rerender(AfterEffects(selected, cache), cache, fetch)
    /\ rounds' = rounds + 1
    /\ UNCHANGED <<catalogue, changes, failures, picked>>

-----------------------------------------------------------------------------
(* The server and its answers.                                             *)

Changes ==
    /\ changes < MaxChanges
    /\ changes' = changes + 1
    /\ catalogue' \in Catalogues \ {catalogue}
    /\ UNCHANGED <<failures, selected, cache, fetch, rounds, picked>>

Listed(k) == {n \in Listable : Append(k, n) \in catalogue}

Answers(l) ==
    /\ l < 2 /\ fetch[l].pc = "asking"
    /\ l = 0 \/ Key(l) \in catalogue
    /\ fetch' = [fetch EXCEPT ![l] = [pc |-> "answered", items |-> Listed(Key(l))]]
    /\ UNCHANGED <<catalogue, changes, failures, selected, cache, rounds, picked>>

Arrive(l, answer) ==
    /\ Rerender(selected, [cache EXCEPT ![Key(l)] = answer], [fetch EXCEPT ![l] = Idle])
    /\ rounds' = 0

Success(l, items) ==
    /\ Arrive(l, [known |-> TRUE, items |-> items, error |-> FALSE])
    /\ picked' = IF Len(picked) > l /\ SubSeq(picked, 1, l) = Key(l)
                    /\ picked[l + 1] \notin items
                 THEN Key(l) ELSE picked
    /\ UNCHANGED <<catalogue, changes, failures>>

\* The answers about a database and a table, on which less depends, are
\* those of the moment they arrive.
Arrives(l) ==
    \/ fetch[l].pc = "answered" /\ Success(l, fetch[l].items)
    \/ l >= 2 /\ fetch[l] = Asking /\ Key(l) \in catalogue /\ Success(l, Listed(Key(l)))

\* Any request may fail, and that about what there is not does: the last
\* answer is kept, and the error shown in its place.
Fails(l) ==
    /\ fetch[l].pc = "asking"
    /\ failures < MaxFailures /\ failures' = failures + 1
    /\ Arrive(l, [cache[Key(l)] EXCEPT !.error = TRUE])
    /\ UNCHANGED <<catalogue, changes, picked>>

-----------------------------------------------------------------------------
(* The user.                                                               *)

\* A list with its buttons, in place of which an error is shown.
Buttons(l) == Enabled(Key(l)) /\ cache[Key(l)].known /\ ~cache[Key(l)].error
Page == Buttons(0)

\* Query and Browse do as the card does.
PickInstance(i) ==
    /\ Page /\ i \in cache[<<>>].items
    /\ Rerender(<<i, None, None>>, cache, fetch)
    /\ picked' = <<i>>
    /\ rounds' = 0
    /\ UNCHANGED <<catalogue, changes, failures>>

\* What is chosen of an instance that stands in for the one chosen before
\* lasts until that one is back.
Chosen(path) == IF selected[1] = Shown[1] THEN path ELSE <<>>

PickDatabase(d) ==
    /\ Page /\ Buttons(1) /\ d \in databases(selected, cache)
    /\ Rerender(<<selected[1], d, None>>, cache, fetch)
    /\ picked' = Chosen(<<Shown[1], d>>)
    /\ rounds' = 0
    /\ UNCHANGED <<catalogue, changes, failures>>

PickTable(t) ==
    /\ Page /\ Buttons(2) /\ t \in tables(selected, cache)
    /\ Rerender([selected EXCEPT ![3] = t], cache, fetch)
    /\ picked' = Chosen(<<Shown[1], selected[2], t>>)
    /\ rounds' = 0
    /\ UNCHANGED <<catalogue, changes, failures>>

\* refreshAll, disabled while anything is asked for again; what has no
\* answer yet is not asked twice.  The queries that are not enabled, which
\* refreshAll asks too, fail at once for want of what to ask about.
AskAgain ==
    fetch' = [l \in Levels |->
        IF fetch[l] = Idle /\ Enabled(Key(l)) THEN Asking ELSE fetch[l]]
Refetching == \E l \in Levels : fetch[l] # Idle /\ cache[Key(l)].known
refreshAll ==
    /\ Page /\ ~Refetching /\ AskAgain
    /\ UNCHANGED <<catalogue, changes, failures, selected, cache, rounds, picked>>

\* The window is looked at again.
Refocus ==
    /\ AskAgain /\ fetch' # fetch
    /\ UNCHANGED <<catalogue, changes, failures, selected, cache, rounds, picked>>

\* No event comes between a render and its effects.
Event ==
    \/ Changes
    \/ \E l \in Levels : Answers(l) \/ Arrives(l) \/ Fails(l)
    \/ \E i \in Instances : PickInstance(i)
    \/ \E d \in Databases : PickDatabase(d)
    \/ \E t \in Tables : PickTable(t)
    \/ refreshAll \/ Refocus

DatabasesNext == Effects \/ (Settled /\ Event)

DatabasesSpec == DatabasesInit /\ [][DatabasesNext]_databasesVars

-----------------------------------------------------------------------------
\* The effects, each of which feeds the others, find nothing to repair after
\* two rounds, whatever the answers are (the effects of DatabasesPage).
EffectsSettle == rounds = 2 => Settled

\* What the user chose is what is shown, through refreshes, failures and
\* other people's changes, as long as the answers list it (selectedInstance,
\* selectedTable and the effects).
PickIsShown == Settled => SubSeq(Shown, 1, Len(picked)) = picked
===============================================================================
