----------------------------- MODULE ProcessesPage ----------------------------
(***************************************************************************)
(* Processes and kill-on-sight: the server's store of rules, its walk over *)
(* the processes of the host, which kills those a rule names, and the page *)
(* of suspicious processes with a switch for each.                         *)
(*                                                                         *)
(* The store changes its rules in memory and writes the file under the     *)
(* same lock.  The write truncates the file first: one that fails leaves   *)
(* the old file or a torn one, which no restart can load.  Processes go by *)
(* their names, and one that is not protected is taken to be suspicious.   *)
(* Figures, toasts and the killing by hand of a process or its parent,     *)
(* which asks the host for whatever has the pid by then, are left out.     *)
(***************************************************************************)
EXTENDS Naturals

CONSTANTS
    Names, Protected,   \* of processes, and those that are never killed on sight
    Rules, NamedBy,     \* NamedBy[r]: the names r matches
    NameRule, Suggested,\* per unprotected name: its own, and the one the page suggests
    Exact,              \* the rules that are the name of a protected process
    FirstFiles,         \* what a file may hold, by whoever wrote it
    OtherRules          \* bound: what other clients add, once

VARIABLES
    running,            \* the processes of the host
    names, store,       \* the rules in memory; whether the server has a store
    file, torn,         \* the rules on disk
    walk,               \* GetProcesses of one request
    listed,             \* the page's processes
    kosList, kosFetch,  \* the page's list of rules, and its request
    toggles,            \* the switches' requests, by process
    asked,              \* a history: the rules anybody asked for
    removed, promised,  \* a history: gone or kept, by the last answer about a rule
    victims,            \* a history: the processes killed by a walk
    untold              \* a history: the rules changed since the list was read, and
                        \* nothing told the page, or reading it again failed

serverVars == <<names, store, file, torn, asked, removed, promised>>
pageVars == <<listed, kosList, toggles>>
processVars == <<running, serverVars, walk, pageVars, kosFetch, victims, untold>>

Switches == Names \ Protected
NoWalk == [pc |-> "idle", left |-> {}, matched |-> {}, rows |-> {}]
NoToggle == [op |-> "none", rule |-> "none", answer |-> "none"]

ProcessesTypeOK ==
    /\ running \subseteq Names
    /\ names \subseteq Rules /\ file \subseteq Rules
    /\ store \in BOOLEAN /\ torn \in BOOLEAN
    /\ walk \in [pc : {"idle", "walking", "answered"}, left : SUBSET Names,
                 matched : SUBSET Names, rows : SUBSET Names]
    /\ listed \subseteq Names
    /\ kosList \subseteq Rules
    /\ kosFetch \in [pc : {"idle", "asking", "answered"}, rules : SUBSET Rules, first : BOOLEAN]
    /\ toggles \in [Switches -> {NoToggle} \cup
                       [op : {"add", "remove"}, rule : Rules, answer : {"none", "done", "error"}]]
    /\ asked \subseteq Rules /\ removed \subseteq Rules /\ promised \subseteq Rules
    /\ victims \subseteq Names /\ untold \in BOOLEAN

ProcessesInit ==
    /\ running = Names
    /\ file \in FirstFiles /\ torn = FALSE
    /\ names = file /\ store = TRUE
    /\ walk = NoWalk /\ listed = {}
    /\ kosList = {} /\ kosFetch = [pc |-> "asking", rules |-> {}, first |-> TRUE]
    /\ toggles = [n \in Switches |-> NoToggle]
    /\ asked = file /\ removed = {} /\ promised = {} /\ victims = {}
    /\ untold = FALSE

-----------------------------------------------------------------------------
(* The store.                                                              *)

Contains(n) ==
    /\ store /\ n \notin Protected
    /\ \E r \in names \ Exact : n \in NamedBy[r]

\* save: WriteFile truncates, and may fail before and after that.
Save(saved) ==
    \/ saved /\ file' = names' /\ torn' = FALSE
    \/ ~saved /\ UNCHANGED <<file, torn>>
    \/ ~saved /\ file' = {} /\ torn' = TRUE

Add(r, saved) ==
    /\ store /\ r \notin Exact
    /\ names' = names \cup {r}
    /\ Save(saved)
    /\ asked' = asked \cup {r} /\ removed' = removed \ {r}
    /\ promised' = IF torn' THEN {} ELSE IF saved THEN promised \cup {r} ELSE promised
    /\ UNCHANGED store
Remove(r, saved) ==
    /\ store
    /\ names' = names \ {r}
    /\ Save(saved)
    /\ removed' = IF saved THEN removed \cup {r} ELSE removed
    /\ promised' = IF torn' THEN {} ELSE promised \ {r}
    /\ UNCHANGED <<store, asked>>

Change(op, r, saved) ==
    \/ op = "add" /\ Add(r, saved)
    \/ op = "remove" /\ Remove(r, saved)

\* Another client's request, whose answer this page never sees.
OtherChange ==
    /\ \E r \in OtherRules \ asked, saved \in BOOLEAN : Add(r, saved)
    /\ untold' = TRUE
    /\ UNCHANGED <<running, walk, pageVars, kosFetch, victims>>

\* NewKillOnSightStore: without the file's rules the server does without a
\* store.  Whoever waits for an answer gets an error.
Restart ==
    /\ names' = file /\ store' = ~torn
    /\ walk' = NoWalk
    /\ toggles' = [n \in Switches |->
          IF toggles[n] # NoToggle /\ toggles[n].answer = "none"
          THEN [toggles[n] EXCEPT !.answer = "error"] ELSE toggles[n]]
    /\ untold' = (untold \/ names' # names)
    /\ UNCHANGED <<running, file, torn, asked, removed, promised, listed, kosList, kosFetch,
                   victims>>

-----------------------------------------------------------------------------
(* GetProcesses, asked for every two seconds.                              *)

Respawn(n) ==
    /\ n \notin running
    /\ running' = running \cup {n}
    /\ UNCHANGED <<serverVars, walk, pageVars, kosFetch, victims, untold>>

WalkStarts ==
    /\ walk.pc = "idle"
    /\ walk' = [NoWalk EXCEPT !.pc = "walking", !.left = running]
    /\ UNCHANGED <<running, serverVars, pageVars, kosFetch, victims, untold>>

\* The store is asked about one process, and let go of.
Visit(n) ==
    /\ n \in walk.left /\ walk.matched = {}
    /\ walk' = IF Contains(n) THEN [walk EXCEPT !.left = @ \ {n}, !.matched = {n}]
                              ELSE [walk EXCEPT !.left = @ \ {n}, !.rows = @ \cup {n}]
    /\ UNCHANGED <<running, serverVars, pageVars, kosFetch, victims, untold>>

Kill ==
    /\ walk.matched # {}
    /\ \/ /\ running' = running \ walk.matched
          /\ victims' = victims \cup walk.matched
          /\ walk' = [walk EXCEPT !.matched = {}]
       \/ /\ walk' = [walk EXCEPT !.matched = {}, !.rows = @ \cup walk.matched]
          /\ UNCHANGED <<running, victims>>
    /\ UNCHANGED <<serverVars, pageVars, kosFetch, untold>>

WalkAnswers ==
    /\ walk.pc = "walking" /\ walk.left = {} /\ walk.matched = {}
    /\ walk' = NoWalk
    /\ listed' = walk.rows
    /\ UNCHANGED <<running, serverVars, kosList, toggles, kosFetch, victims, untold>>

-----------------------------------------------------------------------------
(* The page's list of rules.                                               *)

KosAnswers ==
    /\ kosFetch.pc = "asking"
    /\ kosFetch' = [kosFetch EXCEPT !.pc = "answered", !.rules = IF store THEN names ELSE {}]
    /\ untold' = FALSE
    /\ UNCHANGED <<running, serverVars, walk, pageVars, victims>>
KosArrives ==
    /\ kosFetch.pc = "answered"
    /\ kosList' = kosFetch.rules
    /\ kosFetch' = [pc |-> "idle", rules |-> {}, first |-> FALSE]
    /\ UNCHANGED <<running, serverVars, walk, listed, toggles, victims, untold>>

\* The last retry has failed: the page keeps the list it has.
KosFails ==
    /\ kosFetch.pc = "asking"
    /\ kosFetch' = [kosFetch EXCEPT !.pc = "idle"]
    /\ untold' = TRUE
    /\ UNCHANGED <<running, serverVars, walk, pageVars, victims>>

\* invalidateQueries; the first request is not dropped for it (HistoryPage).
FirstOnItsWay == kosFetch.first /\ kosFetch.pc = "answered"
Invalidate ==
    IF FirstOnItsWay THEN untold' = TRUE /\ UNCHANGED kosFetch
    ELSE kosFetch' = [kosFetch EXCEPT !.pc = "asking", !.rules = {}] /\ UNCHANGED untold

-----------------------------------------------------------------------------
(* The switch of a row.                                                    *)

isKillOnSight(n) == {Suggested[n], NameRule[n]} \cap kosList # {}
activeKillOnSightName(n) == IF Suggested[n] \in kosList THEN Suggested[n] ELSE NameRule[n]

\* handleToggleKillOnSight; the switch is disabled while a request of it is
\* pending.
Toggle(n) ==
    /\ n \in listed /\ toggles[n] = NoToggle
    /\ toggles' = [toggles EXCEPT ![n] =
          IF isKillOnSight(n)
          THEN [op |-> "remove", rule |-> activeKillOnSightName(n), answer |-> "none"]
          ELSE [op |-> "add", rule |-> Suggested[n], answer |-> "none"]]
    /\ UNCHANGED <<running, serverVars, walk, listed, kosList, kosFetch, victims, untold>>

\* AddKillOnSight and RemoveKillOnSight: an error changes the memory too, and
\* may as well be a saved change whose answer was lost.
ServerToggles(n) ==
    /\ toggles[n] # NoToggle /\ toggles[n].answer = "none"
    /\ \/ \E saved \in BOOLEAN, a \in {"done", "error"} :
             /\ a = "done" => saved
             /\ Change(toggles[n].op, toggles[n].rule, saved)
             /\ toggles' = [toggles EXCEPT ![n].answer = a]
             /\ untold' = (untold \/ a = "error")
       \/ /\ ~store
          /\ toggles' = [toggles EXCEPT ![n].answer = "error"]
          /\ UNCHANGED <<serverVars, untold>>
    /\ UNCHANGED <<running, walk, listed, kosList, kosFetch, victims>>

\* useAddKillOnSight's and useRemoveKillOnSight's onSuccess.
ToggleEnds(n) ==
    /\ toggles[n].answer # "none"
    /\ toggles' = [toggles EXCEPT ![n] = NoToggle]
    /\ IF toggles[n].answer = "done" THEN Invalidate ELSE UNCHANGED <<kosFetch, untold>>
    /\ UNCHANGED <<running, serverVars, walk, listed, kosList, victims>>

ProcessesNext ==
    \/ OtherChange \/ Restart
    \/ WalkStarts \/ Kill \/ WalkAnswers
    \/ KosAnswers \/ KosArrives \/ KosFails
    \/ \E n \in Names : Respawn(n) \/ Visit(n)
    \/ \E n \in Switches : Toggle(n) \/ ServerToggles(n) \/ ToggleEnds(n)

ProcessesSpec == ProcessesInit /\ [][ProcessesNext]_processVars

-----------------------------------------------------------------------------
\* What a walk killed was not protected, and somebody had asked for a rule
\* that names it: not the wildcard that happens to match a protected name,
\* nor the protected name itself in a file (Contains).
KilledWasNamed ==
    \A v \in victims : v \notin Protected /\ \E r \in asked \ Exact : v \in NamedBy[r]

\* The last answer about a rule, told or lost, holds, restarts and failed
\* saves of other rules included: a rule that was added is in force, one that
\* was removed is not, unless the file was torn meanwhile (Add, Remove, save).
RulesAreAsAnswered == promised \subseteq names /\ removed \cap names = {}

\* With nothing on its way the switches show the rules in force, unless
\* somebody else, a failed save, a restart or a change whose answer was lost
\* changed them since they were read, or reading them failed (useKillOnSight
\* and its mutations).
SwitchesShowTheRules ==
    kosFetch.pc = "idle" /\ ~untold /\ (\A n \in Switches : toggles[n] = NoToggle)
        => kosList = names
===============================================================================
