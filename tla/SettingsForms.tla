----------------------------- MODULE SettingsForms ----------------------------
(***************************************************************************)
(* The forms of the settings page that edit one thing: the read-only       *)
(* switch, authentication, the bots and the scanner.  Each shows what a    *)
(* query last answered or a draft of it, saves the draft, and has its      *)
(* query asked again.  They share nothing but that, so a behaviour is one  *)
(* form's; nothing is configured by the environment, which would disable   *)
(* it.                                                                     *)
(*                                                                         *)
(* What a form edits is one record: of the bots the Telegram token, shown  *)
(* masked, and the rest; of authentication whether it is on and whether    *)
(* there is a password (a user's name is always given); of the scanner and *)
(* the switch one value.                                                   *)
(***************************************************************************)
EXTENDS Naturals

CONSTANTS
    Tokens, Values,
    MaxOthers,          \* bound
    MaxSaves            \* bound

None == "none"
Masked == "masked"

VARIABLES
    form,               \* "readOnly", "auth", "bot" or "scanner"
    server,             \* what is configured: [on, password, token, value]
    others,             \* how many saves the page was not told of
    saves,
    config,             \* the last answer of the form's query
    fetch,              \* [pc, answer]
    draft,              \* the form: [on, password, token, value]
    request,            \* [pc, sent, test]: a save, a test, or a save and then a test
    touched             \* a history: typed into since the draft was sent or loaded

formsVars == <<form, server, others, saves, config, fetch, draft, request, touched>>

Drafts == [on : BOOLEAN, password : BOOLEAN, token : Tokens \cup {None, Masked}, value : Values]
Idle(d) == [pc |-> "idle", sent |-> d, test |-> "none"]

FormsTypeOK ==
    /\ form \in {"readOnly", "auth", "bot", "scanner"}
    /\ server \in Drafts /\ config \in Drafts /\ draft \in Drafts
    /\ others \in 0 .. MaxOthers /\ saves \in 0 .. MaxSaves
    /\ fetch \in [pc : {"idle", "asking", "answered"}, answer : Drafts]
    /\ request \in [pc : {"idle", "saving", "saved", "failed", "testing"}, sent : Drafts,
                    test : {"none", "changed", "unchanged"}]
    /\ touched \in BOOLEAN

\* GetSettings: the token is masked, if there is one.
View(s) == IF s.token = None THEN s ELSE [s EXCEPT !.token = Masked]

\* What the form starts from: the password field is empty.
Loaded(c) == [c EXCEPT !.password = FALSE]

FormsInit ==
    /\ form \in {"readOnly", "auth", "bot", "scanner"}
    /\ server \in [on : {FALSE}, password : IF form = "auth" THEN BOOLEAN ELSE {FALSE},
                   token : IF form = "bot" THEN Tokens \cup {None} ELSE {None}, value : Values]
    /\ others = 0 /\ saves = 0
    /\ config = View(server) /\ fetch = [pc |-> "idle", answer |-> config]
    /\ draft = Loaded(config)
    /\ request = Idle(draft)
    /\ touched = FALSE

-----------------------------------------------------------------------------
(* The query, and somebody else who saves.                                 *)

\* What a save that is accepted makes of s.
Saved(s, d) ==
    [on |-> d.on,
     password |-> s.password \/ (d.on /\ d.password),
     token |-> IF d.token = Masked THEN s.token ELSE d.token,
     value |-> d.value]

\* A mask stands for a token there is; who enables authentication has or
\* gives a password.
Valid(s, d) ==
    /\ d.token = Masked => s.token # None
    /\ form = "auth" /\ d.on => s.password \/ d.password

\* The drafts that each form can make of d with one change: the switch of
\* read-only mode, authentication's switch and inputs, a bot's, a scanner's.
Switched(d) == {[d EXCEPT !.on = ~d.on]}
Authenticated(d) ==
    {[d EXCEPT !.on = TRUE], [d EXCEPT !.on = FALSE, !.password = FALSE]}
    \cup (IF d.on THEN {[d EXCEPT !.password = p] : p \in BOOLEAN} ELSE {})
BotChanged(d) ==
    {[d EXCEPT !.token = t] : t \in Tokens \cup {None}} \cup {[d EXCEPT !.value = v] : v \in Values}
ScannerChanged(d) == {[d EXCEPT !.value = v] : v \in Values}

Changes(d) ==
    CASE form = "readOnly" -> Switched(d)
      [] form = "auth" -> Authenticated(d)
      [] form = "bot" -> BotChanged(d)
      [] form = "scanner" -> ScannerChanged(d)

OtherSaves ==
    /\ others < MaxOthers /\ others' = others + 1
    /\ \E d \in Changes(View(server)) : Valid(server, d) /\ server' = Saved(server, d)
    /\ UNCHANGED <<form, saves, config, fetch, draft, request, touched>>

\* The answer has become stale, and the page is looked at again.  While the
\* last answer is an error it stands in place of the form; that is left out.
Refetch ==
    /\ fetch.pc = "idle"
    /\ fetch' = [fetch EXCEPT !.pc = "asking"]
    /\ UNCHANGED <<form, server, others, saves, config, draft, request, touched>>

FetchAnswers ==
    /\ fetch.pc = "asking"
    /\ fetch' = [pc |-> "answered", answer |-> View(server)]
    /\ UNCHANGED <<form, server, others, saves, config, draft, request, touched>>

\* The effects on config: the drafts of the bots and of the scanner start
\* again when an answer differs.
FollowConfig ==
    IF form \in {"bot", "scanner"} /\ fetch.answer # config
    THEN draft' = Loaded(fetch.answer) /\ touched' = FALSE
    ELSE UNCHANGED <<draft, touched>>

FetchArrives ==
    /\ fetch.pc = "answered"
    /\ config' = fetch.answer
    /\ fetch' = [pc |-> "idle", answer |-> config']
    /\ FollowConfig
    /\ UNCHANGED <<form, server, others, saves, request>>

-----------------------------------------------------------------------------
(* The forms.                                                              *)

pending == request.pc # "idle"

\* The inputs of authentication stay enabled while it is saved.
Type ==
    /\ form \in {"auth", "bot", "scanner"}
    /\ form # "auth" => ~pending
    /\ draft' \in Changes(draft) \ {draft}
    /\ touched' = TRUE
    /\ UNCHANGED <<form, server, others, saves, config, fetch, request>>

hasChanges == draft # Loaded(config)

Send(d, test) ==
    /\ saves < MaxSaves /\ saves' = saves + 1
    /\ request' = [pc |-> "saving", sent |-> d, test |-> test]
    /\ touched' = FALSE
    /\ UNCHANGED <<form, server, others, config, fetch>>

\* handleSave of the three forms; only authentication checks what it sends.
handleSave ==
    /\ form \in {"auth", "bot", "scanner"}
    /\ hasChanges /\ ~pending
    /\ form = "auth" /\ draft.on => config.password \/ draft.password
    /\ Send(draft, "none")
    /\ UNCHANGED draft

\* The switch shows what it was switched to until the server has answered:
\* draft is optimisticChecked while the request is pending.
handleToggle ==
    /\ form = "readOnly" /\ ~pending
    /\ Send([config EXCEPT !.on = ~config.on], "none")
    /\ draft' = request'.sent
checked == IF pending THEN draft.on ELSE config.on

Test ==
    /\ request' = [pc |-> "testing", sent |-> draft,
                   test |-> IF hasChanges THEN "changed" ELSE "unchanged"]
    /\ UNCHANGED <<form, server, others, saves, config, fetch, draft, touched>>

\* The scanner's test saves what was changed before; a bot is tested with
\* what is in the form.
handleTest ==
    /\ form = "scanner" /\ ~pending
    /\ IF hasChanges THEN Send(draft, "changed") /\ UNCHANGED draft ELSE Test
TestBot == form = "bot" /\ ~pending /\ Test

ServerSaves ==
    /\ request.pc = "saving"
    /\ Valid(server, request.sent)
    /\ server' = Saved(server, request.sent)
    /\ \/ request' = [request EXCEPT !.pc = "saved"] /\ UNCHANGED others
       \* The answer is lost.
       \/ /\ others < MaxOthers /\ others' = others + 1
          /\ request' = [request EXCEPT !.pc = "failed"]
    /\ UNCHANGED <<form, saves, config, fetch, draft, touched>>

ServerRefuses ==
    /\ request.pc = "saving"
    /\ request' = [request EXCEPT !.pc = "failed"]
    /\ UNCHANGED <<form, server, others, saves, config, fetch, draft, touched>>

\* Fault: the query is not asked again.
SaveEndsUnasked ==
    /\ request.pc = "saved"
    /\ draft' = IF form = "scanner" THEN request.sent ELSE draft
    /\ request' = Idle(request.sent)
    /\ UNCHANGED <<form, server, others, saves, config, fetch, touched>>

\* onSuccess: the query is asked again, instead of a request under way;
\* authentication forgets the password, the scanner's draft is the answer.
SaveEnds ==
    /\ request.pc = "saved"
    /\ fetch' = [fetch EXCEPT !.pc = "asking"]
    /\ draft' = CASE form = "auth" -> [draft EXCEPT !.password = FALSE]
                  [] form = "scanner" -> request.sent
                  [] OTHER -> draft
    /\ request' = IF request.test = "changed" THEN [request EXCEPT !.pc = "testing"] ELSE Idle(request.sent)
    /\ UNCHANGED <<form, server, others, saves, config, touched>>

\* The form keeps what was not saved; the switch goes back.
SaveFails ==
    /\ request.pc = "failed"
    /\ request' = Idle(request.sent)
    /\ touched' = TRUE
    /\ UNCHANGED <<form, server, others, saves, config, fetch, draft>>

\* The test is answered, whether it went well or not.
TestEnds ==
    /\ request.pc = "testing"
    /\ request' = Idle(request.sent)
    /\ UNCHANGED <<form, server, others, saves, config, fetch, draft, touched>>

FormsNext ==
    \/ OtherSaves \/ Refetch \/ FetchAnswers \/ FetchArrives
    \/ Type \/ handleSave \/ handleToggle \/ handleTest \/ TestBot
    \/ ServerSaves \/ ServerRefuses \/ SaveEnds \/ SaveFails \/ TestEnds

FormsSpec == FormsInit /\ [][FormsNext]_formsVars

-----------------------------------------------------------------------------
Quiet == ~pending /\ fetch.pc = "idle"

\* When nothing is asked for and nobody else saves, the page knows what it
\* saved itself, and a form that was not typed into shows it, save that a
\* token stays as it was typed when nothing else was changed
\* (invalidateQueries and the effects of use-settings.ts and the sections).
FormShowsTheServer ==
    Quiet /\ others = 0 =>
        /\ config = View(server)
        /\ ~touched /\ form \in {"bot", "scanner"} => View(draft) = Loaded(config)
        /\ form = "readOnly" => checked = server.on

\* The test notification is sent with what was changed in the form before it
\* was asked for, unless somebody else saves (handleTest).
TestIsOfTheForm ==
    form = "scanner" /\ request.pc = "testing" /\ request.test = "changed" /\ others = 0 =>
        server.value = request.sent.value

\* A token that is left masked is kept, whatever else is saved, and a mask
\* is no token; authentication is never on without a password.
SecretsAreKept ==
    /\ server.token # Masked
    /\ form = "auth" /\ server.on => server.password
===============================================================================
