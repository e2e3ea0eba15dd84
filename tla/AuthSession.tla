----------------------------- MODULE AuthSession ------------------------------
(***************************************************************************)
(* Who is logged in, in the browser: the token in its storage, what the    *)
(* provider of the context knows, the guard of the routes, and requests    *)
(* whose answer may be 401.  Loading the page anew loses everything but    *)
(* the storage.                                                            *)
(*                                                                         *)
(* The router is external: what it throws for a redirect need not be an    *)
(* Error, and the guard rethrows only those, so that a guard that wants to *)
(* redirect may let the page open.                                         *)
(***************************************************************************)
EXTENDS Naturals, FiniteSets

CONSTANTS
    Calls,              \* requests of the page that may be under way at once
    MaxTokens           \* bound

Tokens == 1 .. MaxTokens
None == 0

VARIABLES
    authOn, accepted, issued,       \* the server: is there a login, which tokens it accepts
    storage,            \* localStorage's token
    token, user,        \* the context; a user is the token it was answered for
    isLoading, isAuthEnabled,
    path,               \* "login" or "page"
    verify,             \* the request of the provider's effect: [pc, token, answer]
    login,              \* [pc, token]
    call                \* authenticatedFetch: [pc, token, answer]

sessionVars == <<authOn, accepted, issued, storage, token, user, isLoading, isAuthEnabled,
                 path, verify, login, call>>

server == <<authOn, accepted, issued>>
context == <<token, user, isLoading, isAuthEnabled>>

Answers == {"none", "ok", "404", "401", "nobody", "500", "unreachable"}
NoCall == [pc |-> "idle", token |-> None, answer |-> "none"]

SessionTypeOK ==
    /\ authOn \in BOOLEAN /\ accepted \subseteq Tokens /\ issued \in 0 .. MaxTokens
    /\ {storage, token, user} \subseteq Tokens \cup {None}
    /\ isLoading \in BOOLEAN /\ isAuthEnabled \in BOOLEAN
    /\ path \in {"login", "page"}
    /\ verify \in [pc : {"idle", "me", "login"}, token : Tokens \cup {None}, answer : Answers]
    /\ login \in [pc : {"idle", "asking", "done", "failed"}, token : Tokens \cup {None}]
    /\ call \in [Calls -> [pc : {"idle", "asking", "checking"}, token : Tokens \cup {None},
                           answer : Answers]]

\* The provider mounts: with a token it is verified, without one it is asked
\* whether there is a login at all.
Mounting(t) == [pc |-> IF t = None THEN "login" ELSE "me", token |-> t, answer |-> "none"]

SessionInit ==
    /\ authOn \in BOOLEAN /\ issued \in {0, 1}
    /\ accepted \in SUBSET (1 .. issued)
    /\ storage \in {None, issued}
    /\ token = storage /\ user = None
    /\ isLoading = TRUE /\ isAuthEnabled = TRUE
    /\ path \in {"login", "page"}
    /\ verify = Mounting(storage)
    /\ login = [pc |-> "idle", token |-> None]
    /\ call = [c \in Calls |-> NoCall]

-----------------------------------------------------------------------------
(* The server.                                                             *)

\* A token expires; its administrator turns the login on or off.
Expire(t) ==
    /\ t \in accepted
    /\ accepted' = accepted \ {t}
    /\ UNCHANGED <<authOn, issued, storage, context, path, verify, login, call>>
Configure ==
    /\ authOn' = ~authOn
    /\ UNCHANGED <<accepted, issued, storage, context, path, verify, login, call>>

\* What a request with token t may be answered.
AnswerTo(t) ==
    {"500", "unreachable"} \cup (IF ~authOn \/ t \in accepted THEN {"ok"} ELSE {"401"})
\* While authentication is off, the middleware lets /auth/me pass without a
\* user, which is a 401 ("nobody"), and /auth/login is a 404.
MeAnswer(t) == IF authOn THEN AnswerTo(t) ELSE {"nobody", "unreachable"}
LoginAnswer == (IF authOn THEN {"401"} ELSE {"404"}) \cup {"unreachable"}

-----------------------------------------------------------------------------
(* The provider's effect: verifyToken and checkIfAuthEnabled.              *)

ServerVerifies ==
    /\ verify.pc # "idle" /\ verify.answer = "none"
    /\ \E a \in IF verify.pc = "me" THEN MeAnswer(verify.token) ELSE LoginAnswer :
          verify' = [verify EXCEPT !.answer = a]
    /\ UNCHANGED <<server, storage, context, path, login, call>>

Verified ==
    /\ verify.pc = "me" /\ verify.answer = "ok"
    /\ user' = verify.token /\ token' = verify.token
    /\ isAuthEnabled' = TRUE
    /\ UNCHANGED storage

\* Whatever else /auth/me answers, and no answer, too, clears the token -
\* the one that is stored by now.  This server never answers 404, so that the
\* context goes on taking authentication for enabled.
NotVerified ==
    /\ verify.pc = "me" /\ verify.answer \notin {"none", "ok"}
    /\ storage' = None /\ token' = None /\ user' = None
    /\ isAuthEnabled' = (isAuthEnabled /\ verify.answer # "404")

AuthEnabledChecked ==
    /\ verify.pc = "login" /\ verify.answer # "none"
    /\ isAuthEnabled' = (isAuthEnabled /\ verify.answer # "404")
    /\ UNCHANGED <<storage, token, user>>

VerifyArrives ==
    /\ Verified \/ NotVerified \/ AuthEnabledChecked
    /\ isLoading' = FALSE
    /\ verify' = NoCall
    /\ UNCHANGED <<server, path, login, call>>

-----------------------------------------------------------------------------
(* Logging in and out.                                                     *)

\* handleSubmit; the button is disabled until the answer.
Submit ==
    /\ path = "login" /\ login.pc = "idle"
    /\ login' = [pc |-> "asking", token |-> None]
    /\ UNCHANGED <<server, storage, context, path, verify, call>>

ServerLogsIn ==
    /\ login.pc = "asking"
    /\ \/ login' = [pc |-> "failed", token |-> None] /\ UNCHANGED server
       \/ /\ authOn /\ issued < MaxTokens
          /\ issued' = issued + 1 /\ accepted' = accepted \cup {issued'}
          /\ login' = [pc |-> "done", token |-> issued']
          /\ UNCHANGED authOn
    /\ UNCHANGED <<storage, context, path, verify, call>>

\* The token is stored and the page opens: the guard finds a token.
LoginArrives ==
    /\ login.pc = "done"
    /\ storage' = login.token /\ token' = login.token /\ user' = login.token
    /\ path' = "page"
    /\ login' = [pc |-> "idle", token |-> None]
    /\ UNCHANGED <<server, isLoading, isAuthEnabled, verify, call>>
LoginFails ==
    /\ login.pc = "failed"
    /\ login' = [pc |-> "idle", token |-> None]
    /\ UNCHANGED <<server, storage, context, path, verify, call>>

\* The button is there when authentication is enabled as far as one knows.
logout ==
    /\ path = "page" /\ isAuthEnabled
    /\ storage' = None /\ token' = None /\ user' = None
    /\ path' = "login"
    /\ UNCHANGED <<server, isLoading, isAuthEnabled, verify, login, call>>

\* A link from the login page to another: requireAuthIfEnabled, which asks
\* the server only when there is no token.
Navigate ==
    /\ path = "login" /\ login.pc = "idle"
    /\ path' \in IF storage = None /\ authOn THEN {"login", "page"} ELSE {"page"}
    /\ path' # path
    /\ UNCHANGED <<server, storage, context, verify, login, call>>

-----------------------------------------------------------------------------
(* authenticatedFetch.                                                     *)

Ask(c) ==
    /\ path = "page" /\ call[c].pc = "idle"
    /\ call' = [call EXCEPT ![c] = [pc |-> "asking", token |-> storage, answer |-> "none"]]
    /\ UNCHANGED <<server, storage, context, path, verify, login>>

ServerAnswers(c) ==
    /\ call[c].pc # "idle" /\ call[c].answer = "none"
    /\ \E a \in IF call[c].pc = "asking" THEN AnswerTo(call[c].token) ELSE LoginAnswer :
          call' = [call EXCEPT ![c].answer = a]
    /\ UNCHANGED <<server, storage, context, path, verify, login>>

Arrives(c) ==
    /\ call[c].pc = "asking" /\ call[c].answer \notin {"none", "401"}
    /\ call' = [call EXCEPT ![c] = NoCall]
    /\ UNCHANGED <<server, storage, context, path, verify, login>>

\* Fault: any failure takes the token away.
RejectedByFailure(c) ==
    /\ call[c].pc = "asking" /\ call[c].answer \notin {"none", "ok"}
    /\ storage' = None
    /\ call' = [call EXCEPT ![c] = [NoCall EXCEPT !.pc = "checking"]]
    /\ UNCHANGED <<server, context, path, verify, login>>

\* The stored token goes, whichever the request was sent with; the context
\* keeps what it knows.
Rejected(c) ==
    /\ call[c].pc = "asking" /\ call[c].answer = "401"
    /\ storage' = None
    /\ call' = [call EXCEPT ![c] = [NoCall EXCEPT !.pc = "checking"]]
    /\ UNCHANGED <<server, context, path, verify, login>>

\* The login page is loaded anew, if there is a login and it is not the page.
Reload ==
    /\ path' = "login"
    /\ token' = storage /\ user' = None /\ isLoading' = TRUE /\ isAuthEnabled' = TRUE
    /\ verify' = Mounting(storage)
    /\ login' = [pc |-> "idle", token |-> None]
    /\ call' = [d \in Calls |-> NoCall]
    /\ UNCHANGED <<server, storage>>

Checked(c) ==
    /\ call[c].pc = "checking" /\ call[c].answer # "none"
    /\ IF call[c].answer = "401" /\ path # "login"
       THEN Reload
       ELSE /\ call' = [call EXCEPT ![c] = NoCall]
            /\ UNCHANGED <<server, storage, context, path, verify, login>>

SessionNext ==
    \/ \E t \in Tokens : Expire(t)
    \/ Configure \/ ServerVerifies \/ VerifyArrives
    \/ Submit \/ ServerLogsIn \/ LoginArrives \/ LoginFails \/ logout \/ Navigate
    \/ \E c \in Calls : Ask(c) \/ ServerAnswers(c) \/ Arrives(c) \/ Rejected(c) \/ Checked(c)

SessionSpec == SessionInit /\ [][SessionNext]_sessionVars

-----------------------------------------------------------------------------
\* An older request is one that was sent with another token than the one
\* that is stored.
Older == (verify.pc = "me" /\ verify.token # storage)
         \/ \E c \in Calls : call[c].pc = "asking" /\ call[c].token # storage

\* A token the server accepts is given up only by hand, for that of a new
\* login, for an answer to an older request, or when it could not be
\* verified as the page was loaded (verifyToken and authenticatedFetch).
GoodTokensStay ==
    [][authOn /\ storage \in accepted /\ storage' # storage =>
          \/ path = "page" /\ path' = "login" /\ login = login'
          \/ storage' = login.token /\ storage' # None
          \/ Older
          \/ verify.pc = "me" /\ verify.answer \in {"500", "unreachable", "nobody"}]_sessionVars
===============================================================================
