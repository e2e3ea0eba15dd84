--------------------------- MODULE EnvironmentForm ---------------------------
(***************************************************************************)
(* The form that changes the environment of a container.  It edits a copy  *)
(* of the variables the query held when the editing began; what is deleted *)
(* is only marked, and taken out when the change is sent; a .env file is   *)
(* read in the background and merged after a preview.  The whole           *)
(* environment is sent, and the container is replaced.  The marks on rows  *)
(* that were added or imported (modifiedKeys) only order them; left out.   *)
(***************************************************************************)
EXTENDS Naturals, FiniteSets, Functions

CONSTANTS
    Keys, Values, Empty,    \* of variables; Empty is the empty string
    Files,                  \* the .env files a user has: maps from keys to values
    ReadOnly,
    None,
    MaxContainers, MaxChanges   \* bounds

Environments == UNION {[keys -> Values] : keys \in SUBSET Keys}

VARIABLES
    container,      \* the container the form is shown for
    server,         \* the variables of each container
    cache,          \* ["container-env", container]: what was fetched, or None
    isEditing, editedEnv, deletedKeys,
    showAddNew,
    file,           \* the file that is being read, or None
    parsedEnvFile,  \* shown in the preview, or None when it is closed
    asking,         \* showConfirmDialog
    sent,           \* the mutation under way, or None
    base, touched,  \* histories: the variables when the editing began, and the
                    \* keys the user has changed, added, imported or deleted
    changes         \* counts the changes made elsewhere

formVars == <<container, server, cache, isEditing, editedEnv, deletedKeys, showAddNew,
              file, parsedEnvFile, asking, sent, base, touched, changes>>

FormTypeOK ==
    /\ container \in 1 .. MaxContainers
    /\ server \in [1 .. MaxContainers -> Environments]
    /\ cache = None \/ cache \in Environments
    /\ isEditing \in BOOLEAN /\ showAddNew \in BOOLEAN /\ asking \in BOOLEAN
    /\ editedEnv \in Environments /\ base \in Environments
    /\ deletedKeys \subseteq Keys /\ touched \subseteq Keys
    /\ file = None \/ file \in Files
    /\ parsedEnvFile = None \/ parsedEnvFile \in Files
    /\ sent = None
       \/ sent \in [container : 1 .. MaxContainers, env : Environments,
                    base : Environments, touched : SUBSET Keys, deleted : SUBSET Keys]
    /\ changes \in 0 .. MaxChanges

NoVariables == << >>

Without(env, keys) == Restrict(env, DOMAIN env \ keys)

With(env, more) ==
    [k \in DOMAIN env \cup DOMAIN more |-> IF k \in DOMAIN more THEN more[k] ELSE env[k]]

\* JavaScript's editedEnv[key], as a condition: an empty value counts as none.
Has(env, k) == k \in DOMAIN env /\ env[k] # Empty

\* The variables that are listed, the marked ones left out.
EnvEntries ==
    LET display == IF isEditing THEN editedEnv ELSE IF cache = None THEN NoVariables ELSE cache
    IN  Without(display, deletedKeys)

\* Nothing but a text is drawn while the variables load, and when there are
\* none: a container without variables cannot be given one.
FormShown == cache # None /\ (EnvEntries # NoVariables \/ isEditing)

\* An open dialog covers the form.
FormFree == FormShown /\ ~asking /\ parsedEnvFile = None

FormInit ==
    /\ container = 1
    /\ \E env \in {NoVariables} \cup Files :
          server = [c \in 1 .. MaxContainers |-> IF c = 1 THEN env ELSE NoVariables]
    /\ cache = None
    /\ isEditing = FALSE /\ showAddNew = FALSE /\ asking = FALSE
    /\ editedEnv = NoVariables /\ base = NoVariables
    /\ deletedKeys = {} /\ touched = {}
    /\ file = None /\ parsedEnvFile = None
    /\ sent = None
    /\ changes = 0

-----------------------------------------------------------------------------
\* The query's answer, first or refetched.
EnvFetched ==
    /\ cache # server[container]
    /\ cache' = server[container]
    /\ UNCHANGED <<container, server, isEditing, editedEnv, deletedKeys, showAddNew,
                   file, parsedEnvFile, asking, sent, base, touched, changes>>

\* Somebody else changes a variable of the container.
ChangedElsewhere(env) ==
    /\ changes < MaxChanges
    /\ changes' = changes + 1
    /\ server' = [server EXCEPT ![container] = env]
    /\ UNCHANGED <<container, cache, isEditing, editedEnv, deletedKeys, showAddNew,
                   file, parsedEnvFile, asking, sent, base, touched>>

HandleEdit ==
    /\ FormFree /\ ~isEditing /\ ~ReadOnly
    /\ isEditing' = TRUE
    /\ editedEnv' = cache
    /\ deletedKeys' = {}
    /\ base' = cache /\ touched' = {}
    /\ UNCHANGED <<container, server, cache, showAddNew, file, parsedEnvFile, asking,
                   sent, changes>>

HandleCancel ==
    /\ FormFree /\ isEditing
    /\ isEditing' = FALSE
    /\ editedEnv' = NoVariables
    /\ deletedKeys' = {}
    /\ showAddNew' = FALSE
    /\ UNCHANGED <<container, server, cache, file, parsedEnvFile, asking, sent, base,
                   touched, changes>>

HandleValueChange(k, value) ==
    /\ FormFree /\ isEditing
    /\ k \in DOMAIN EnvEntries /\ value # editedEnv[k]
    /\ editedEnv' = [editedEnv EXCEPT ![k] = value]
    /\ touched' = touched \cup {k}
    /\ UNCHANGED <<container, server, cache, isEditing, deletedKeys, showAddNew, file,
                   parsedEnvFile, asking, sent, base, changes>>

HandleDelete(k) ==
    /\ FormFree /\ isEditing
    /\ k \in DOMAIN EnvEntries
    /\ deletedKeys' = deletedKeys \cup {k}
    /\ touched' = touched \cup {k}
    /\ UNCHANGED <<container, server, cache, isEditing, editedEnv, showAddNew, file,
                   parsedEnvFile, asking, sent, base, changes>>

\* The button "Add" of an editing, and the cross of the small form.
ToggleAddNew ==
    /\ FormFree
    /\ isEditing \/ showAddNew
    /\ showAddNew' = ~showAddNew
    /\ UNCHANGED <<container, server, cache, isEditing, editedEnv, deletedKeys, file,
                   parsedEnvFile, asking, sent, base, touched, changes>>

\* handleAddNew: a key with a value is refused, also one that is marked as
\* deleted; one with an empty value is taken for a new one.
HandleAddNew(k, value) ==
    /\ FormFree /\ showAddNew
    /\ ~Has(editedEnv, k)
    /\ editedEnv' = With(editedEnv, [key \in {k} |-> value])
    /\ touched' = touched \cup {k}
    /\ showAddNew' = FALSE
    /\ UNCHANGED <<container, server, cache, isEditing, deletedKeys, file,
                   parsedEnvFile, asking, sent, base, changes>>

-----------------------------------------------------------------------------
\* handleFileUpload, and the reader's onload, which may come at any time later.
HandleFileUpload(f) ==
    /\ FormFree /\ isEditing /\ file = None
    /\ file' = f
    /\ UNCHANGED <<container, server, cache, isEditing, editedEnv, deletedKeys,
                   showAddNew, parsedEnvFile, asking, sent, base, touched, changes>>

FileRead ==
    /\ file # None
    /\ parsedEnvFile' = file
    /\ file' = None
    /\ UNCHANGED <<container, server, cache, isEditing, editedEnv, deletedKeys,
                   showAddNew, asking, sent, base, touched, changes>>

\* handleConfirmUpload merges the file; what was deleted stays marked.
HandleConfirmUpload ==
    /\ FormShown /\ parsedEnvFile # None
    /\ editedEnv' = With(editedEnv, parsedEnvFile)
    /\ touched' = touched \cup DOMAIN parsedEnvFile
    /\ parsedEnvFile' = None
    /\ UNCHANGED <<container, server, cache, isEditing, deletedKeys, showAddNew, file,
                   asking, sent, base, changes>>

HandleCancelUpload ==
    /\ FormShown /\ parsedEnvFile # None
    /\ parsedEnvFile' = None
    /\ UNCHANGED <<container, server, cache, isEditing, editedEnv, deletedKeys,
                   showAddNew, file, asking, sent, base, touched, changes>>

\* What the preview says of each key of the file.
Preview ==
    [new       |-> {k \in DOMAIN parsedEnvFile : ~Has(editedEnv, k)},
     updated   |-> {k \in DOMAIN parsedEnvFile : Has(editedEnv, k)
                                                 /\ editedEnv[k] # parsedEnvFile[k]},
     unchanged |-> {k \in DOMAIN parsedEnvFile : Has(editedEnv, k)
                                                 /\ editedEnv[k] = parsedEnvFile[k]}]

-----------------------------------------------------------------------------
HandleSave ==
    /\ FormFree /\ isEditing /\ sent = None
    /\ asking' = TRUE
    /\ UNCHANGED <<container, server, cache, isEditing, editedEnv, deletedKeys,
                   showAddNew, file, parsedEnvFile, sent, base, touched, changes>>

\* Fault: drops what counts as false.
TruthyOnly == Restrict(editedEnv, {k \in DOMAIN editedEnv : Has(editedEnv, k)} \ deletedKeys)

\* The environment that is sent: the copy without what is marked.
FinalEnv == Without(editedEnv, deletedKeys)

HandleConfirmUpdate ==
    /\ FormShown /\ asking /\ sent = None
    /\ asking' = FALSE
    /\ sent' = [container |-> container, env |-> FinalEnv, base |-> base,
                touched |-> touched, deleted |-> deletedKeys]
    /\ UNCHANGED <<container, server, cache, isEditing, editedEnv, deletedKeys,
                   showAddNew, file, parsedEnvFile, base, touched, changes>>

CancelUpdate ==
    /\ FormShown /\ asking
    /\ asking' = FALSE
    /\ UNCHANGED <<container, server, cache, isEditing, editedEnv, deletedKeys,
                   showAddNew, file, parsedEnvFile, sent, base, touched, changes>>

\* onSuccess: the parent is told the new container's id, and the editing ends,
\* whichever editing it is by now.
Updated ==
    /\ sent # None
    /\ container < MaxContainers
    /\ server' = [server EXCEPT ![container + 1] = sent.env]
    /\ container' = container + 1
    /\ cache' = None
    /\ sent' = None
    /\ isEditing' = FALSE
    /\ editedEnv' = NoVariables
    /\ deletedKeys' = {}
    /\ UNCHANGED <<showAddNew, file, parsedEnvFile, asking, base, touched, changes>>

\* onError: a notice, and the editing goes on.
UpdateFailed ==
    /\ sent # None
    /\ sent' = None
    /\ UNCHANGED <<container, server, cache, isEditing, editedEnv, deletedKeys,
                   showAddNew, file, parsedEnvFile, asking, base, touched, changes>>

FormNext ==
    \/ EnvFetched
    \/ \E env \in Files : ChangedElsewhere(env) \/ HandleFileUpload(env)
    \/ HandleEdit \/ HandleCancel \/ ToggleAddNew
    \/ \E k \in Keys :
          \/ HandleDelete(k)
          \/ \E value \in Values : HandleValueChange(k, value) \/ HandleAddNew(k, value)
    \/ FileRead \/ HandleConfirmUpload \/ HandleCancelUpload
    \/ HandleSave \/ HandleConfirmUpdate \/ CancelUpdate
    \/ Updated \/ UpdateFailed

FormSpec == FormInit /\ [][FormNext]_formVars

-----------------------------------------------------------------------------
\* The whole environment is replaced by what is sent.  However editing, files
\* and refetches interleave, a variable the user did not touch is sent with
\* the value it had when the editing began, nothing is sent that was neither
\* there nor touched, and nothing that was deleted
\* (environment-variables.tsx:147-178, 219-241).
UntouchedIsKept ==
    sent # None =>
        /\ \A k \in DOMAIN sent.base \ sent.touched :
              k \in DOMAIN sent.env /\ sent.env[k] = sent.base[k]
        /\ DOMAIN sent.env \subseteq (DOMAIN sent.base \cup sent.touched) \ sent.deleted
=============================================================================
