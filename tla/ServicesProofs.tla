--------------------------- MODULE ServicesProofs ---------------------------
(***************************************************************************)
(* Proofs about the nine services that MCServices puts side by side, for   *)
(* any hosts, containers, keys, requests, jobs and bounds that satisfy the *)
(* assumptions it names.  A part shares no variable with the others, so a  *)
(* behaviour of all is one of each (the lemmas ...Run), and each part has  *)
(* an inductive invariant of its own (the lemmas ...Invariant):            *)
(*                                                                         *)
(*   - ContainerRequests.  The containers of a name are made in order, so  *)
(*     that all but the last are gone; a request is of the kind that its   *)
(*     place in the code belongs to; and what it will delete in Coolify it *)
(*     was not asked to set.                                               *)
(*   - ScannerSettings.  What somebody chose is in force, carried by a    *)
(*     reload or by a request that has saved only if it was saved; and     *)
(*     whatever the database holds was saved.                              *)
(*   - DiscordBot.  In a session, of the interactions each up to the       *)
(*     position was taken once and none behind it; how many answers can be *)
(*     due follows from where the heartbeat loop stands, and after the     *)
(*     first heartbeat a cleared flag means that one is due.               *)
(*   - TelegramBot.  One goroutine at most is not done.  Its batch counts  *)
(*     up by one, commands below its offset have been handled, and one     *)
(*     that was handled since the last start is below the offset.          *)
(*   - AlertMonitor.  The ids of the history count down from the number of *)
(*     alerts, so that trimming forgets the oldest and a mark hits its own.*)
(*   - The collector, both sockets and the scans need their types, and the *)
(*     terminal whose lease is whose.                                      *)
(***************************************************************************)
EXTENDS MCServices, SequenceTheorems, TLAPS

-----------------------------------------------------------------------------
(* Requests on one container.                                              *)

\* A request is of the kind that its place in the code belongs to, and what it
\* is about to delete in Coolify is nothing that it was asked to set.
RequestFits(r) ==
    /\ request[r].pc = "new" => request[r].kind = Actions!None
    /\ request[r].pc \in {"spawned", "working", "worked", "broken"} =>
           request[r].kind \in Actions!Actions
    /\ request[r].pc \in Actions!Replacing => request[r].kind = "env"
    /\ stale[r] # {} => request[r].pc \in {"upserting", "deleting", "deleting rest", "unsynced"}
    /\ \A v \in stale[r] : v[1] \notin request[r].env

RequestsFit == \A r \in Requests : RequestFits(r)

\* The containers of the name were made in order, and all but the last are gone.
MadeInOrder ==
    \E n \in Actions!Containers :
        \A c \in Actions!Containers :
            /\ c > n => status[c] = "unborn"
            /\ c < n => status[c] = "removed"
            /\ status[n] # "unborn"

ActionsInv ==
    /\ Actions!TypeOK
    /\ RequestsFit
    /\ MadeInOrder
    /\ Actions!GoneIsExplained
    /\ Actions!PendingIsWorkedOn

\* A call to Docker: what it may change.
LEMMA CallSteps ==
  ASSUME NEW r \in Requests, NEW a, NEW c, NEW p, NEW q,
         Actions!Call(r, a, c, p, q)
  PROVE  /\ \/ request' = [request EXCEPT ![r].pc = p]
            \/ request' = [request EXCEPT ![r].pc = q]
         /\ \/ status' = status
            \/ /\ c \in Actions!Present
               /\ a = "remove" => status[c] = "exited"
               /\ status' = [status EXCEPT ![c] = Actions!After(a)]
         /\ env' = env
  BY DEF Actions!Call, Actions!Goto, Actions!Possible

\* A request goes on to another of its places.
LEMMA MoveTyped ==
  ASSUME Actions!TypeOK, NEW r \in Requests, NEW p \in Actions!Positions,
         request' = [request EXCEPT ![r].pc = p]
  PROVE  Actions!TypeOK!3'
<1>1. Actions!TypeOK!3
  BY DEF Actions!TypeOK
<1>2. [request[r] EXCEPT !.pc = p] \in
          [pc : Actions!Positions, kind : Actions!Kinds, on : Actions!Containers, env : SUBSET Keys]
  BY <1>1
<1>3. QED
  BY <1>1, <1>2

\* A call to Docker keeps the types.
LEMMA CallTyped ==
  ASSUME Actions!TypeOK, NEW r \in Requests, NEW a, NEW c,
         NEW p \in Actions!Positions, NEW q \in Actions!Positions,
         Actions!Call(r, a, c, p, q)
  PROVE  Actions!TypeOK!1' /\ Actions!TypeOK!2' /\ Actions!TypeOK!3'
<1>1. Actions!TypeOK!1'
  BY CallSteps DEF Actions!TypeOK, Actions!Present, Actions!After
<1>2. Actions!TypeOK!2'
  BY CallSteps DEF Actions!TypeOK
<1>3. PICK x \in {p, q} : request' = [request EXCEPT ![r].pc = x]
  BY CallSteps
<1>4. QED
  BY <1>1, <1>2, <1>3, MoveTyped

\* The next container is the first that has not been made.
LEMMA NextIsFirst ==
  ASSUME MadeInOrder, Actions!Unborn # {}
  PROVE  /\ Actions!NextContainer \in Actions!Unborn
         /\ \A d \in Actions!Unborn : Actions!NextContainer <= d
<1>1. PICK n \in Actions!Containers :
        \A c \in Actions!Containers :
            /\ c > n => status[c] = "unborn"
            /\ c < n => status[c] = "removed"
            /\ status[n] # "unborn"
  BY DEF MadeInOrder
<1>2. n + 1 \in Actions!Unborn /\ \A d \in Actions!Unborn : n + 1 <= d
  BY <1>1, ActionsAssumption DEF Actions!BoundAssumption, Actions!Unborn, Actions!Containers
<1>3. QED
  BY <1>2 DEF Actions!NextContainer

\* Every step of the requests and of Coolify keeps the types.
LEMMA ActionsTyped ==
  ASSUME Actions!TypeOK, MadeInOrder, [Actions!Next]_(Actions!vars)
  PROVE  Actions!TypeOK'
<1> USE ActionsAssumption DEF Actions!BoundAssumption, Actions!containers, Actions!leases,
        Actions!registry, Actions!sync
<1>0. /\ {"done", "failed", "working", "worked", "broken", "updated", "listing", "stopping",
           "removing", "creating", "starting", "upserting", "unsynced", "synced",
           "deleting", "deleting rest", "inspecting", "spawned", "starting once",
           "unheard"} \subseteq Actions!Positions
      /\ Actions!Actions \cup {"start", "env"} \subseteq Actions!Kinds
  BY DEF Actions!Positions, Actions!Replacing, Actions!Syncing, Actions!Kinds
<1>1. ASSUME NEW r \in Requests, NEW c \in Actions!Containers, NEW keys \in SUBSET Keys,
             NEW kind \in Actions!Actions \cup {"start", "env"}, Actions!Ask(r, kind, c, keys)
      PROVE  Actions!TypeOK'
  <2>1. PICK p \in Actions!Positions :
          request' = [request EXCEPT ![r] = [pc |-> p, kind |-> kind, on |-> c, env |-> keys]]
    BY <1>0, <1>1 DEF Actions!Ask
  <2>2. Actions!TypeOK!3'
    BY <1>0, <2>1 DEF Actions!TypeOK
  <2>3. QED
    BY <1>1, <2>2 DEF Actions!Ask, Actions!TypeOK
<1>2. ASSUME NEW r \in Requests, Actions!StartContainer(r)
      PROVE  Actions!TypeOK'
  <2>1. PICK p \in Actions!Positions, q \in Actions!Positions :
          Actions!Call(r, "start", request[r].on, p, q)
    BY <1>0, <1>2 DEF Actions!StartContainer, Actions!CallUnlimited
  <2>2. QED
    BY <1>2, <2>1, CallTyped DEF Actions!StartContainer, Actions!TypeOK
<1>3. ASSUME NEW r \in Requests, Actions!ReturnAccepted(r)
      PROVE  Actions!TypeOK'
  BY <1>3 DEF Actions!ReturnAccepted, Actions!TypeOK
<1>4. ASSUME NEW r \in Requests, Actions!BeginWork(r)
      PROVE  Actions!TypeOK'
  BY <1>0, <1>4, MoveTyped DEF Actions!BeginWork, Actions!Goto, Actions!TypeOK
<1>5. ASSUME NEW r \in Requests, Actions!Work(r)
      PROVE  Actions!TypeOK'
  BY <1>0, <1>5, CallTyped DEF Actions!Work, Actions!TypeOK
<1>6. ASSUME NEW r \in Requests, Actions!RecordActionJob(r)
      PROVE  Actions!TypeOK'
  BY <1>0, <1>6, MoveTyped DEF Actions!RecordActionJob, Actions!Goto, Actions!TypeOK
<1>7. ASSUME NEW r \in Requests, Actions!Inspect(r) \/ Actions!EndSync(r)
      PROVE  Actions!TypeOK'
  BY <1>0, <1>7, MoveTyped DEF Actions!Inspect, Actions!EndSync, Actions!Goto, Actions!TypeOK
<1>8. ASSUME NEW r \in Requests, Actions!Stop(r) \/ Actions!Remove(r) \/ Actions!StartNew(r)
      PROVE  Actions!TypeOK'
  <2>1. ASSUME NEW a, NEW p \in Actions!Positions,
               Actions!CallUnlimited(r, a, request[r].on, p)
        PROVE  Actions!TypeOK!1' /\ Actions!TypeOK!2' /\ Actions!TypeOK!3'
    BY <1>0, <2>1, CallTyped DEF Actions!CallUnlimited
  <2>2. Actions!TypeOK!1' /\ Actions!TypeOK!2' /\ Actions!TypeOK!3'
    <3>1. CASE Actions!Stop(r)
      <4>1. Actions!CallUnlimited(r, "stop", request[r].on, "removing")
        BY <3>1 DEF Actions!Stop
      <4>2. QED
        BY <1>0, <2>1, <4>1
    <3>2. CASE Actions!Remove(r)
      <4>1. Actions!CallUnlimited(r, "remove", request[r].on, "creating")
        BY <3>2 DEF Actions!Remove
      <4>2. QED
        BY <1>0, <2>1, <4>1
    <3>3. CASE Actions!StartNew(r)
      <4>1. PICK p \in {"updated", "listing"} :
              Actions!CallUnlimited(r, "start", request[r].on, p)
        BY <3>3 DEF Actions!StartNew
      <4>2. QED
        BY <1>0, <2>1, <4>1
    <3>4. QED
      BY <1>8, <3>1, <3>2, <3>3
  <2>3. QED
    BY <1>8, <2>2 DEF Actions!Stop, Actions!Remove, Actions!StartNew, Actions!TypeOK
<1>9. ASSUME NEW r \in Requests, Actions!Create(r)
      PROVE  Actions!TypeOK'
  <2>1. Actions!NextContainer \in Actions!Containers
    BY <1>9, NextIsFirst DEF Actions!Create, Actions!Unborn
  <2>2. request[r].env \in SUBSET Keys
    BY DEF Actions!TypeOK
  <2>3. Actions!TypeOK!1' /\ Actions!TypeOK!2'
    <3>1. \/ /\ status' = [status EXCEPT ![Actions!NextContainer] = "exited"]
             /\ env' = [env EXCEPT ![Actions!NextContainer] = request[r].env]
          \/ status' = status /\ env' = env
      BY <1>9 DEF Actions!Create
    <3>2. QED
      BY <2>1, <2>2, <3>1 DEF Actions!TypeOK
  <2>4. Actions!TypeOK!3'
    <3>1. CASE request' = [request EXCEPT ![r] =
                               [@ EXCEPT !.pc = "starting", !.on = Actions!NextContainer]]
      <4>1. Actions!TypeOK!3
        BY DEF Actions!TypeOK
      <4>2. [request[r] EXCEPT !.pc = "starting", !.on = Actions!NextContainer] \in
                [pc : Actions!Positions, kind : Actions!Kinds, on : Actions!Containers, env : SUBSET Keys]
        BY <1>0, <2>1, <4>1
      <4>3. request' = [request EXCEPT ![r] =
                            [request[r] EXCEPT !.pc = "starting", !.on = Actions!NextContainer]]
        BY <3>1, <4>1
      <4>4. QED
        BY <4>1, <4>2, <4>3
    <3>2. CASE \E p \in {"failed", "unheard"} : request' = [request EXCEPT ![r].pc = p]
      BY <1>0, <3>2, MoveTyped
    <3>3. QED
      BY <1>9, <3>1, <3>2 DEF Actions!Create, Actions!Goto
  <2>5. QED
    BY <1>9, <2>3, <2>4 DEF Actions!Create, Actions!TypeOK
<1>10. ASSUME NEW r \in Requests, Actions!Respond(r)
       PROVE  Actions!TypeOK'
  BY <1>10 DEF Actions!Respond, Actions!TypeOK
<1>11. ASSUME NEW r \in Requests, Actions!List(r)
       PROVE  Actions!TypeOK'
  <2>1. Actions!TypeOK!3'
    BY <1>0, <1>11, MoveTyped DEF Actions!List, Actions!Goto
  <2>2. {<<k, coolify[k]>> : k \in {l \in Keys \ request[r].env : coolify[l] # Actions!None}}
            \in SUBSET (Keys \X (Requests \cup {"first"}))
    BY DEF Actions!TypeOK
  <2>3. QED
    BY <1>11, <2>1, <2>2 DEF Actions!List, Actions!TypeOK
<1>12. ASSUME NEW r \in Requests, Actions!Upsert(r)
       PROVE  Actions!TypeOK'
  <2>1. PICK p \in {"deleting", "unsynced"} : request' = [request EXCEPT ![r].pc = p]
    BY <1>12 DEF Actions!Upsert, Actions!Goto
  <2>2. Actions!TypeOK!3'
    BY <1>0, <2>1, MoveTyped
  <2>3. Actions!TypeOK!9'
    <3>1. Actions!TypeOK!9
      BY DEF Actions!TypeOK
    <3>2. CASE coolify' = [k \in Keys |->
                 IF k \in request[r].env /\ coolify[k] = Actions!None THEN r ELSE coolify[k]]
      BY <3>1, <3>2
    <3>3. CASE coolify' = coolify
      BY <3>1, <3>3
    <3>4. QED
      BY <1>12, <3>2, <3>3 DEF Actions!Upsert
  <2>4. UNCHANGED <<status, env, lease, worker, job, swap, swaps, stale>>
    BY <1>12 DEF Actions!Upsert
  <2>5. QED
    BY <2>2, <2>3, <2>4 DEF Actions!TypeOK
<1>13. ASSUME NEW r \in Requests, Actions!DeleteStale(r)
       PROVE  Actions!TypeOK'
  <2>1. request' = request \/ request' = [request EXCEPT ![r].pc = "deleting rest"]
    BY <1>13 DEF Actions!DeleteStale, Actions!Goto
  <2>2. Actions!TypeOK!3'
    <3>1. CASE request' = request
      BY <3>1 DEF Actions!TypeOK
    <3>2. CASE request' = [request EXCEPT ![r].pc = "deleting rest"]
      BY <1>0, <3>2, MoveTyped
    <3>3. QED
      BY <2>1, <3>1, <3>2
  <2>3. PICK v \in stale[r] :
          /\ stale' = [stale EXCEPT ![r] = @ \ {v}]
          /\ coolify' \in {coolify, [coolify EXCEPT ![v[1]] = Actions!None]}
    BY <1>13 DEF Actions!DeleteStale
  <2>4. Actions!TypeOK!9'
    <3>1. Actions!TypeOK!9
      BY DEF Actions!TypeOK
    <3>2. QED
      BY <2>3, <3>1
  <2>5. Actions!TypeOK!10'
    <3>1. Actions!TypeOK!10
      BY DEF Actions!TypeOK
    <3>2. QED
      BY <2>3, <3>1
  <2>6. UNCHANGED <<status, env, lease, worker, job, swap, swaps>>
    BY <1>13 DEF Actions!DeleteStale
  <2>7. QED
    BY <2>2, <2>4, <2>5, <2>6 DEF Actions!TypeOK
<1>14. CASE Actions!SwapDocker
  BY <1>14 DEF Actions!SwapDocker, Actions!Retired, Actions!TypeOK
<1>15. CASE Actions!SwapReturns
  BY <1>15 DEF Actions!SwapReturns, Actions!TypeOK
<1>16. CASE UNCHANGED Actions!vars
  BY <1>16 DEF Actions!vars, Actions!TypeOK
<1>17. ASSUME NEW r \in Requests, Actions!ClientLeaves(r)
       PROVE  Actions!TypeOK'
  BY <1>0, <1>17, MoveTyped DEF Actions!ClientLeaves, Actions!Goto, Actions!TypeOK
<1>18. QED
  BY <1>1, <1>2, <1>3, <1>4, <1>5, <1>6, <1>7, <1>8, <1>9, <1>10, <1>11, <1>12, <1>13, <1>14,
     <1>15, <1>16, <1>17 DEF Actions!Next, Actions!Act, Actions!Replace, Actions!Sync

\* Only r has moved, and its new place suits its kind and what is stale for it.
LEMMA MoveFits ==
  ASSUME Actions!TypeOK, RequestsFit, NEW r \in Requests, NEW p,
         request' = [request EXCEPT ![r].pc = p],
         p # "new",
         p \in {"spawned", "working", "worked", "broken"} => request[r].kind \in Actions!Actions,
         p \in Actions!Replacing => request[r].kind = "env",
         \A q \in Requests \ {r} : stale'[q] = stale[q],
         stale'[r] # {} => p \in {"upserting", "deleting", "deleting rest", "unsynced"},
         \A v \in stale'[r] : v[1] \notin request[r].env
  PROVE  RequestsFit'
<1>1. \A q \in Requests :
        /\ request'[q].kind = request[q].kind
        /\ request'[q].env = request[q].env
        /\ request'[q].pc = IF q = r THEN p ELSE request[q].pc
  <2>1. Actions!TypeOK!3
    BY DEF Actions!TypeOK
  <2>2. QED
    BY <2>1
<1>2. ASSUME NEW q \in Requests PROVE RequestFits(q)'
  <2>1. CASE q = r
    <3>1. request'[q].pc = p /\ request'[q].kind = request[r].kind /\ request'[q].env = request[r].env
      BY <1>1, <2>1
    <3>2. QED
      BY <2>1, <3>1 DEF RequestFits
  <2>2. CASE q # r
    <3>1. request'[q].pc = request[q].pc /\ request'[q].kind = request[q].kind
          /\ request'[q].env = request[q].env /\ stale'[q] = stale[q]
      BY <1>1, <2>2
    <3>2. RequestFits(q)
      BY DEF RequestsFit
    <3>3. QED
      BY <3>1, <3>2 DEF RequestFits
  <2>3. QED
    BY <2>1, <2>2
<1>3. QED
  BY <1>2 DEF RequestsFit

\* Create: what it may change.
LEMMA CreateSteps ==
  ASSUME Actions!TypeOK, NEW r \in Requests, Actions!Create(r)
  PROVE  /\ \A q \in Requests \ {r} : request'[q] = request[q]
         /\ request'[r].kind = request[r].kind
         /\ request'[r].env = request[r].env
         /\ \/ /\ Actions!Present = {}
               /\ status' = [status EXCEPT ![Actions!NextContainer] = "exited"]
               /\ request'[r].pc \in {"starting", "failed", "unheard"}
            \/ /\ status' = status
               /\ request'[r].pc \in {"failed", "unheard"}
<1>1. request \in [Requests ->
          [pc : Actions!Positions, kind : Actions!Kinds, on : Actions!Containers, env : SUBSET Keys]]
  BY DEF Actions!TypeOK
<1>2. \/ /\ Actions!Present = {}
         /\ status' = [status EXCEPT ![Actions!NextContainer] = "exited"]
         /\ \/ request' = [request EXCEPT ![r] =
                              [@ EXCEPT !.pc = "starting", !.on = Actions!NextContainer]]
            \/ \E p \in {"failed", "unheard"} : request' = [request EXCEPT ![r].pc = p]
      \/ /\ status' = status
         /\ \E p \in {"failed", "unheard"} : request' = [request EXCEPT ![r].pc = p]
  BY DEF Actions!Create, Actions!Goto, Actions!containers
<1>3. QED
  BY <1>1, <1>2

\* A request keeps its kind, and what it lists as stale is none of its own
\* keys.
LEMMA RequestsFitKept ==
  ASSUME Actions!TypeOK, RequestsFit, [Actions!Next]_(Actions!vars)
  PROVE  RequestsFit'
<1> USE DEF Actions!containers, Actions!leases, Actions!registry, Actions!sync
<1>1. ASSUME NEW r \in Requests, NEW c \in Actions!Containers, NEW keys \in SUBSET Keys,
             NEW kind \in Actions!Actions \cup {"start", "env"}, Actions!Ask(r, kind, c, keys)
      PROVE  RequestsFit'
  <2>1. PICK p : /\ request' = [request EXCEPT ![r] = [pc |-> p, kind |-> kind, on |-> c, env |-> keys]]
                 /\ p = IF kind = "start" THEN "starting once"
                        ELSE IF kind = "env" THEN "inspecting" ELSE "spawned"
    BY <1>1 DEF Actions!Ask
  <2>2. stale' = stale /\ stale[r] = {}
    BY <1>1 DEF Actions!Ask, RequestsFit, RequestFits
  <2>3. \A q \in Requests :
           request'[q] = IF q = r THEN [pc |-> p, kind |-> kind, on |-> c, env |-> keys] ELSE request[q]
    BY <2>1 DEF Actions!TypeOK
  <2>4. QED
    <3>1. RequestFits(r)'
      <4>1. request'[r].pc = p /\ request'[r].kind = kind /\ stale'[r] = {}
        BY <2>2, <2>3
      <4>2. p \notin Actions!Replacing \/ kind = "env"
        BY <2>1 DEF Actions!Replacing
      <4>3. p = "spawned" => kind \in Actions!Actions
        BY <2>1
      <4>4. p \in {"starting once", "inspecting", "spawned"}
        BY <2>1
      <4>5. QED
        BY <4>1, <4>2, <4>3, <4>4 DEF RequestFits
    <3>2. ASSUME NEW q \in Requests \ {r} PROVE RequestFits(q)'
      BY <2>2, <2>3 DEF RequestsFit, RequestFits
    <3>3. QED
      BY <3>1, <3>2 DEF RequestsFit
<1>2. ASSUME NEW r \in Requests, Actions!StartContainer(r) \/ Actions!Work(r)
      PROVE  RequestsFit'
  <2>1. stale' = stale /\ stale[r] = {}
    BY <1>2 DEF Actions!StartContainer, Actions!Work, RequestsFit, RequestFits
  <2>2. CASE Actions!StartContainer(r)
    <3>1. \/ Actions!Call(r, "start", request[r].on, "done", "failed")
          \/ Actions!Call(r, "start", request[r].on, "unheard", "unheard")
      BY <2>2 DEF Actions!StartContainer, Actions!CallUnlimited
    <3>2. PICK p \in {"done", "failed", "unheard"} : request' = [request EXCEPT ![r].pc = p]
      BY <3>1, CallSteps
    <3>3. QED
      BY <2>1, <3>2, MoveFits DEF Actions!Replacing
  <2>3. CASE Actions!Work(r)
    <3>1. PICK p \in {"worked", "broken"} : request' = [request EXCEPT ![r].pc = p]
      BY <2>3, CallSteps DEF Actions!Work
    <3>2. request[r].kind \in Actions!Actions
      BY <2>3 DEF Actions!Work, RequestsFit, RequestFits
    <3>3. QED
      BY <2>1, <3>1, <3>2, MoveFits DEF Actions!Replacing
  <2>4. QED
    BY <1>2, <2>2, <2>3
<1>3. ASSUME NEW r \in Requests, Actions!ReturnAccepted(r) \/ Actions!Respond(r)
      PROVE  RequestsFit'
  BY <1>3 DEF Actions!ReturnAccepted, Actions!Respond, RequestsFit, RequestFits
<1>4. ASSUME NEW r \in Requests,
             Actions!BeginWork(r) \/ Actions!RecordActionJob(r) \/ Actions!ClientLeaves(r)
      PROVE  RequestsFit'
  <2>1. PICK p \in {"done", "failed", "working"} :
          /\ request' = [request EXCEPT ![r].pc = p]
          /\ p = "working" => request[r].pc = "spawned"
          /\ stale' = stale
          /\ stale[r] = {}
    BY <1>4
    DEF Actions!BeginWork, Actions!RecordActionJob, Actions!ClientLeaves, Actions!Goto,
        RequestsFit, RequestFits
  <2>2. QED
    BY <2>1, MoveFits DEF RequestsFit, RequestFits, Actions!Replacing
<1>5. ASSUME NEW r \in Requests,
             Actions!Inspect(r) \/ Actions!Stop(r) \/ Actions!Remove(r) \/ Actions!StartNew(r)
      PROVE  RequestsFit'
  <2>1. request[r].pc \in Actions!Replacing /\ stale' = stale
    BY <1>5 DEF Actions!Inspect, Actions!Stop, Actions!Remove, Actions!StartNew, Actions!Replacing
  <2>2. request[r].kind = "env" /\ stale[r] = {}
    BY <2>1 DEF Actions!Replacing, RequestsFit, RequestFits
  <2>3. PICK p \in {"stopping", "removing", "creating", "updated", "listing", "failed", "unheard"} :
          request' = [request EXCEPT ![r].pc = p]
    <3>1. CASE Actions!Inspect(r)
      BY <3>1 DEF Actions!Inspect, Actions!Goto
    <3>2. CASE Actions!Stop(r)
      BY <3>2, CallSteps DEF Actions!Stop, Actions!CallUnlimited
    <3>3. CASE Actions!Remove(r)
      BY <3>3, CallSteps DEF Actions!Remove, Actions!CallUnlimited
    <3>4. CASE Actions!StartNew(r)
      BY <3>4, CallSteps DEF Actions!StartNew, Actions!CallUnlimited
    <3>5. QED
      BY <1>5, <3>1, <3>2, <3>3, <3>4
  <2>4. QED
    BY <2>1, <2>2, <2>3, MoveFits
<1>6. ASSUME NEW r \in Requests, Actions!Create(r)
      PROVE  RequestsFit'
  <2>1. /\ \A q \in Requests \ {r} : request'[q] = request[q]
        /\ request'[r].kind = request[r].kind
        /\ request'[r].env = request[r].env
        /\ request'[r].pc \in {"starting", "failed", "unheard"}
    BY <1>6, CreateSteps
  <2>2. request[r].kind = "env" /\ stale' = stale /\ stale[r] = {}
    BY <1>6 DEF Actions!Create, RequestsFit, RequestFits, Actions!Replacing
  <2>3. RequestFits(r)'
    BY <2>1, <2>2 DEF RequestFits, Actions!Replacing
  <2>4. ASSUME NEW q \in Requests \ {r} PROVE RequestFits(q)'
    <3>1. RequestFits(q)
      BY DEF RequestsFit
    <3>2. request'[q] = request[q] /\ stale'[q] = stale[q]
      BY <2>1, <2>2
    <3>3. QED
      BY <3>1, <3>2 DEF RequestFits
  <2>5. QED
    BY <2>3, <2>4 DEF RequestsFit
<1>7. ASSUME NEW r \in Requests, Actions!List(r)
      PROVE  RequestsFit'
  <2>1. PICK p \in {"upserting", "unsynced"} : request' = [request EXCEPT ![r].pc = p]
    BY <1>7 DEF Actions!List, Actions!Goto
  <2>2. /\ \A q \in Requests \ {r} : stale'[q] = stale[q]
        /\ \A v \in stale'[r] : v[1] \notin request[r].env
        /\ stale'[r] # {} => p = "upserting"
    <3>1. stale[r] = {}
      BY <1>7 DEF Actions!List, RequestsFit, RequestFits
    <3>2. CASE stale' = stale
      BY <3>1, <3>2
    <3>3. CASE /\ Actions!Goto(r, "upserting")
               /\ stale' = [stale EXCEPT ![r] =
                     {<<k, coolify[k]>> : k \in {l \in Keys \ request[r].env : coolify[l] # Actions!None}}]
      <4>1. p = "upserting"
        BY <2>1, <3>3 DEF Actions!Goto, Actions!TypeOK
      <4>2. QED
        BY <3>3, <4>1 DEF Actions!TypeOK
    <3>4. QED
      BY <1>7, <3>2, <3>3 DEF Actions!List
  <2>3. QED
    BY <2>1, <2>2, MoveFits DEF Actions!Replacing
<1>8. ASSUME NEW r \in Requests, Actions!Upsert(r) \/ Actions!EndSync(r)
      PROVE  RequestsFit'
  <2>1. PICK p \in {"deleting", "unsynced", "synced"} :
          /\ request' = [request EXCEPT ![r].pc = p]
          /\ stale' = stale
          /\ p = "synced" => stale[r] = {}
    BY <1>8 DEF Actions!Upsert, Actions!EndSync, Actions!Goto
  <2>2. QED
    BY <2>1, MoveFits DEF RequestsFit, RequestFits, Actions!Replacing
<1>9. ASSUME NEW r \in Requests, Actions!DeleteStale(r)
      PROVE  RequestsFit'
  <2>1. PICK v \in stale[r] : stale' = [stale EXCEPT ![r] = @ \ {v}]
    BY <1>9 DEF Actions!DeleteStale
  <2>2. stale'[r] \subseteq stale[r] /\ \A q \in Requests \ {r} : stale'[q] = stale[q]
    BY <2>1 DEF Actions!TypeOK
  <2>3. CASE request' = request
    BY <2>2, <2>3 DEF RequestsFit, RequestFits
  <2>4. CASE request' = [request EXCEPT ![r].pc = "deleting rest"]
    BY <2>2, <2>4, MoveFits DEF RequestsFit, RequestFits, Actions!Replacing
  <2>5. QED
    BY <1>9, <2>3, <2>4 DEF Actions!DeleteStale, Actions!Goto
<1>10. CASE Actions!SwapDocker \/ Actions!SwapReturns \/ UNCHANGED Actions!vars
  BY <1>10 DEF Actions!SwapDocker, Actions!SwapReturns, Actions!vars, RequestsFit, RequestFits
<1>11. QED
  BY <1>1, <1>2, <1>3, <1>4, <1>5, <1>6, <1>7, <1>8, <1>9, <1>10
     DEF Actions!Next, Actions!Act, Actions!Replace, Actions!Sync

\* A request that moves keeps its kind, and the others stay.
LEMMA MoveSteps ==
  ASSUME Actions!TypeOK, NEW r \in Requests, NEW p, request' = [request EXCEPT ![r].pc = p]
  PROVE  /\ \A q \in Requests : request'[q].kind = request[q].kind
         /\ \A q \in Requests \ {r} : request'[q].pc = request[q].pc
         /\ request'[r].pc = p
  BY DEF Actions!TypeOK

\* Where a request that can take a step stands, and where the step leads.  Only
\* Ask, Create and the calls to Docker change more than this of what the
\* invariants below look at.
LEMMA RequestSteps ==
  ASSUME Actions!TypeOK, RequestsFit, [Actions!Next]_(Actions!vars)
  PROVE  \/ \E r \in Requests, c \in Actions!Containers, kind \in Actions!Actions \cup {"start", "env"},
               keys \in SUBSET Keys : Actions!Ask(r, kind, c, keys)
         \/ \E r \in Requests : Actions!Create(r) \/ Actions!RecordActionJob(r)
         \/ \E r \in Requests : Actions!Work(r) \/ Actions!Remove(r)
         \/ \E r \in Requests : Actions!BeginWork(r) \/ Actions!ClientLeaves(r)
         \/ \E r \in Requests, a \in {"start", "stop"}, p, q \in Actions!Positions :
               /\ Actions!Call(r, a, request[r].on, p, q)
               /\ request[r].pc \in {"starting once", "stopping", "starting"}
               /\ job' = job
         \/ \E r \in Requests, p \in Actions!Positions :
               /\ request' = [request EXCEPT ![r].pc = p]
               /\ request[r].pc \in {"inspecting", "deleting", "deleting rest", "listing", "upserting"}
               /\ status' = status /\ job' = job
         \/ request' = request /\ status' = status /\ job' = job
<1> USE DEF Actions!containers, Actions!leases, Actions!registry, Actions!sync, Actions!Goto
<1>0. {"done", "failed", "updated", "listing", "removing", "stopping", "upserting", "unsynced",
       "deleting", "deleting rest", "synced", "unheard"} \subseteq Actions!Positions
  BY DEF Actions!Positions, Actions!Replacing, Actions!Syncing
<1>1. ASSUME NEW r \in Requests, Actions!StartContainer(r) \/ Actions!Stop(r) \/ Actions!StartNew(r)
      PROVE  \E a \in {"start", "stop"}, p, q \in Actions!Positions :
               /\ Actions!Call(r, a, request[r].on, p, q)
               /\ request[r].pc \in {"starting once", "stopping", "starting"}
               /\ job' = job
  <2>1. CASE Actions!StartContainer(r)
    BY <1>0, <2>1 DEF Actions!StartContainer, Actions!CallUnlimited
  <2>2. CASE Actions!Stop(r)
    BY <1>0, <2>2 DEF Actions!Stop, Actions!CallUnlimited
  <2>3. CASE Actions!StartNew(r)
    BY <1>0, <2>3 DEF Actions!StartNew, Actions!CallUnlimited
  <2>4. QED
    BY <1>1, <2>1, <2>2, <2>3
<1>2. ASSUME NEW r \in Requests, Actions!Inspect(r) \/ Actions!Sync(r)
      PROVE  \/ request' = request /\ status' = status /\ job' = job
             \/ \E p \in Actions!Positions :
                  /\ request' = [request EXCEPT ![r].pc = p]
                  /\ request[r].pc \in {"inspecting", "deleting", "deleting rest", "listing", "upserting"}
                  /\ status' = status /\ job' = job
  <2>1. CASE Actions!Inspect(r)
    BY <1>0, <2>1 DEF Actions!Inspect
  <2>2. CASE Actions!List(r)
    BY <1>0, <2>2 DEF Actions!List
  <2>3. CASE Actions!Upsert(r)
    BY <1>0, <2>3 DEF Actions!Upsert
  <2>4. CASE Actions!DeleteStale(r)
    BY <1>0, <2>4 DEF Actions!DeleteStale
  <2>5. CASE Actions!EndSync(r)
    BY <1>0, <2>5 DEF Actions!EndSync
  <2>6. QED
    BY <1>2, <2>1, <2>2, <2>3, <2>4, <2>5 DEF Actions!Sync
<1>3. ASSUME \/ \E r \in Requests : Actions!ReturnAccepted(r) \/ Actions!Respond(r)
             \/ Actions!SwapDocker \/ Actions!SwapReturns \/ UNCHANGED Actions!vars
      PROVE  request' = request /\ status' = status /\ job' = job
  BY <1>3 DEF Actions!ReturnAccepted, Actions!Respond, Actions!SwapDocker, Actions!SwapReturns,
     Actions!vars
<1>4. QED
  BY <1>1, <1>2, <1>3 DEF Actions!Next, Actions!Act, Actions!Replace, Actions!Sync

\* A call changes the state of the one container that is there.
LEMMA CallStatus ==
  ASSUME Actions!TypeOK, MadeInOrder, NEW r \in Requests, NEW a, NEW c, NEW p, NEW q,
         Actions!Call(r, a, c, p, q)
  PROVE  MadeInOrder'
<1>1. PICK n \in Actions!Containers :
        \A d \in Actions!Containers :
            /\ d > n => status[d] = "unborn"
            /\ d < n => status[d] = "removed"
            /\ status[n] # "unborn"
  BY DEF MadeInOrder
<1>2. CASE status' = status
  BY <1>2 DEF MadeInOrder
<1>3. CASE c \in Actions!Present /\ status' = [status EXCEPT ![c] = Actions!After(a)]
  <2>1. c = n
    BY <1>1, <1>3, ActionsAssumption
       DEF Actions!Present, Actions!Containers, Actions!BoundAssumption
  <2>2. /\ \A d \in Actions!Containers \ {n} : status'[d] = status[d]
        /\ status'[n] # "unborn"
    BY <1>3, <2>1 DEF Actions!After, Actions!TypeOK
  <2>3. QED
    BY <1>1, <2>2 DEF MadeInOrder, Actions!Containers
<1>4. QED
  BY <1>2, <1>3, CallSteps

\* Only Create makes a container, the next one, when none of the name is
\* there.
LEMMA MadeInOrderKept ==
  ASSUME Actions!TypeOK, RequestsFit, MadeInOrder, [Actions!Next]_(Actions!vars)
  PROVE  MadeInOrder'
<1>1. ASSUME NEW r \in Requests, NEW a, NEW c, NEW p, NEW q, Actions!Call(r, a, c, p, q)
      PROVE  MadeInOrder'
  BY <1>1, CallStatus
<1>2. ASSUME NEW r \in Requests, Actions!Create(r)
      PROVE  MadeInOrder'
  <2>1. CASE status' = status
    BY <2>1 DEF MadeInOrder
  <2>2. CASE Actions!Present = {} /\ status' = [status EXCEPT ![Actions!NextContainer] = "exited"]
    <3>1. PICK n \in Actions!Containers :
            \A d \in Actions!Containers :
                /\ d > n => status[d] = "unborn"
                /\ d < n => status[d] = "removed"
                /\ status[n] # "unborn"
      BY DEF MadeInOrder
    <3>2. status[n] = "removed"
      BY <2>2, <3>1 DEF Actions!Present, Actions!TypeOK
    <3>3. Actions!NextContainer = n + 1 /\ n + 1 \in Actions!Containers
      BY <1>2, <3>1, NextIsFirst, ActionsAssumption
         DEF Actions!Create, Actions!Unborn, Actions!Containers, Actions!BoundAssumption
    <3>4. \A d \in Actions!Containers :
            status'[d] = IF d = n + 1 THEN "exited" ELSE status[d]
      BY <2>2, <3>3 DEF Actions!TypeOK
    <3>5. QED
      BY <3>1, <3>2, <3>3, <3>4, ActionsAssumption
         DEF MadeInOrder, Actions!Containers, Actions!BoundAssumption
  <2>3. QED
    BY <1>2, <2>1, <2>2, CreateSteps
<1>3. ASSUME status' = status
      PROVE  MadeInOrder'
  BY <1>3 DEF MadeInOrder
<1>4. ASSUME NEW r \in Requests, Actions!Work(r) \/ Actions!Remove(r)
      PROVE  MadeInOrder'
  BY <1>1, <1>4 DEF Actions!Work, Actions!Remove, Actions!CallUnlimited
<1>5. ASSUME NEW r \in Requests,
             Actions!BeginWork(r) \/ Actions!RecordActionJob(r) \/ Actions!ClientLeaves(r)
      PROVE  MadeInOrder'
  BY <1>3, <1>5
  DEF Actions!BeginWork, Actions!RecordActionJob, Actions!ClientLeaves, Actions!containers
<1>6. ASSUME NEW r \in Requests, NEW c, NEW kind, NEW keys, Actions!Ask(r, kind, c, keys)
      PROVE  MadeInOrder'
  BY <1>3, <1>6 DEF Actions!Ask, Actions!containers
<1>7. QED
  BY <1>1, <1>2, <1>3, <1>4, <1>5, <1>6, RequestSteps

\* With the containers in order there is one at most, and it is the newest.
LEMMA OrderIsNewest ==
  ASSUME MadeInOrder
  PROVE  Actions!OnlyTheNewest
  BY ActionsAssumption
     DEF MadeInOrder, Actions!OnlyTheNewest, Actions!Containers, Actions!BoundAssumption

Explains(r) ==
    \/ request[r].kind = "remove"
    \/ request[r].kind = "env" /\ request[r].pc \in {"creating", "unheard", "failed"}

\* The last container goes by a request that says so or goes on to replace
\* it.
LEMMA GoneIsExplainedKept ==
  ASSUME Actions!TypeOK, RequestsFit, MadeInOrder, Actions!GoneIsExplained,
         [Actions!Next]_(Actions!vars)
  PROVE  Actions!GoneIsExplained'
<1> USE DEF Explains
<1>0. /\ Actions!GoneIsExplained <=> (Actions!Present = {} => \E r \in Requests : Explains(r))
      /\ Actions!GoneIsExplained' <=> (Actions!Present' = {} => \E r \in Requests : Explains(r)')
  BY DEF Actions!GoneIsExplained
<1>1. ASSUME NEW r \in Requests, status' = status,
             \A q \in Requests \ {r} : request'[q] = request[q],
             Explains(r) => Explains(r)'
      PROVE  Actions!GoneIsExplained'
  BY <1>0, <1>1 DEF Actions!Present
<1>2. ASSUME NEW r \in Requests, NEW p, request' = [request EXCEPT ![r].pc = p], status' = status,
             request[r].pc \notin {"creating", "unheard", "failed"}
      PROVE  Actions!GoneIsExplained'
  <2>1. \A q \in Requests \ {r} : request'[q] = request[q]
    BY <1>2
  <2>2. request'[r].kind = request[r].kind
    BY <1>2, MoveSteps
  <2>3. QED
    BY <1>1, <1>2, <2>1, <2>2
<1>3. ASSUME NEW r \in Requests, NEW a, NEW c, NEW p, NEW q, Actions!Call(r, a, c, p, q),
             request[r].pc \notin {"creating", "unheard", "failed"},
             status' # status => a # "remove" \/ Explains(r)'
      PROVE  Actions!GoneIsExplained'
  <2>1. PICK x \in {p, q} : request' = [request EXCEPT ![r].pc = x]
    BY <1>3, CallSteps
  <2>2. CASE status' = status
    BY <1>2, <1>3, <2>1, <2>2
  <2>3. CASE status' # status
    <3>1. c \in Actions!Present /\ status' = [status EXCEPT ![c] = Actions!After(a)]
      BY <1>3, <2>3, CallSteps
    <3>2. CASE a # "remove"
      <4>1. c \in Actions!Present'
        BY <3>1, <3>2 DEF Actions!Present, Actions!After, Actions!TypeOK
      <4>2. QED
        BY <1>0, <4>1
    <3>3. CASE Explains(r)'
      BY <1>0, <3>3
    <3>4. QED
      BY <1>3, <2>3, <3>2, <3>3
  <2>4. QED
    BY <2>2, <2>3
<1>4. ASSUME NEW r \in Requests, NEW c, NEW kind, NEW keys, Actions!Ask(r, kind, c, keys)
      PROVE  Actions!GoneIsExplained'
  <2>1. /\ status' = status
        /\ \A q \in Requests \ {r} : request'[q] = request[q]
    BY <1>4 DEF Actions!Ask, Actions!containers, Actions!TypeOK
  <2>2. ~Explains(r)
    BY <1>4 DEF Actions!Ask, RequestsFit, RequestFits, Actions!None
  <2>3. QED
    BY <1>1, <2>1, <2>2
<1>5. ASSUME NEW r \in Requests, Actions!Create(r)
      PROVE  Actions!GoneIsExplained'
  <2>1. request'[r].kind = "env"
    BY <1>5, CreateSteps DEF Actions!Create, RequestsFit, RequestFits, Actions!Replacing
  <2>2. CASE request'[r].pc \in {"failed", "unheard"}
    BY <1>0, <2>1, <2>2
  <2>3. CASE /\ status' = [status EXCEPT ![Actions!NextContainer] = "exited"]
             /\ Actions!Unborn # {}
    <3>1. Actions!NextContainer \in Actions!Containers
      BY <2>3, NextIsFirst DEF Actions!Unborn
    <3>2. Actions!NextContainer \in Actions!Present'
      BY <2>3, <3>1 DEF Actions!Present, Actions!TypeOK
    <3>3. QED
      BY <1>0, <3>2
  <2>4. Actions!Unborn # {}
    BY <1>5 DEF Actions!Create
  <2>5. QED
    BY <2>2, <2>3, <2>4, <1>5, CreateSteps
<1>6. ASSUME NEW r \in Requests, Actions!RecordActionJob(r)
      PROVE  Actions!GoneIsExplained'
  <2>1. PICK p : request' = [request EXCEPT ![r].pc = p]
    BY <1>6 DEF Actions!RecordActionJob, Actions!Goto
  <2>2. QED
    BY <1>2, <1>6, <2>1 DEF Actions!RecordActionJob, Actions!containers
<1>7. ASSUME NEW r \in Requests, Actions!BeginWork(r)
      PROVE  Actions!GoneIsExplained'
  BY <1>2, <1>7 DEF Actions!BeginWork, Actions!Goto, Actions!containers
<1>8. ASSUME NEW r \in Requests, Actions!Work(r)
      PROVE  Actions!GoneIsExplained'
  <2>1. Actions!Call(r, request[r].kind, request[r].on, "worked", "broken")
    BY <1>8 DEF Actions!Work
  <2>2. request[r].kind = "remove" => Explains(r)'
    <3>1. PICK x \in {"worked", "broken"} : request' = [request EXCEPT ![r].pc = x]
      BY <2>1, CallSteps
    <3>2. QED
      BY <3>1, MoveSteps
  <2>3. request[r].pc \notin {"creating", "unheard", "failed"}
    BY <1>8 DEF Actions!Work
  <2>4. QED
    BY <1>3, <2>1, <2>2, <2>3
<1>9. ASSUME NEW r \in Requests, Actions!Remove(r)
      PROVE  Actions!GoneIsExplained'
  <2>1. PICK q \in {"failed", "unheard"}, p \in {"creating", "unheard"} :
          Actions!Call(r, "remove", request[r].on, p, q)
    BY <1>9 DEF Actions!Remove, Actions!CallUnlimited
  <2>2. request[r].kind = "env" /\ request[r].pc \notin {"creating", "unheard", "failed"}
    BY <1>9 DEF Actions!Remove, Actions!Replacing, RequestsFit, RequestFits
  <2>3. Explains(r)'
    <3>1. PICK x \in {"creating", "unheard", "failed"} : request' = [request EXCEPT ![r].pc = x]
      BY <2>1, CallSteps
    <3>2. QED
      BY <2>2, <3>1, MoveSteps
  <2>4. QED
    BY <1>3, <2>1, <2>2, <2>3
<1>10. ASSUME NEW r \in Requests, NEW a \in {"start", "stop"}, NEW p, NEW q,
              Actions!Call(r, a, request[r].on, p, q),
              request[r].pc \in {"starting once", "stopping", "starting"}
       PROVE  Actions!GoneIsExplained'
  BY <1>3, <1>10
<1>11. ASSUME NEW r \in Requests, NEW p, request' = [request EXCEPT ![r].pc = p], status' = status,
              request[r].pc \in {"inspecting", "deleting", "deleting rest", "listing", "upserting"}
       PROVE  Actions!GoneIsExplained'
  BY <1>2, <1>11
<1>12. ASSUME request' = request, status' = status
       PROVE  Actions!GoneIsExplained'
  BY <1>0, <1>12 DEF Actions!Present
<1>13. ASSUME NEW r \in Requests, Actions!ClientLeaves(r)
       PROVE  Actions!GoneIsExplained'
  <2>1. request' = [request EXCEPT ![r].pc = "failed"] /\ status' = status
    BY <1>13 DEF Actions!ClientLeaves, Actions!Goto, Actions!containers
  <2>2. \A q \in Requests \ {r} : request'[q] = request[q]
    BY <2>1
  <2>3. request'[r].kind = request[r].kind /\ request'[r].pc = "failed"
    BY <2>1, MoveSteps
  <2>4. QED
    BY <1>1, <2>1, <2>2, <2>3
<1>14. QED
  BY <1>4, <1>5, <1>6, <1>7, <1>8, <1>9, <1>10, <1>11, <1>12, <1>13, RequestSteps

\* The goroutine that a pending entry waits for.
IsWorkedOn(a) ==
    \E r \in Requests :
        request[r].kind = a /\ request[r].pc \in {"spawned", "working", "worked", "broken"}

\* Whoever finds an entry pending has a goroutine that writes it again.
LEMMA PendingIsWorkedOnKept ==
  ASSUME Actions!TypeOK, RequestsFit, Actions!PendingIsWorkedOn, [Actions!Next]_(Actions!vars)
  PROVE  Actions!PendingIsWorkedOn'
<1> DEFINE AtWork == {"spawned", "working", "worked", "broken"}
<1>0. /\ Actions!PendingIsWorkedOn <=>
            \A a \in Actions!Actions : job[a] = "pending" => IsWorkedOn(a)
      /\ Actions!PendingIsWorkedOn' <=>
            \A a \in Actions!Actions : job'[a] = "pending" => IsWorkedOn(a)'
  BY DEF Actions!PendingIsWorkedOn, IsWorkedOn
<1>1. ASSUME NEW r \in Requests, NEW p, request' = [request EXCEPT ![r].pc = p], job' = job,
             request[r].pc \in AtWork => p \in AtWork
      PROVE  Actions!PendingIsWorkedOn'
  <2>1. ASSUME NEW a, IsWorkedOn(a) PROVE IsWorkedOn(a)'
    BY <1>1, <2>1, MoveSteps DEF IsWorkedOn
  <2>2. QED
    BY <1>0, <1>1, <2>1
<1>2. ASSUME NEW r \in Requests, NEW c, NEW kind, NEW keys, Actions!Ask(r, kind, c, keys)
      PROVE  Actions!PendingIsWorkedOn'
  <2>1. /\ \A q \in Requests \ {r} : request'[q] = request[q]
        /\ request[r].pc = "new"
        /\ request'[r].kind = kind
        /\ kind \in Actions!Actions => request'[r].pc = "spawned"
        /\ job' = IF kind \in Actions!Actions THEN [job EXCEPT ![kind] = "pending"] ELSE job
    BY <1>2 DEF Actions!Ask, Actions!TypeOK, Actions!Actions
  <2>2. ASSUME NEW a, IsWorkedOn(a) PROVE IsWorkedOn(a)'
    BY <2>1, <2>2 DEF IsWorkedOn
  <2>3. kind \in Actions!Actions => IsWorkedOn(kind)'
    BY <2>1 DEF IsWorkedOn
  <2>4. QED
    BY <1>0, <2>1, <2>2, <2>3 DEF Actions!TypeOK
<1>3. ASSUME NEW r \in Requests, Actions!RecordActionJob(r)
      PROVE  Actions!PendingIsWorkedOn'
  <2>0. request[r].kind \in Actions!Actions
    BY <1>3 DEF Actions!RecordActionJob, RequestsFit, RequestFits
  <2>1. \A q \in Requests \ {r} : request'[q] = request[q]
    <3>1. PICK p : request' = [request EXCEPT ![r].pc = p]
      BY <1>3 DEF Actions!RecordActionJob, Actions!Goto
    <3>2. QED
      BY <3>1 DEF Actions!TypeOK
  <2>2. ASSUME NEW a \in Actions!Actions, a # request[r].kind, IsWorkedOn(a) PROVE IsWorkedOn(a)'
    BY <2>1, <2>2 DEF IsWorkedOn
  <2>3. /\ job'[request[r].kind] # "pending"
        /\ \A a \in Actions!Actions \ {request[r].kind} : job'[a] = job[a]
    BY <1>3, <2>0 DEF Actions!RecordActionJob, Actions!TypeOK
  <2>4. QED
    BY <1>0, <2>2, <2>3
<1>4. ASSUME NEW r \in Requests, Actions!BeginWork(r) \/ Actions!ClientLeaves(r)
      PROVE  Actions!PendingIsWorkedOn'
  BY <1>1, <1>4 DEF Actions!BeginWork, Actions!ClientLeaves, Actions!Goto
<1>5. ASSUME NEW r \in Requests, NEW a, NEW c, NEW p, NEW q, Actions!Call(r, a, c, p, q), job' = job,
             request[r].pc \in AtWork => p \in AtWork /\ q \in AtWork
      PROVE  Actions!PendingIsWorkedOn'
  <2>1. PICK x \in {p, q} : request' = [request EXCEPT ![r].pc = x]
    BY <1>5, CallSteps
  <2>2. QED
    BY <1>1, <1>5, <2>1
<1>6. ASSUME NEW r \in Requests, Actions!Work(r) \/ Actions!Remove(r)
      PROVE  Actions!PendingIsWorkedOn'
  <2>1. CASE Actions!Work(r)
    <3>1. Actions!Call(r, request[r].kind, request[r].on, "worked", "broken") /\ job' = job
      BY <2>1 DEF Actions!Work
    <3>2. QED
      BY <1>5, <3>1
  <2>2. CASE Actions!Remove(r)
    <3>1. PICK p, q : Actions!Call(r, "remove", request[r].on, p, q) /\ job' = job
      BY <2>2 DEF Actions!Remove, Actions!CallUnlimited
    <3>2. request[r].pc \notin AtWork
      BY <2>2 DEF Actions!Remove
    <3>3. QED
      BY <1>5, <3>1, <3>2
  <2>3. QED
    BY <1>6, <2>1, <2>2
<1>7. ASSUME NEW r \in Requests, Actions!Create(r)
      PROVE  Actions!PendingIsWorkedOn'
  <2>1. /\ \A q \in Requests \ {r} : request'[q] = request[q]
        /\ request[r].pc \notin AtWork
        /\ job' = job
    BY <1>7, CreateSteps DEF Actions!Create
  <2>2. ASSUME NEW a, IsWorkedOn(a) PROVE IsWorkedOn(a)'
    BY <2>1, <2>2 DEF IsWorkedOn
  <2>3. QED
    BY <1>0, <2>1, <2>2
<1>8. ASSUME NEW r \in Requests, NEW a, NEW p, NEW q, Actions!Call(r, a, request[r].on, p, q),
             request[r].pc \in {"starting once", "stopping", "starting"}, job' = job
      PROVE  Actions!PendingIsWorkedOn'
  BY <1>5, <1>8
<1>9. ASSUME NEW r \in Requests, NEW p, request' = [request EXCEPT ![r].pc = p], job' = job,
             request[r].pc \in {"inspecting", "deleting", "deleting rest", "listing", "upserting"}
      PROVE  Actions!PendingIsWorkedOn'
  BY <1>1, <1>9
<1>10. ASSUME request' = request, job' = job
       PROVE  Actions!PendingIsWorkedOn'
  BY <1>10 DEF Actions!PendingIsWorkedOn
<1>11. QED
  BY <1>2, <1>3, <1>4, <1>6, <1>7, <1>8, <1>9, <1>10, RequestSteps

\* ContainerRequests keeps its invariant.
LEMMA ActionsInvariant == Actions!Spec => []ActionsInv
<1>1. Actions!Init => ActionsInv
  <2> SUFFICES ASSUME Actions!Init PROVE ActionsInv
    OBVIOUS
  <2> USE ActionsAssumption DEF Actions!BoundAssumption, Actions!RequestAssumption, Actions!Init
  <2>1. Actions!TypeOK
    BY DEF Actions!TypeOK, Actions!Containers, Actions!Positions, Actions!Kinds, Actions!None
  <2>2. RequestsFit
    BY DEF RequestsFit, RequestFits, Actions!Replacing
  <2>3. 1 \in Actions!Containers /\ status[1] = "running"
    BY DEF Actions!Containers
  <2>4. MadeInOrder
    BY <2>3 DEF MadeInOrder, Actions!Containers
  <2>5. Actions!GoneIsExplained
    BY <2>3 DEF Actions!GoneIsExplained, Actions!Present
  <2>6. Actions!PendingIsWorkedOn
    BY DEF Actions!PendingIsWorkedOn, Actions!None
  <2>7. QED
    BY <2>1, <2>2, <2>4, <2>5, <2>6 DEF ActionsInv
<1>2. ActionsInv /\ [Actions!Next]_(Actions!vars) => ActionsInv'
  BY ActionsTyped, RequestsFitKept, MadeInOrderKept, GoneIsExplainedKept, PendingIsWorkedOnKept
     DEF ActionsInv
<1>3. QED
  BY <1>1, <1>2, PTL DEF Actions!Spec

-----------------------------------------------------------------------------
(* Each part moves by itself.                                              *)

\* The steps of the other parts leave the requests alone.
LEMMA ActionsRun == Spec => Actions!Spec
<1>1. Init => Actions!Init
  BY DEF Init
<1>2. [Next]_vars => [Actions!Next]_(Actions!vars)
  BY DEF Next, vars, actionsVars, Actions!vars, Actions!containers, Actions!leases,
         Actions!registry, Actions!sync
<1>3. QED
  BY <1>1, <1>2, PTL DEF Spec, Actions!Spec

(***************************************************************************)
(* Of the containers of a name only the newest is left, none is gone but   *)
(* by a request that removed it or is still replacing it, and an action    *)
(* that reads "pending" has a goroutine that will write it again:          *)
(* ContainerRequests, handlers.go:465-486, container.go:91-143.            *)
(***************************************************************************)
THEOREM ReplacedIsNotLost == Spec => []ReplacedNotLost
<1>1. ActionsInv => ReplacedNotLost
  BY OrderIsNewest DEF ActionsInv, ReplacedNotLost, Actions!ReplacedNotLost
<1>2. QED
  BY <1>1, ActionsRun, ActionsInvariant, PTL

(***************************************************************************)
(* A variable that all updates under way ask for never goes missing in     *)
(* Coolify, whatever the order of their lists, upserts and deletions       *)
(* (client.go:163-223).                                                    *)
(***************************************************************************)
THEOREM AskedForIsKept == Spec => AskedForStays
<1>1. ActionsInv /\ [Actions!Next]_(Actions!vars) =>
        \A k \in Keys :
            (/\ coolify[k] # Actions!None
             /\ \A r \in Requests : stale[r] # {} => k \in request[r].env)
                => coolify'[k] # Actions!None
  <2> SUFFICES ASSUME ActionsInv, [Actions!Next]_(Actions!vars), NEW k \in Keys,
                      coolify[k] # Actions!None,
                      \A r \in Requests : stale[r] # {} => k \in request[r].env
               PROVE  coolify'[k] # Actions!None
    OBVIOUS
  <2>1. CASE coolify' = coolify
    BY <2>1
  <2>2. ASSUME NEW r \in Requests, Actions!Upsert(r) PROVE coolify'[k] # Actions!None
    BY <2>2, ActionsAssumption DEF Actions!Upsert, Actions!RequestAssumption, Actions!None
  <2>3. ASSUME NEW r \in Requests, Actions!DeleteStale(r) PROVE coolify'[k] # Actions!None
    <3>1. PICK v \in stale[r] : coolify' = coolify \/ coolify' = [coolify EXCEPT ![v[1]] = Actions!None]
      BY <2>3 DEF Actions!DeleteStale
    <3>2. v[1] # k
      BY DEF ActionsInv, RequestsFit, RequestFits
    <3>3. QED
      BY <3>1, <3>2 DEF ActionsInv, Actions!TypeOK
  <2>4. QED
    BY <2>1, <2>2, <2>3
       DEF Actions!Next, Actions!Ask, Actions!Act, Actions!Replace, Actions!Sync,
           Actions!StartContainer, Actions!ClientLeaves, Actions!ReturnAccepted, Actions!BeginWork, Actions!Work,
           Actions!RecordActionJob, Actions!Inspect, Actions!Stop, Actions!Remove, Actions!Create,
           Actions!StartNew, Actions!Respond, Actions!List, Actions!EndSync, Actions!SwapDocker,
           Actions!SwapReturns, Actions!vars, Actions!sync
<1>2. QED
  BY <1>1, ActionsRun, ActionsInvariant, PTL DEF AskedForStays, Actions!AskedForStays, Actions!Spec

-----------------------------------------------------------------------------
(* The scanner's settings.                                                 *)

Vouched(config) ==
    \A f \in Settings!Fields : config[f] \in Chosen => config[f] \in saved[f]

\* What somebody chose is in the table before it is anywhere else but in a
\* request that has not been saved.
SettingsInv ==
    /\ Settings!TypeOK
    /\ \A f \in Settings!Fields : database[f] \in saved[f]
    /\ Vouched(inForce)
    /\ Vouched(reload.config)
    /\ \A r \in Requests : settingsRequest[r].pc = "saved" => Vouched(settingsRequest[r].config)

\* What the environment gives was chosen by nobody.
LEMMA EnvironmentFits ==
  ASSUME NEW e \in Settings!Environments \cup {Settings!Empty}
  PROVE  /\ Settings!EnvConfig(e) \in Settings!Config
         /\ \A f \in Settings!Fields : Settings!EnvConfig(e)[f] \notin Chosen
<1>1. \A f \in Settings!Fields : e[f] \in {Settings!Unset, Settings!FromEnvironment}
  <2>1. CASE e = Settings!Empty
    BY <2>1 DEF Settings!Empty
  <2>2. CASE e \in Settings!Environments
    BY <2>2 DEF Settings!Environments
  <2>3. QED
    BY <2>1, <2>2
<1>2. QED
  BY <1>1, SettingsAssumption
     DEF Settings!EnvConfig, Settings!Config, Settings!Values, Settings!Preset,
         Settings!ChosenAssumption

\* Settings that are loaded are the environment's or the database's.
LEMMA LoadedFits ==
  ASSUME NEW e \in Settings!Environments \cup {Settings!Empty},
         NEW d \in [Settings!Fields -> Settings!Values \cup {Settings!Unset}]
  PROVE  /\ Settings!LoadScannerSettings(e, d) \in Settings!Config
         /\ \A f \in Settings!Fields :
              Settings!LoadScannerSettings(e, d)[f] \in Chosen =>
                  Settings!LoadScannerSettings(e, d)[f] = d[f]
<1>1. ASSUME NEW f \in Settings!Fields
      PROVE  /\ Settings!Stored(d, f) \in Settings!Values
             /\ Settings!Stored(d, f) \in Chosen => Settings!Stored(d, f) = d[f]
  <2>1. Settings!Preset(f) \in Settings!Values \ Chosen
    BY SettingsAssumption DEF Settings!Preset, Settings!Values, Settings!ChosenAssumption
  <2>2. d[f] \in Settings!Values \cup {Settings!Unset}
    OBVIOUS
  <2>3. QED
    BY <2>1, <2>2 DEF Settings!Stored
<1>2. QED
  BY <1>1, EnvironmentFits DEF Settings!LoadScannerSettings, Settings!Config

\* The table that the start of the server leaves, and what it puts in force.
LEMMA StartFits ==
  ASSUME NEW e \in Settings!Environments, NEW d \in [Settings!Fields -> Settings!Values \cup {Settings!Unset}],
         NEW d2 \in Settings!Migrated(e, d), NEW c \in Settings!Loaded(e, d2)
  PROVE  /\ d2 \in [Settings!Fields -> Settings!Values \cup {Settings!Unset}]
         /\ c \in Settings!Config
         /\ \A f \in Settings!Fields : c[f] \in Chosen => c[f] = d2[f]
<1>1. Settings!Empty \in [Settings!Fields -> Settings!Values \cup {Settings!Unset}]
  BY DEF Settings!Empty
<1>2. d2 \in [Settings!Fields -> Settings!Values \cup {Settings!Unset}]
  BY <1>1, EnvironmentFits DEF Settings!Migrated, Settings!Config
<1>3. QED
  BY <1>2, EnvironmentFits, LoadedFits DEF Settings!Loaded

\* The server starts with settings that were in the database before.
LEMMA SettingsStart == Settings!Init => SettingsInv
<1> SUFFICES ASSUME Settings!Init PROVE SettingsInv
  OBVIOUS
<1> USE DEF Settings!Init
<1>1. Settings!Empty \in [Settings!Fields -> Settings!Values \cup {Settings!Unset}]
  BY DEF Settings!Empty
<1>2. Settings!EnvConfig(Settings!Empty) \in Settings!Config /\ Vouched(Settings!EnvConfig(Settings!Empty))
  BY EnvironmentFits DEF Vouched
<1>3. /\ database \in [Settings!Fields -> Settings!Values \cup {Settings!Unset}]
      /\ inForce \in Settings!Config
      /\ \A f \in Settings!Fields : inForce[f] \in Chosen => inForce[f] = database[f]
  BY <1>1, StartFits
<1>4. Settings!TypeOK
  <2>1. saved \in [Settings!Fields -> SUBSET (Settings!Values \cup {Settings!Unset})]
    BY <1>3
  <2>2. QED
    BY <1>2, <1>3, <2>1, SettingsAssumption DEF Settings!TypeOK, Settings!Idle, Settings!BoundAssumption
<1>5. QED
  BY <1>2, <1>3, <1>4 DEF SettingsInv, Settings!Idle, Vouched

\* A request for settings goes on to another of its places.
LEMMA SettingsMove ==
  ASSUME Settings!TypeOK, NEW r \in Requests,
         NEW p \in {"new", "built", "saved", "failed", "done"}, Settings!Goto(r, p)
  PROVE  /\ Settings!TypeOK!4'
         /\ \A q \in Requests : settingsRequest'[q].config = settingsRequest[q].config
         /\ \A q \in Requests : settingsRequest'[q].pc = IF q = r THEN p ELSE settingsRequest[q].pc
<1>1. Settings!TypeOK!4
  BY DEF Settings!TypeOK
<1>2. [settingsRequest[r] EXCEPT !.pc = p] \in
          [pc : {"new", "built", "saved", "failed", "done"}, config : Settings!Config]
  BY <1>1
<1>3. settingsRequest' = [settingsRequest EXCEPT ![r] = [settingsRequest[r] EXCEPT !.pc = p]]
  BY <1>1 DEF Settings!Goto
<1>4. QED
  BY <1>1, <1>2, <1>3

\* Every step of requests and reloads keeps the invariant of the settings.
LEMMA SettingsKept ==
  ASSUME SettingsInv, [Settings!Next]_(Settings!vars)
  PROVE  SettingsInv'
<1>0. /\ Settings!TypeOK
      /\ environment \in Settings!Environments
      /\ database \in [Settings!Fields -> Settings!Values \cup {Settings!Unset}]
      /\ inForce \in Settings!Config
      /\ settingsRequest \in [Requests ->
            [pc : {"new", "built", "saved", "failed", "done"}, config : Settings!Config]]
      /\ saved \in [Settings!Fields -> SUBSET (Settings!Values \cup {Settings!Unset})]
      /\ \A f \in Settings!Fields : database[f] \in saved[f]
      /\ Vouched(inForce)
      /\ Vouched(reload.config)
      /\ \A r \in Requests : settingsRequest[r].pc = "saved" => Vouched(settingsRequest[r].config)
  BY DEF SettingsInv, Settings!TypeOK
<1>loads. MaxLoads \in Nat /\ (loads < MaxLoads => loads + 1 \in 0..MaxLoads)
  <2>1. MaxLoads \in Nat /\ loads \in 0..MaxLoads
    BY SettingsAssumption DEF SettingsInv, Settings!TypeOK, Settings!BoundAssumption
  <2>2. QED
    BY <2>1
<1>1. ASSUME NEW r \in Requests, Settings!Build(r)
      PROVE  SettingsInv'
  <2>1. PICK image \in Chosen \cup {inForce["image"]}, args \in Chosen \cup {Settings!Zero},
             flag \in Chosen \cup {inForce["flag"]} :
          settingsRequest' = [settingsRequest EXCEPT ![r] = [pc |-> "built", config |->
              [f \in Settings!Fields |-> IF f = "image" THEN image
                              ELSE IF f = "args" THEN args
                              ELSE IF f = "flag" THEN flag ELSE Settings!Zero]]]
    BY <1>1 DEF Settings!Build
  <2>2. inForce["image"] \in Settings!Values /\ inForce["flag"] \in Settings!Values
    BY <1>0 DEF Settings!Fields, Settings!Config
  <2>3. {image, args, flag, Settings!Zero} \subseteq Settings!Values
    BY <2>2 DEF Settings!Values
  <2>4. [f \in Settings!Fields |-> IF f = "image" THEN image
            ELSE IF f = "args" THEN args ELSE IF f = "flag" THEN flag ELSE Settings!Zero]
        \in Settings!Config
    BY <2>3 DEF Settings!Config
  <2>5. PICK c \in Settings!Config :
          settingsRequest' = [settingsRequest EXCEPT ![r] = [pc |-> "built", config |-> c]]
    BY <2>1, <2>4
  <2>6. \A q \in Requests : settingsRequest'[q].pc = "saved" =>
           settingsRequest[q].pc = "saved" /\ settingsRequest'[q].config = settingsRequest[q].config
    BY <1>0, <2>5
  <2>7. UNCHANGED <<environment, database, inForce, reload, loads, saved>>
    BY <1>1 DEF Settings!Build
  <2>8. Settings!TypeOK'
    BY <1>0, <2>5, <2>7 DEF Settings!TypeOK
  <2>9. QED
    BY <1>0, <2>6, <2>7, <2>8 DEF SettingsInv, Vouched
<1>2. ASSUME NEW r \in Requests, Settings!Save(r)
      PROVE  SettingsInv'
  <2>1. settingsRequest[r].config \in [Settings!Fields -> Settings!Values]
    BY <1>0 DEF Settings!Config
  <2>2. /\ database' = settingsRequest[r].config
        /\ saved' = [f \in Settings!Fields |-> saved[f] \cup {settingsRequest[r].config[f]}]
        /\ Settings!Goto(r, "saved")
        /\ UNCHANGED <<environment, inForce, reload, loads>>
    BY <1>2 DEF Settings!Save
  <2>3. /\ \A f \in Settings!Fields : saved[f] \subseteq saved'[f]
        /\ \A f \in Settings!Fields : database'[f] \in saved'[f]
        /\ database' \in [Settings!Fields -> Settings!Values \cup {Settings!Unset}]
        /\ saved' \in [Settings!Fields -> SUBSET (Settings!Values \cup {Settings!Unset})]
    BY <1>0, <2>1, <2>2
  <2>4. Settings!TypeOK'
    BY <1>0, <2>2, <2>3, SettingsMove DEF Settings!TypeOK
  <2>5. Vouched(inForce)' /\ Vouched(reload.config)'
    BY <1>0, <2>2, <2>3 DEF Vouched
  <2>6. ASSUME NEW q \in Requests, settingsRequest'[q].pc = "saved"
        PROVE  Vouched(settingsRequest[q].config)'
    <3>1. settingsRequest'[q].config = settingsRequest[q].config
      BY <1>0, <2>2, SettingsMove
    <3>2. CASE q = r
      BY <2>2, <2>3, <3>1, <3>2 DEF Vouched
    <3>3. CASE q # r
      <4>1. settingsRequest[q].pc = "saved"
        BY <1>0, <2>2, <2>6, <3>3, SettingsMove
      <4>2. QED
        BY <1>0, <2>3, <3>1, <4>1 DEF Vouched
    <3>4. QED
      BY <3>2, <3>3
  <2>7. QED
    BY <2>3, <2>4, <2>5, <2>6 DEF SettingsInv
<1>3. ASSUME NEW r \in Requests, Settings!SaveFails(r)
      PROVE  SettingsInv'
  <2>1. Settings!Goto(r, "failed") /\ UNCHANGED <<environment, database, inForce, reload, loads, saved>>
    BY <1>3 DEF Settings!SaveFails
  <2>2. Settings!TypeOK'
    BY <1>0, <2>1, SettingsMove DEF Settings!TypeOK
  <2>3. \A q \in Requests : settingsRequest'[q].pc = "saved" =>
           settingsRequest[q].pc = "saved" /\ settingsRequest'[q].config = settingsRequest[q].config
    BY <1>0, <2>1, SettingsMove
  <2>4. QED
    BY <1>0, <2>1, <2>2, <2>3 DEF SettingsInv, Vouched
<1>4. ASSUME NEW r \in Requests, Settings!UpdateConfig(r)
      PROVE  SettingsInv'
  <2>1. Settings!Over \in [pc : {"done"}, config : Settings!Config]
    BY EnvironmentFits DEF Settings!Over
  <2>2. /\ settingsRequest[r].pc = "saved"
        /\ inForce' = settingsRequest[r].config
        /\ settingsRequest' = [settingsRequest EXCEPT ![r] = Settings!Over]
        /\ UNCHANGED <<environment, database, reload, loads, saved>>
    BY <1>4 DEF Settings!UpdateConfig
  <2>3. Settings!TypeOK'
    BY <1>0, <2>1, <2>2 DEF Settings!TypeOK
  <2>4. \A q \in Requests : settingsRequest'[q].pc = "saved" =>
           settingsRequest[q].pc = "saved" /\ settingsRequest'[q].config = settingsRequest[q].config
    BY <1>0, <2>1, <2>2
  <2>5. QED
    BY <1>0, <2>2, <2>3, <2>4 DEF SettingsInv, Vouched
<1>5. CASE Settings!Load
  <2>0. loads' \in 0..MaxLoads
    BY <1>loads, <1>5 DEF Settings!Load
  <2>1. PICK c \in {Settings!LoadScannerSettings(environment, database), Settings!EnvConfig(environment)},
             p \in {"loaded", "without table"} : reload' = [pc |-> p, config |-> c]
    BY <1>5 DEF Settings!Load
  <2>2. /\ c \in Settings!Config
        /\ \A f \in Settings!Fields : c[f] \in Chosen => c[f] = database[f]
    <3>1. CASE c = Settings!EnvConfig(environment)
      BY <1>0, <3>1, EnvironmentFits
    <3>2. CASE c = Settings!LoadScannerSettings(environment, database)
      <4>1. /\ Settings!LoadScannerSettings(environment, database) \in Settings!Config
            /\ \A f \in Settings!Fields :
                 Settings!LoadScannerSettings(environment, database)[f] \in Chosen =>
                     Settings!LoadScannerSettings(environment, database)[f] = database[f]
        BY <1>0, LoadedFits
      <4>2. QED
        BY <3>2, <4>1
    <3>3. QED
      BY <2>1, <3>1, <3>2
  <2>3. /\ loads < MaxLoads /\ loads' = loads + 1
        /\ UNCHANGED <<environment, database, inForce, settingsRequest, saved>>
    BY <1>5 DEF Settings!Load
  <2>4. Settings!TypeOK'
    <3>1. reload' \in [pc : {"idle", "loaded", "without table"}, config : Settings!Config]
      BY <2>1, <2>2
    <3>2. QED
      BY <1>0, <2>0, <2>3, <3>1 DEF Settings!TypeOK
  <2>5. Vouched(reload.config)'
    BY <1>0, <2>1, <2>2, <2>3 DEF Vouched
  <2>6. QED
    BY <1>0, <2>3, <2>4, <2>5 DEF SettingsInv, Vouched
<1>6. CASE Settings!UpdateLoaded
  <2>1. /\ Settings!Idle \in [pc : {"idle"}, config : Settings!Config]
        /\ \A f \in Settings!Fields : Settings!Idle.config[f] \notin Chosen
    BY EnvironmentFits DEF Settings!Idle
  <2>2. /\ inForce' = reload.config
        /\ reload' = Settings!Idle
        /\ UNCHANGED <<environment, database, settingsRequest, loads, saved>>
    BY <1>6 DEF Settings!UpdateLoaded
  <2>3. Settings!TypeOK'
    BY <1>0, <2>1, <2>2 DEF Settings!TypeOK
  <2>4. QED
    BY <1>0, <2>1, <2>2, <2>3 DEF SettingsInv, Vouched
<1>7. CASE Settings!Restart
  <2>1. /\ Settings!Idle \in [pc : {"idle"}, config : Settings!Config]
        /\ \A f \in Settings!Fields : Settings!Idle.config[f] \notin Chosen
        /\ Settings!Over \in [pc : {"done"}, config : Settings!Config]
    BY EnvironmentFits DEF Settings!Idle, Settings!Over
  <2>2. /\ database' \in Settings!Migrated(environment, database)
        /\ inForce' \in Settings!Loaded(environment, database')
        /\ saved' = [f \in Settings!Fields |-> saved[f] \cup {database'[f]}]
        /\ settingsRequest' = [r \in Requests |->
              IF settingsRequest[r].pc = "new" THEN settingsRequest[r] ELSE Settings!Over]
        /\ reload' = Settings!Idle
        /\ loads < MaxLoads /\ loads' = loads + 1
        /\ environment' = environment
    BY <1>7 DEF Settings!Restart
  <2>3. /\ database' \in [Settings!Fields -> Settings!Values \cup {Settings!Unset}]
        /\ inForce' \in Settings!Config
        /\ \A f \in Settings!Fields : inForce'[f] \in Chosen => inForce'[f] = database'[f]
    BY <1>0, <2>2, StartFits
  <2>4. /\ settingsRequest' \in [Requests ->
              [pc : {"new", "built", "saved", "failed", "done"}, config : Settings!Config]]
        /\ \A q \in Requests : settingsRequest'[q].pc # "saved"
    BY <1>0, <2>1, <2>2
  <2>5. /\ saved' \in [Settings!Fields -> SUBSET (Settings!Values \cup {Settings!Unset})]
        /\ \A f \in Settings!Fields : database'[f] \in saved'[f]
    BY <1>0, <2>2, <2>3
  <2>6. Settings!TypeOK'
    <3>1. loads' \in 0..MaxLoads
      BY <1>loads, <2>2
    <3>2. reload' \in [pc : {"idle", "loaded", "without table"}, config : Settings!Config]
      BY <2>1, <2>2
    <3>3. QED
      BY <1>0, <2>2, <2>3, <2>4, <2>5, <3>1, <3>2 DEF Settings!TypeOK
  <2>7. Vouched(inForce)' /\ Vouched(reload.config)'
    BY <2>1, <2>2, <2>3, <2>5 DEF Vouched
  <2>8. QED
    BY <2>4, <2>5, <2>6, <2>7 DEF SettingsInv
<1>8. CASE UNCHANGED Settings!vars
  BY <1>0, <1>8 DEF Settings!vars, SettingsInv, Settings!TypeOK, Vouched
<1>9. QED
  BY <1>1, <1>2, <1>3, <1>4, <1>5, <1>6, <1>7, <1>8 DEF Settings!Next

\* The steps of the other parts leave the settings alone.
LEMMA SettingsRun == Spec => Settings!Spec
<1>1. Init => Settings!Init
  BY DEF Init
<1>2. [Next]_vars => [Settings!Next]_(Settings!vars)
  BY DEF Next, vars, settingsVars, Settings!vars
<1>3. QED
  BY <1>1, <1>2, PTL DEF Spec, Settings!Spec

\* ScannerSettings keeps its invariant.
LEMMA SettingsInvariant == Settings!Spec => []SettingsInv
  BY SettingsStart, SettingsKept, PTL DEF Settings!Spec

(***************************************************************************)
(* What somebody chose is in force only if it has been in the database,    *)
(* whatever saves fail and whatever reloads come in between                *)
(* (scan_handlers.go:366-402, main.go:181-184).                            *)
(***************************************************************************)
THEOREM OnlySavedIsInForce == Spec => []InForceWasSaved
<1>1. SettingsInv => InForceWasSaved
  BY DEF SettingsInv, Vouched, InForceWasSaved, Settings!InForceWasSaved
<1>2. QED
  BY <1>1, SettingsRun, SettingsInvariant, PTL

-----------------------------------------------------------------------------
(* Discord.                                                                *)

\* A session belongs to the settings in force and its last number is the
\* place that Discord has reached, except for a connection that is about to
\* name it.
SessionFits ==
    /\ gatewayLoop.number = settings.number
    /\ settingsChange = "stopping" => settings.number <= MaxDiscordStarts
    /\ session # Discord!None => session = settings.number /\ position = seq
    /\ session = Discord!None => seq = 0
    /\ gatewayLoop.pc = "reading" => position = seq
    /\ gatewayLoop.pc = "opening" => (resuming <=> session # Discord!None)
    /\ \A e \in Discord!Events \ {1} : handled[e] = IF e <= position THEN 1 ELSE 0

\* How many answers can be due where the heartbeat loop stands.
HeartbeatsFit ==
    /\ gatewayLoop.pc # "reading" =>
         beat = "none" /\ unanswered = 0 /\ beatAcked = TRUE /\ first = TRUE /\ silent = FALSE
    /\ gatewayLoop.pc = "reading" /\ beat = "none" => gatewayClosed = TRUE
    /\ beat \in {"first", "clearing"} => first = TRUE
    /\ beat = "first" => beatAcked = TRUE /\ unanswered <= 1
    /\ beat = "clearing" => unanswered <= 2
    /\ beat = "waiting" /\ beatAcked = TRUE => unanswered <= 2
    /\ beat = "sending" => unanswered <= IF beatAcked = TRUE THEN 1 ELSE 2
    /\ beat = "waiting" /\ beatAcked # TRUE /\ first # TRUE => unanswered > 0

DiscordInv == Discord!TypeOK /\ SessionFits /\ HeartbeatsFit

\* The bot starts with no session and no connection.
LEMMA DiscordStart == Discord!Init => DiscordInv
<1> SUFFICES ASSUME Discord!Init PROVE DiscordInv
  OBVIOUS
<1> USE DiscordAssumption DEF Discord!BoundAssumption, Discord!Init, Discord!None
<1>1. Discord!TypeOK
  <2>1. 1 \in 1..MaxDiscordStarts + 1
    OBVIOUS
  <2>2. Discord!TypeOK!1 /\ Discord!TypeOK!3
    BY <2>1
  <2>3. Discord!TypeOK!12
    BY Zenon
  <2>4. gatewayStopped \in BOOLEAN /\ resuming \in BOOLEAN
    BY Zenon
  <2>5. 0 \in 0..MaxDiscordStarts + 1 /\ 0 \in 0..MaxEvents /\ 0 \in 0..3
    OBVIOUS
  <2>6. handled \in [Discord!Events -> Nat]
    OBVIOUS
  <2>7. QED
    BY <2>2, <2>3, <2>4, <2>5, <2>6, Zenon DEF Discord!TypeOK
<1>2. SessionFits
  BY DEF SessionFits, Discord!Events
<1>3. HeartbeatsFit
  BY DEF HeartbeatsFit
<1>4. QED
  BY <1>1, <1>2, <1>3 DEF DiscordInv

\* The goroutine has moved and its settings are the same.
LEMMA DiscordMove ==
  ASSUME Discord!TypeOK, NEW p \in {"ended", "registering", "between", "opening", "reading"},
         Discord!Goto(p)
  PROVE  /\ gatewayLoop'.pc = p
         /\ gatewayLoop'.number = gatewayLoop.number
         /\ Discord!TypeOK!1'
  BY DEF Discord!TypeOK, Discord!Goto

\* A connection that is left takes its flags with it.
LEMMA NoConnectionTyped ==
  ASSUME Discord!NoConnection
  PROVE  Discord!TypeOK!11' /\ Discord!TypeOK!12' /\ Discord!TypeOK!13'
<1>1. {beatAcked', first', silent', gatewayClosed'} \subseteq BOOLEAN
  BY Zenon DEF Discord!NoConnection
<1>2. beat' = "none" /\ unanswered' = 0
  BY DEF Discord!NoConnection
<1>3. QED
  BY <1>1, <1>2

\* Every step of the Discord bot keeps the types.
LEMMA DiscordTyped ==
  ASSUME DiscordInv, [Discord!Next]_(Discord!vars)
  PROVE  Discord!TypeOK'
<1>0. /\ Discord!TypeOK
      /\ HeartbeatsFit
      /\ MaxEvents \in Nat \ {0} /\ MaxDiscordStarts \in Nat
  BY DiscordAssumption DEF DiscordInv, Discord!BoundAssumption
<1> USE DEF Discord!service, Discord!gateway, Discord!connection
<1>1. CASE Discord!Register
  BY <1>0, <1>1, DiscordMove DEF Discord!Register, Discord!TypeOK
<1>2. CASE Discord!Connect
  BY <1>0, <1>2, DiscordMove DEF Discord!Connect, Discord!TypeOK
<1>3. CASE Discord!Hello
  BY <1>0, <1>3, DiscordMove DEF Discord!Hello, Discord!TypeOK
<1>4. CASE Discord!EndLoop
  BY <1>0, <1>4, DiscordMove DEF Discord!EndLoop, Discord!TypeOK
<1>5. CASE Discord!LeaveConnection
  BY <1>0, <1>5, NoConnectionTyped, DiscordMove DEF Discord!LeaveConnection, Discord!TypeOK
<1>6. CASE Discord!Receive
  BY <1>0, <1>6 DEF Discord!Receive, Discord!Reading, Discord!TypeOK
<1>7. CASE Discord!ReceiveAck
  BY <1>0, <1>7 DEF Discord!ReceiveAck, Discord!TypeOK
<1>8. CASE Discord!AnswerHeartbeat
  BY <1>0, <1>8 DEF Discord!AnswerHeartbeat, Discord!TypeOK
<1>9. CASE Discord!InvalidSession
  BY <1>0, <1>9, NoConnectionTyped, DiscordMove
     DEF Discord!InvalidSession, Discord!TypeOK, Discord!None
<1>10. CASE Discord!FirstHeartbeat
  BY <1>0, <1>10 DEF Discord!FirstHeartbeat, Discord!SendHeartbeat, Discord!TypeOK, HeartbeatsFit
<1>11. CASE Discord!ClearAcked
  BY <1>0, <1>11 DEF Discord!ClearAcked, Discord!TypeOK
<1>12. CASE Discord!NextHeartbeat
  BY <1>0, <1>12 DEF Discord!NextHeartbeat, Discord!TypeOK
<1>13. CASE Discord!OtherHeartbeat
  <2>1. {beatAcked', first', silent', gatewayClosed'} \subseteq BOOLEAN
    BY <1>0, <1>13, Zenon DEF Discord!OtherHeartbeat, Discord!SendHeartbeat, Discord!TypeOK
  <2>2. unanswered' \in 0..3
    BY <1>0, <1>13 DEF Discord!OtherHeartbeat, Discord!SendHeartbeat, Discord!TypeOK, HeartbeatsFit
  <2>3. QED
    BY <1>0, <1>13, <2>1, <2>2 DEF Discord!OtherHeartbeat, Discord!SendHeartbeat, Discord!TypeOK
<1>14. CASE Discord!CloseUnanswered
  BY <1>0, <1>14 DEF Discord!CloseUnanswered, Discord!TypeOK
<1>15. CASE Discord!UpdateConfig
  BY <1>0, <1>15 DEF Discord!UpdateConfig, Discord!TypeOK
<1>16. CASE Discord!StartAgain
  <2>1. PICK on \in BOOLEAN, p \in {"registering", "ended"} :
          /\ settings' = [number |-> settings.number + 1, on |-> on]
          /\ gatewayLoop' = [pc |-> p, number |-> settings.number + 1]
    BY <1>16 DEF Discord!StartAgain
  <2>2. settings.number + 1 \in 1..MaxDiscordStarts + 1
    BY <1>0, <1>16 DEF Discord!StartAgain, Discord!TypeOK, DiscordInv, SessionFits
  <2>3. Discord!TypeOK!1' /\ Discord!TypeOK!3'
    BY <2>1, <2>2
  <2>4. /\ gatewayStopped' = FALSE /\ session' = 0 /\ seq' = 0 /\ settingsChange' = "idle"
        /\ UNCHANGED <<resuming, events, position, handled, Discord!connection>>
    BY <1>16 DEF Discord!StartAgain, Discord!None
  <2>5. /\ Discord!TypeOK!2' /\ Discord!TypeOK!7' /\ Discord!TypeOK!12'
    BY <1>0, <2>4, Zenon DEF Discord!TypeOK
  <2>6. 0 \in 0..MaxDiscordStarts + 1 /\ 0 \in 0..MaxEvents
    BY <1>0
  <2>7. QED
    BY <1>0, <2>3, <2>4, <2>5, <2>6, Zenon DEF Discord!TypeOK
<1>17. CASE Discord!CloseStopped
  BY <1>0, <1>17 DEF Discord!CloseStopped, Discord!TypeOK
<1>18. CASE Discord!Interaction
  BY <1>0, <1>18 DEF Discord!Interaction, Discord!TypeOK
<1>19. CASE Discord!FallSilent
  BY <1>0, <1>19 DEF Discord!FallSilent, Discord!TypeOK
<1>20. CASE UNCHANGED Discord!vars
  BY <1>0, <1>20 DEF Discord!vars, Discord!TypeOK
<1>21. QED
  BY <1>1, <1>2, <1>3, <1>4, <1>5, <1>6, <1>7, <1>8, <1>9, <1>10, <1>11, <1>12, <1>13, <1>14, <1>15,
     <1>16, <1>17, <1>18, <1>19, <1>20 DEF Discord!Next, Discord!Loop, Discord!Heartbeat, Discord!Read

\* What SessionFits looks at stays as it is.
SessionStays ==
    UNCHANGED <<settings, settingsChange, session, seq, position, handled, resuming>>

\* A session counts its events, and a new one starts from none.
LEMMA SessionKept ==
  ASSUME DiscordInv, [Discord!Next]_(Discord!vars)
  PROVE  SessionFits'
<1>0. /\ Discord!TypeOK
      /\ SessionFits
      /\ MaxEvents \in Nat \ {0} /\ MaxDiscordStarts \in Nat
      /\ handled \in [Discord!Events -> Nat]
      /\ settings.number \in 1..MaxDiscordStarts + 1
      /\ position \in Nat /\ seq \in Nat
  BY DiscordAssumption DEF DiscordInv, Discord!TypeOK, Discord!BoundAssumption
<1> USE DEF Discord!service, Discord!gateway, Discord!connection, Discord!None
<1>1. ASSUME SessionStays, gatewayLoop'.number = gatewayLoop.number,
             gatewayLoop'.pc \in {"reading", "opening"} => gatewayLoop'.pc = gatewayLoop.pc
      PROVE  SessionFits'
  BY <1>0, <1>1 DEF SessionFits, SessionStays
<1>2. CASE Discord!Register \/ Discord!EndLoop \/ Discord!LeaveConnection
  <2>1. PICK p \in {"between", "ended"} : Discord!Goto(p)
    BY <1>2 DEF Discord!Register, Discord!EndLoop, Discord!LeaveConnection
  <2>2. SessionStays
    BY <1>2 DEF Discord!Register, Discord!EndLoop, Discord!LeaveConnection, SessionStays
  <2>3. QED
    BY <1>0, <1>1, <2>1, <2>2, DiscordMove
<1>3. CASE Discord!Connect
  <2>1. PICK p \in {"opening", "between"} : Discord!Goto(p)
    BY <1>3 DEF Discord!Connect
  <2>2. gatewayLoop'.pc = p /\ gatewayLoop'.number = gatewayLoop.number
    BY <1>0, <2>1, DiscordMove
  <2>3. /\ resuming' = (session # 0)
        /\ UNCHANGED <<settings, settingsChange, session, seq, position, handled>>
    BY <1>3 DEF Discord!Connect
  <2>4. QED
    BY <1>0, <2>2, <2>3 DEF SessionFits
<1>4. CASE Discord!Hello
  <2>1. gatewayLoop'.pc = "reading" /\ gatewayLoop'.number = gatewayLoop.number
    BY <1>0, <1>4, DiscordMove DEF Discord!Hello
  <2>2. resuming <=> session # 0
    BY <1>0, <1>4 DEF Discord!Hello, SessionFits
  <2>3. UNCHANGED <<settings, settingsChange, session, seq, resuming>>
    BY <1>4 DEF Discord!Hello
  <2>4. CASE resuming
    <3>1. position' = seq /\ handled' = handled
      BY <1>4, <2>4 DEF Discord!Hello
    <3>2. QED
      BY <1>0, <2>1, <2>2, <2>3, <2>4, <3>1 DEF SessionFits
  <2>5. CASE ~resuming
    <3>1. position' = 0 /\ handled' = [e \in Discord!Events |-> 0]
      BY <1>4, <2>5 DEF Discord!Hello
    <3>2. QED
      BY <1>0, <2>1, <2>2, <2>3, <2>5, <3>1 DEF SessionFits, Discord!Events
  <2>6. QED
    BY <2>4, <2>5
<1>5. CASE Discord!Receive
  <2>1. /\ gatewayLoop.pc = "reading" /\ position < events
        /\ position' = position + 1 /\ seq' = position + 1
        /\ UNCHANGED <<gatewayLoop, settings, settingsChange, resuming>>
    BY <1>5 DEF Discord!Receive, Discord!Reading
  <2>2. position = seq
    BY <1>0, <2>1 DEF SessionFits
  <2>3. CASE position = 0
    <3>1. session' = gatewayLoop.number /\ handled' = handled
      BY <1>0, <1>5, <2>1, <2>3 DEF Discord!Receive
    <3>2. QED
      BY <1>0, <2>1, <2>3, <3>1 DEF SessionFits, Discord!Events
  <2>4. CASE position # 0
    <3>1. session' = session /\ handled' = [handled EXCEPT ![position + 1] = @ + 1]
      BY <1>0, <1>5, <2>1, <2>4 DEF Discord!Receive
    <3>2. session # 0
      BY <1>0, <2>2, <2>4 DEF SessionFits
    <3>3. position + 1 \in Discord!Events
      BY <1>0, <2>1 DEF Discord!TypeOK, Discord!Events
    <3>4. \A e \in Discord!Events \ {1} : handled'[e] = IF e <= position + 1 THEN 1 ELSE 0
      BY <1>0, <2>4, <3>1, <3>3 DEF SessionFits, Discord!Events
    <3>5. QED
      BY <1>0, <2>1, <3>1, <3>2, <3>4 DEF SessionFits
  <2>5. QED
    BY <2>3, <2>4
<1>6. CASE Discord!InvalidSession
  <2>1. gatewayLoop'.pc = "between" /\ gatewayLoop'.number = gatewayLoop.number
    BY <1>0, <1>6, DiscordMove DEF Discord!InvalidSession
  <2>2. /\ session' = 0 /\ seq' = 0
        /\ UNCHANGED <<settings, settingsChange, position, handled, resuming>>
    BY <1>6 DEF Discord!InvalidSession
  <2>3. QED
    BY <1>0, <2>1, <2>2 DEF SessionFits
<1>7. CASE Discord!UpdateConfig
  BY <1>0, <1>7 DEF Discord!UpdateConfig, SessionFits
<1>8. CASE Discord!StartAgain
  <2>1. /\ session' = 0 /\ seq' = 0 /\ settingsChange' = "idle"
        /\ UNCHANGED <<position, handled, resuming>>
    BY <1>8 DEF Discord!StartAgain
  <2>2. /\ gatewayLoop'.number = settings'.number
        /\ gatewayLoop'.pc \in {"registering", "ended"}
    BY <1>8 DEF Discord!StartAgain
  <2>3. QED
    BY <1>0, <2>1, <2>2 DEF SessionFits
<1>9. CASE \/ Discord!ReceiveAck \/ Discord!AnswerHeartbeat \/ Discord!Heartbeat
           \/ Discord!CloseStopped \/ Discord!Interaction \/ Discord!FallSilent
           \/ UNCHANGED Discord!vars
  <2>1. SessionStays /\ gatewayLoop' = gatewayLoop
    BY <1>9
       DEF SessionStays, Discord!ReceiveAck, Discord!AnswerHeartbeat, Discord!Heartbeat,
           Discord!FirstHeartbeat, Discord!ClearAcked, Discord!NextHeartbeat, Discord!OtherHeartbeat,
           Discord!CloseUnanswered, Discord!SendHeartbeat, Discord!CloseStopped,
           Discord!Interaction, Discord!FallSilent, Discord!vars
  <2>2. QED
    BY <1>1, <2>1
<1>10. QED
  BY <1>2, <1>3, <1>4, <1>5, <1>6, <1>7, <1>8, <1>9
     DEF Discord!Next, Discord!Loop, Discord!Read

\* The flag is cleared only for a heartbeat that is sent.
LEMMA HeartbeatsKept ==
  ASSUME DiscordInv, [Discord!Next]_(Discord!vars)
  PROVE  HeartbeatsFit'
<1>0. /\ Discord!TypeOK
      /\ HeartbeatsFit
      /\ unanswered \in 0..3
  BY DEF DiscordInv, Discord!TypeOK
<1> USE DEF Discord!service, Discord!gateway, Discord!connection
<1>1. ASSUME UNCHANGED <<beat, beatAcked, first, unanswered, silent, gatewayClosed>>,
             gatewayLoop.pc # "reading", gatewayLoop'.pc # "reading"
      PROVE  HeartbeatsFit'
  BY <1>0, <1>1 DEF HeartbeatsFit
<1>2. ASSUME Discord!NoConnection, gatewayLoop'.pc # "reading"
      PROVE  HeartbeatsFit'
  BY <1>2 DEF HeartbeatsFit, Discord!NoConnection
<1>3. CASE Discord!Register
  BY <1>0, <1>1, <1>3, DiscordMove DEF Discord!Register
<1>4. CASE Discord!Connect
  <2>1. PICK p \in {"opening", "between"} : Discord!Goto(p)
    BY <1>4 DEF Discord!Connect
  <2>2. QED
    BY <1>0, <1>1, <1>4, <2>1, DiscordMove DEF Discord!Connect
<1>5. CASE Discord!EndLoop
  BY <1>0, <1>1, <1>5, DiscordMove DEF Discord!EndLoop
<1>6. CASE Discord!LeaveConnection \/ Discord!InvalidSession
  <2>1. Discord!NoConnection /\ Discord!Goto("between")
    BY <1>6 DEF Discord!LeaveConnection, Discord!InvalidSession
  <2>2. QED
    BY <1>0, <1>2, <2>1, DiscordMove
<1>7. CASE Discord!Hello
  <2>1. gatewayLoop'.pc = "reading"
    BY <1>0, <1>7, DiscordMove DEF Discord!Hello
  <2>2. /\ gatewayLoop.pc = "opening" /\ beat' = "first"
        /\ UNCHANGED <<beatAcked, first, unanswered, silent>>
    BY <1>7 DEF Discord!Hello
  <2>3. QED
    BY <1>0, <2>1, <2>2 DEF HeartbeatsFit
<1>8. CASE Discord!ReceiveAck
  BY <1>0, <1>8 DEF Discord!ReceiveAck, Discord!Reading, HeartbeatsFit
<1>9. CASE Discord!AnswerHeartbeat
  BY <1>0, <1>9 DEF Discord!AnswerHeartbeat, Discord!Reading, HeartbeatsFit
<1>10. CASE Discord!FirstHeartbeat
  BY <1>0, <1>10 DEF Discord!FirstHeartbeat, Discord!SendHeartbeat, HeartbeatsFit
<1>11. CASE Discord!ClearAcked
  BY <1>0, <1>11 DEF Discord!ClearAcked, HeartbeatsFit
<1>12. CASE Discord!NextHeartbeat
  BY <1>0, <1>12 DEF Discord!NextHeartbeat, HeartbeatsFit
<1>13. CASE Discord!OtherHeartbeat
  <2>1. /\ beat = "sending" /\ beat' = "waiting" /\ unanswered' = unanswered + 1
        /\ UNCHANGED <<gatewayLoop, beatAcked, silent, gatewayClosed>>
    BY <1>13 DEF Discord!OtherHeartbeat, Discord!SendHeartbeat
  <2>2. gatewayLoop'.pc = "reading"
    BY <1>0, <2>1 DEF HeartbeatsFit
  <2>3. unanswered' > 0 /\ (beatAcked = TRUE => unanswered' <= 2)
    BY <1>0, <2>1 DEF HeartbeatsFit
  <2>4. QED
    BY <2>1, <2>2, <2>3 DEF HeartbeatsFit
<1>14. CASE Discord!CloseUnanswered
  BY <1>0, <1>14 DEF Discord!CloseUnanswered, HeartbeatsFit
<1>15. CASE Discord!StartAgain
  <2>1. /\ gatewayLoop.pc = "ended"
        /\ gatewayLoop'.pc \in {"registering", "ended"}
        /\ UNCHANGED <<beat, beatAcked, first, unanswered, silent, gatewayClosed>>
    BY <1>15 DEF Discord!StartAgain
  <2>2. QED
    BY <1>1, <2>1
<1>16. CASE Discord!UpdateConfig
  BY <1>0, <1>16 DEF Discord!UpdateConfig, HeartbeatsFit
<1>17. CASE Discord!CloseStopped
  BY <1>0, <1>17 DEF Discord!CloseStopped, HeartbeatsFit
<1>18. CASE Discord!FallSilent
  BY <1>0, <1>18 DEF Discord!FallSilent, HeartbeatsFit
<1>19. CASE Discord!Receive \/ Discord!Interaction \/ UNCHANGED Discord!vars
  BY <1>0, <1>19 DEF Discord!Receive, Discord!Interaction, Discord!vars, HeartbeatsFit
<1>20. QED
  BY <1>3, <1>4, <1>5, <1>6, <1>7, <1>8, <1>9, <1>10, <1>11, <1>12, <1>13, <1>14, <1>15, <1>16, <1>17,
     <1>18, <1>19 DEF Discord!Next, Discord!Loop, Discord!Heartbeat, Discord!Read

\* DiscordBot keeps its invariant.
LEMMA DiscordInvariant == Discord!Spec => []DiscordInv
<1>1. DiscordInv /\ [Discord!Next]_(Discord!vars) => DiscordInv'
  BY DiscordTyped, SessionKept, HeartbeatsKept DEF DiscordInv
<1>2. QED
  BY <1>1, DiscordStart, PTL DEF Discord!Spec

\* The steps of the other parts leave the Discord bot alone.
LEMMA DiscordRun == Spec => Discord!Spec
<1>1. Init => Discord!Init
  BY DEF Init
<1>2. [Next]_vars => [Discord!Next]_(Discord!vars)
  BY DEF Next, vars, discordVars, Discord!vars, Discord!service, Discord!gateway, Discord!connection
<1>3. QED
  BY <1>1, <1>2, PTL DEF Spec, Discord!Spec

(***************************************************************************)
(* The bot does not close a connection that has answered every heartbeat,  *)
(* but for the window after the first (discord.go:243-257).                *)
(***************************************************************************)
THEOREM AnsweredIsKept == Spec => AnsweredStaysOpen
<1>1. DiscordInv /\ [Discord!Next]_(Discord!vars) =>
        (gatewayClosed' /\ ~gatewayClosed /\ ~gatewayStopped' => unanswered > 0 \/ first)
  <2> SUFFICES ASSUME DiscordInv, [Discord!Next]_(Discord!vars),
                      gatewayClosed', ~gatewayClosed, ~gatewayStopped'
               PROVE  unanswered > 0 \/ first
    OBVIOUS
  <2>1. Discord!CloseUnanswered
    <3>1. ~Discord!Register /\ ~Discord!Connect /\ ~Discord!Hello /\ ~Discord!EndLoop
      BY Zenon DEF Discord!Register, Discord!Connect, Discord!Hello, Discord!EndLoop, Discord!connection
    <3>2. ~Discord!LeaveConnection /\ ~Discord!InvalidSession
      BY Zenon DEF Discord!LeaveConnection, Discord!InvalidSession, Discord!NoConnection
    <3>3. ~Discord!Receive /\ ~Discord!ReceiveAck /\ ~Discord!AnswerHeartbeat
      BY Zenon DEF Discord!Receive, Discord!ReceiveAck, Discord!AnswerHeartbeat, Discord!connection
    <3>4. /\ ~Discord!FirstHeartbeat /\ ~Discord!ClearAcked
          /\ ~Discord!NextHeartbeat /\ ~Discord!OtherHeartbeat
      BY Zenon DEF Discord!FirstHeartbeat, Discord!ClearAcked, Discord!NextHeartbeat,
                   Discord!OtherHeartbeat, Discord!SendHeartbeat
    <3>5. ~Discord!UpdateConfig /\ ~Discord!StartAgain /\ ~Discord!CloseStopped
      <4>1. ~Discord!UpdateConfig
        BY DEF Discord!UpdateConfig
      <4>2. ~Discord!StartAgain
        BY Zenon DEF Discord!StartAgain, Discord!connection
      <4>3. ~Discord!CloseStopped
        BY DEF Discord!CloseStopped
      <4>4. QED
        BY <4>1, <4>2, <4>3
    <3>6. ~Discord!Interaction /\ ~Discord!FallSilent /\ ~UNCHANGED Discord!vars
      BY Zenon DEF Discord!Interaction, Discord!FallSilent, Discord!vars, Discord!connection
    <3>7. QED
      BY <3>1, <3>2, <3>3, <3>4, <3>5, <3>6
         DEF Discord!Next, Discord!Loop, Discord!Heartbeat, Discord!Read
  <2>2. first \in BOOLEAN /\ beatAcked \in BOOLEAN
    BY DEF DiscordInv, Discord!TypeOK
  <2>3. beat = "waiting" /\ beatAcked # TRUE
    BY <2>1 DEF Discord!CloseUnanswered
  <2>4. QED
    BY <2>2, <2>3 DEF DiscordInv, HeartbeatsFit
<1>2. QED
  BY <1>1, DiscordRun, DiscordInvariant, PTL
     DEF AnsweredStaysOpen, Discord!AnsweredStaysOpen, Discord!Spec

-----------------------------------------------------------------------------
(* The collector of statistics and the two sockets.                        *)

\* StatsCollector keeps its types.
LEMMA StatsInvariant == Stats!Spec => []Stats!TypeOK
<1> USE StatsAssumption DEF Stats!TimeAssumption, Stats!Never, Stats!Old, Stats!Ages
<1>1. Stats!Init => Stats!TypeOK
  <2> SUFFICES ASSUME Stats!Init PROVE Stats!TypeOK
    OBVIOUS
  <2>1. lastPrune \in 0..PruneEvery + 1 /\ samples \subseteq 0..Retention + 1
    BY DEF Stats!Init
  <2>2. QED
    BY <2>1 DEF Stats!Init, Stats!TypeOK
<1>2. Stats!TypeOK /\ [Stats!Next]_(Stats!vars) => Stats!TypeOK'
  <2> SUFFICES ASSUME Stats!TypeOK, [Stats!Next]_(Stats!vars) PROVE Stats!TypeOK'
    OBVIOUS
  <2>1. CASE Stats!BeginRound
    BY <2>1 DEF Stats!BeginRound, Stats!TypeOK
  <2>2. CASE Stats!SampleHosts
    BY <2>2 DEF Stats!SampleHosts, Stats!TypeOK
  <2>3. CASE Stats!PruneFails \/ Stats!NothingDue
    BY <2>3 DEF Stats!PruneFails, Stats!NothingDue, Stats!EndRound, Stats!TypeOK
  <2>4. CASE Stats!PruneContainerStats
    <3>1. samples' \subseteq samples /\ lastPrune' = 0
      BY <2>4 DEF Stats!PruneContainerStats, Stats!EndRound
    <3>2. 0 \in 0..PruneEvery + 1
      OBVIOUS
    <3>3. QED
      BY <2>4, <3>1, <3>2 DEF Stats!PruneContainerStats, Stats!EndRound, Stats!TypeOK
  <2>5. CASE Stats!End \/ Stats!Stop \/ Stats!StopReturns
    BY <2>5 DEF Stats!End, Stats!Stop, Stats!StopReturns, Stats!TypeOK
  <2>6. CASE Stats!Tick
    <3>1. samples' \subseteq 0..Retention + 1
      BY <2>6 DEF Stats!Tick, Stats!TypeOK
    <3>2. lastPrune' \in 0..PruneEvery + 1
      BY <2>6 DEF Stats!Tick, Stats!TypeOK
    <3>3. QED
      BY <2>6, <3>1, <3>2 DEF Stats!Tick, Stats!TypeOK
  <2>7. CASE UNCHANGED Stats!vars
    BY <2>7 DEF Stats!vars, Stats!TypeOK
  <2>8. QED
    BY <2>1, <2>2, <2>3, <2>4, <2>5, <2>6, <2>7 DEF Stats!Next, Stats!Round
<1>3. QED
  BY <1>1, <1>2, PTL DEF Stats!Spec

\* The steps of the other parts leave the collector alone.
LEMMA StatsRun == Spec => Stats!Spec
<1>1. Init => Stats!Init
  BY DEF Init
<1>2. [Next]_vars => [Stats!Next]_(Stats!vars)
  BY DEF Next, vars, statsVars, Stats!vars
<1>3. QED
  BY <1>1, <1>2, PTL DEF Spec, Stats!Spec

\* StatsSocket keeps its types.
LEMMA StreamInvariant == Stream!Spec => []Stream!TypeOK
<1> USE DEF Stream!Closing
<1>1. Stream!Init => Stream!TypeOK
  BY DEF Stream!Init, Stream!TypeOK
<1>2. Stream!TypeOK /\ [Stream!Next]_(Stream!vars) => Stream!TypeOK'
  <2> SUFFICES ASSUME Stream!TypeOK, [Stream!Next]_(Stream!vars) PROVE Stream!TypeOK'
    OBVIOUS
  <2>1. CASE Stream!Source \/ Stream!SourceCancelled
    <3>1. CASE Stream!SourceFails \/ Stream!ReadSample
      BY <3>1 DEF Stream!SourceFails, Stream!ReadSample, Stream!TypeOK
    <3>2. CASE Stream!CloseSource
      BY <3>2 DEF Stream!CloseSource, Stream!TypeOK
    <3>3. CASE Stream!SourceCancelled
      BY <3>3 DEF Stream!SourceCancelled, Stream!TypeOK
    <3>4. QED
      BY <2>1, <3>1, <3>2, <3>3 DEF Stream!Source
  <2>2. CASE Stream!Relay \/ Stream!RelayCancelled
    <3>1. CASE Stream!RelaySample \/ Stream!RelayError
      BY <3>1 DEF Stream!RelaySample, Stream!RelayError, Stream!TypeOK
    <3>2. CASE Stream!StopHearing
      BY <3>2 DEF Stream!StopHearing, Stream!TypeOK
    <3>3. CASE Stream!CloseRelay \/ Stream!RelayCancelled
      BY <3>3 DEF Stream!CloseRelay, Stream!RelayCancelled, Stream!TypeOK
    <3>4. QED
      BY <2>2, <3>1, <3>2, <3>3 DEF Stream!Relay
  <2>3. CASE Stream!Handler \/ Stream!LeaveLoop
    BY <2>3 DEF Stream!Handler, Stream!WriteSample, Stream!TakeError, Stream!LeaveLoop,
                Stream!Return, Stream!TypeOK
  <2>4. CASE Stream!EndWatch \/ Stream!Leave \/ UNCHANGED Stream!vars
    <3>1. CASE Stream!EndWatch
      BY <3>1 DEF Stream!EndWatch, Stream!TypeOK
    <3>2. CASE Stream!Leave
      BY <3>2 DEF Stream!Leave, Stream!TypeOK
    <3>3. CASE UNCHANGED Stream!vars
      BY <3>3 DEF Stream!vars, Stream!TypeOK
    <3>4. QED
      BY <2>4, <3>1, <3>2, <3>3
  <2>5. QED
    BY <2>1, <2>2, <2>3, <2>4 DEF Stream!Next
<1>3. QED
  BY <1>1, <1>2, PTL DEF Stream!Spec

\* The steps of the other parts leave the stream alone.
LEMMA StreamRun == Spec => Stream!Spec
<1>1. Init => Stream!Init
  BY DEF Init
<1>2. [Next]_vars => [Stream!Next]_(Stream!vars)
  BY DEF Next, vars, streamVars, Stream!vars
<1>3. QED
  BY <1>1, <1>2, PTL DEF Spec, Stream!Spec

\* The handler has a lease while it opens the session only, the input
\* goroutine only after that.
TerminalInv ==
    /\ Terminal!TypeOK
    /\ "handler" \in leases => terminal = "opening"
    /\ "input" \in leases => terminal # "opening"

\* TerminalSocket keeps its types and knows whose each lease is.
LEMMA TerminalInvariant == Terminal!Spec => []TerminalInv
<1>1. Terminal!Init => TerminalInv
  BY DEF Terminal!Init, Terminal!TypeOK, TerminalInv
<1>2. TerminalInv /\ [Terminal!Next]_(Terminal!vars) => TerminalInv'
  <2> SUFFICES ASSUME TerminalInv, [Terminal!Next]_(Terminal!vars) PROVE TerminalInv'
    OBVIOUS
  <2> USE DEF TerminalInv, Terminal!TypeOK
  <2>1. CASE Terminal!Acquire \/ Terminal!OpenFails \/ Terminal!Open
    BY <2>1 DEF Terminal!Acquire, Terminal!OpenFails, Terminal!Open
  <2>2. CASE Terminal!ReadOutput \/ Terminal!WriteOutput \/ Terminal!WriteFails \/ Terminal!EndOutput
    BY <2>2 DEF Terminal!ReadOutput, Terminal!WriteOutput, Terminal!WriteFails, Terminal!EndOutput
  <2>3. CASE Terminal!ReadInput
    BY <2>3 DEF Terminal!ReadInput
  <2>4. CASE Terminal!Resize \/ Terminal!WriteInput \/ Terminal!EndInput
    BY <2>4 DEF Terminal!Resize, Terminal!WriteInput, Terminal!EndInput
  <2>5. CASE Terminal!EndPing \/ Terminal!Return \/ Terminal!Leave \/ Terminal!Exit
    BY <2>5 DEF Terminal!EndPing, Terminal!Return, Terminal!Leave, Terminal!Exit
  <2>6. CASE UNCHANGED Terminal!vars
    BY <2>6 DEF Terminal!vars
  <2>7. QED
    BY <2>1, <2>2, <2>3, <2>4, <2>5, <2>6 DEF Terminal!Next, Terminal!Work
<1>3. QED
  BY <1>1, <1>2, PTL DEF Terminal!Spec

\* The steps of the other parts leave the terminal alone.
LEMMA TerminalRun == Spec => Terminal!Spec
<1>1. Init => Terminal!Init
  BY DEF Init
<1>2. [Next]_vars => [Terminal!Next]_(Terminal!vars)
  BY DEF Next, vars, terminalVars, Terminal!vars
<1>3. QED
  BY <1>1, <1>2, PTL DEF Spec, Terminal!Spec

-----------------------------------------------------------------------------
(* Telegram.                                                               *)

\* Commands with an id below n have been handled.
Handled(n) == \A u \in 1..Len(updates) : u < n /\ updates[u] = "command" => u \in taken

\* One goroutine at most is not done: the one that Stop would stop, or is
\* waiting for.
OnePoller ==
    /\ change.pc = "stopping" => current = 0
    /\ \A p \in Telegram!Pollers : poller[p] # Telegram!Ended =>
         p = IF change.pc = "stopping" THEN change.old ELSE current

\* The updates of a batch come one after the other, and none before them is missing.
PollerFits(p) ==
    /\ poller[p].pc \in {"ended", "polling", "asking"} => poller[p].batch = <<>>
    /\ \A i \in 1..Len(poller[p].batch) :
         poller[p].batch[i] = poller[p].batch[1] + i - 1 /\ poller[p].batch[i] <= Len(updates)
    /\ poller[p].pc \in {"polling", "asking", "taking"} => Handled(offset)
    /\ poller[p].pc = "asking" => offset <= confirmed
    /\ poller[p].pc = "taking" /\ poller[p].batch # <<>> =>
         offset <= poller[p].batch[1] /\ Handled(poller[p].batch[1])
    /\ poller[p].pc = "handling" =>
         /\ poller[p].batch # <<>>
         /\ offset = poller[p].batch[1] + 1
         /\ Handled(poller[p].batch[1])
         /\ times[poller[p].batch[1]] = 0

UpdatesFit ==
    /\ confirmed <= Len(updates) + 1 /\ offset <= Len(updates) + 1
    /\ Handled(confirmed)
    /\ \A u \in Telegram!Ids : times[u] = 0 \/ (times[u] = 1 /\ u < offset)

TelegramInv ==
    /\ Telegram!TypeOK
    /\ OnePoller
    /\ UpdatesFit
    /\ \A p \in Telegram!Pollers : PollerFits(p)

\* A goroutine without updates.
LEMMA EmptyBatch == <<>> \in Seq(Telegram!Ids) /\ Len(<<>>) = 0
  BY EmptySeq

\* A function on 1..n is a sequence of length n.
LEMMA FunctionIsSequence ==
  ASSUME NEW S, NEW n \in Nat, NEW f \in [1..n -> S]
  PROVE  f \in Seq(S) /\ Len(f) = n
<1>1. f \in Seq(S)
  BY SeqDef
<1>2. Len(f) \in Nat /\ DOMAIN f = 1..Len(f)
  BY <1>1, LenProperties
<1>3. 1..Len(f) = 1..n
  BY <1>2
<1>4. QED
  BY <1>1, <1>2, <1>3

\* What a step of p does to the goroutines.
Moves(p, where, batch) ==
    poller' = [poller EXCEPT ![p] = [pc |-> where, batch |-> batch]]

\* A goroutine goes on with the batch it has.
LEMMA TelegramGoto ==
  ASSUME Telegram!TypeOK, NEW p \in Telegram!Pollers, NEW where, Telegram!Goto(p, where)
  PROVE  Moves(p, where, poller[p].batch)
<1>1. Telegram!TypeOK!4
  BY DEF Telegram!TypeOK
<1>2. [poller[p] EXCEPT !.pc = where] = [pc |-> where, batch |-> poller[p].batch]
  BY <1>1
<1>3. QED
  BY <1>1, <1>2 DEF Telegram!Goto, Moves

\* A goroutine that goes on leaves the other where it is.
LEMMA TelegramMove ==
  ASSUME Telegram!TypeOK, NEW p \in Telegram!Pollers,
         NEW where \in {"ended", "polling", "asking", "taking", "handling"},
         NEW batch \in Seq(Telegram!Ids), Moves(p, where, batch)
  PROVE  /\ Telegram!TypeOK!4'
         /\ poller'[p].pc = where /\ poller'[p].batch = batch
         /\ \A q \in Telegram!Pollers \ {p} : poller'[q] = poller[q]
<1>1. Telegram!TypeOK!4
  BY DEF Telegram!TypeOK
<1>2. [pc |-> where, batch |-> batch] \in
         [pc : {"ended", "polling", "asking", "taking", "handling"}, batch : Seq(Telegram!Ids)]
  OBVIOUS
<1>3. QED
  BY <1>1, <1>2 DEF Moves

\* A step of the goroutine that is not done leaves the other one done.
LEMMA TelegramStep ==
  ASSUME TelegramInv, NEW p \in Telegram!Pollers, poller[p].pc # "ended",
         \A q \in Telegram!Pollers \ {p} : poller'[q] = poller[q],
         UNCHANGED <<change, current>>,
         Telegram!TypeOK', UpdatesFit', PollerFits(p)'
  PROVE  TelegramInv'
<1>1. poller[p] # Telegram!Ended
  BY DEF Telegram!Ended
<1>2. OnePoller'
  BY <1>1 DEF TelegramInv, OnePoller
<1>3. ASSUME NEW q \in Telegram!Pollers \ {p} PROVE PollerFits(q)'
  <2>1. poller'[q] = Telegram!Ended
    BY <1>1 DEF TelegramInv, OnePoller
  <2>2. poller'[q].pc = "ended" /\ poller'[q].batch = <<>>
    BY <2>1 DEF Telegram!Ended
  <2>3. QED
    BY <2>2, EmptyBatch DEF PollerFits
<1>4. QED
  BY <1>2, <1>3 DEF TelegramInv

\* What is left of a batch once its first update is done.
LEMMA RestFollows ==
  ASSUME NEW b \in Seq(Nat), b # <<>>, NEW n \in Nat,
         \A i \in 1..Len(b) : b[i] = b[1] + i - 1 /\ b[i] <= n
  PROVE  /\ Head(b) = b[1] /\ b[1] \in Nat /\ b[1] <= n
         /\ \A i \in 1..Len(Tail(b)) : Tail(b)[i] = Tail(b)[1] + i - 1 /\ Tail(b)[i] <= n
         /\ Tail(b) # <<>> => Tail(b)[1] = b[1] + 1
<1>1. Len(b) \in Nat /\ Len(b) >= 1 /\ Head(b) = b[1] /\ b[1] \in Nat
  BY EmptySeq, LenProperties, HeadTailProperties, ElementOfSeq
<1>2. /\ Tail(b) \in Seq(Nat) /\ Len(Tail(b)) = Len(b) - 1
      /\ \A i \in 1..Len(Tail(b)) : Tail(b)[i] = b[i + 1]
  BY HeadTailProperties
<1>3. ASSUME NEW i \in 1..Len(Tail(b))
      PROVE  Tail(b)[i] = b[1] + i /\ Tail(b)[i] <= n
  <2>1. i + 1 \in 1..Len(b) /\ i \in Nat
    BY <1>1, <1>2
  <2>2. b[i + 1] = b[1] + (i + 1) - 1 /\ b[i + 1] <= n
    BY <2>1
  <2>3. QED
    BY <1>1, <1>2, <2>1, <2>2
<1>4. Tail(b) # <<>> => Len(Tail(b)) >= 1
  BY <1>2, EmptySeq
<1>5. Len(Tail(b)) >= 1 => Tail(b)[1] = b[1] + 1
  BY <1>1, <1>2, <1>3
<1>6. \A i \in 1..Len(Tail(b)) : Tail(b)[i] = Tail(b)[1] + i - 1
  BY <1>1, <1>2, <1>3, <1>5
<1>7. QED
  BY <1>1, <1>3, <1>4, <1>5, <1>6

\* One command more has been handled, or the update was none.
LEMMA HandledNext ==
  ASSUME Telegram!TypeOK, NEW u \in Nat, Handled(u), updates' = updates,
         taken \subseteq taken', u \in taken' \/ updates[u] # "command"
  PROVE  Handled(u + 1)'
<1>1. Len(updates) \in Nat
  BY LenProperties DEF Telegram!TypeOK
<1>2. ASSUME NEW v \in 1..Len(updates), v < u + 1, updates[v] = "command" PROVE v \in taken'
  <2>1. v < u \/ v = u
    BY <1>1, <1>2
  <2>2. QED
    BY <1>2, <2>1 DEF Handled
<1>3. QED
  BY <1>2 DEF Handled

\* The goroutine that polls keeps the invariant: a request confirms only what
\* was handled, and an update is behind the offset before it is handled.
LEMMA TelegramWorkKept ==
  ASSUME TelegramInv, NEW p \in Telegram!Pollers, Telegram!Work(p) \/ Telegram!Receive(p)
  PROVE  TelegramInv'
<1>0. /\ Telegram!TypeOK
      /\ UpdatesFit /\ PollerFits(p)
      /\ MaxUpdates \in Nat
      /\ updates \in Seq({"command", "other"}) /\ Len(updates) \in Nat /\ Len(updates) <= MaxUpdates
      /\ confirmed \in 1..MaxUpdates + 1 /\ offset \in 0..MaxUpdates + 1
      /\ poller[p].batch \in Seq(Telegram!Ids)
      /\ times \in [Telegram!Ids -> Nat]
  BY TelegramAssumption, LenProperties DEF TelegramInv, Telegram!TypeOK, Telegram!BoundAssumption
<1> USE DEF Telegram!telegram, Telegram!handled
<1>1. CASE Telegram!Ask(p)
  <2>1. /\ poller[p].pc = "polling" /\ Telegram!Goto(p, "asking")
        /\ confirmed' = Telegram!Larger(confirmed, offset)
        /\ UNCHANGED <<updates, stopped, offset, polling, current, change, starts, taken, times>>
    BY <1>1 DEF Telegram!Ask
  <2>2. /\ Telegram!TypeOK!4'
        /\ poller'[p].pc = "asking" /\ poller'[p].batch = <<>>
        /\ \A q \in Telegram!Pollers \ {p} : poller'[q] = poller[q]
    BY <1>0, <2>1, TelegramGoto, TelegramMove DEF PollerFits
  <2>3. confirmed' \in {confirmed, offset} /\ confirmed' >= offset /\ confirmed' \in 1..MaxUpdates + 1
    BY <1>0, <2>1 DEF Telegram!Larger
  <2>4. Telegram!TypeOK'
    BY <1>0, <2>1, <2>2, <2>3 DEF Telegram!TypeOK
  <2>5. Handled(offset) /\ Handled(confirmed)
    BY <1>0, <2>1 DEF PollerFits, UpdatesFit
  <2>6. UpdatesFit'
    BY <1>0, <2>1, <2>3, <2>5 DEF UpdatesFit, Handled
  <2>7. PollerFits(p)'
    BY <2>1, <2>2, <2>3, <2>5, EmptyBatch DEF PollerFits, Handled
  <2>8. QED
    BY <2>1, <2>2, <2>4, <2>6, <2>7, TelegramStep
<1>2. CASE Telegram!Receive(p)
  <2> DEFINE n == Len(updates) + 1 - confirmed
             batch == [i \in 1..n |-> confirmed + i - 1]
  <2>1. /\ poller[p].pc = "asking" /\ Moves(p, "taking", batch)
        /\ UNCHANGED <<updates, confirmed, stopped, offset, polling, current, change, starts, taken, times>>
    BY <1>2 DEF Telegram!Receive, Moves
  <2>2. n \in Nat
    BY <1>0 DEF UpdatesFit
  <2>3. batch \in [1..n -> Telegram!Ids]
    BY <1>0, <2>2 DEF Telegram!Ids
  <2>4. batch \in Seq(Telegram!Ids) /\ Len(batch) = n
    BY <2>2, <2>3, FunctionIsSequence
  <2>5. /\ Telegram!TypeOK!4'
        /\ poller'[p].pc = "taking" /\ poller'[p].batch = batch
        /\ \A q \in Telegram!Pollers \ {p} : poller'[q] = poller[q]
    BY <1>0, <2>1, <2>4, TelegramMove
  <2>6. Telegram!TypeOK'
    BY <1>0, <2>1, <2>5 DEF Telegram!TypeOK
  <2>7. UpdatesFit'
    BY <1>0, <2>1 DEF UpdatesFit, Handled
  <2>8. PollerFits(p)'
    <3>1. \A i \in 1..n : batch[i] = confirmed + i - 1 /\ batch[i] <= Len(updates)
      BY <1>0, <2>2
    <3>2. batch # <<>> => n >= 1
      BY <2>2, <2>4, EmptySeq
    <3>3. batch # <<>> => batch[1] = confirmed
      BY <1>0, <2>2, <3>1, <3>2
    <3>4. offset <= confirmed /\ Handled(offset) /\ Handled(confirmed)
      BY <1>0, <2>1 DEF PollerFits, UpdatesFit
    <3>5. \A i \in 1..n : batch[i] = batch[1] + i - 1
      BY <1>0, <2>2, <3>1
    <3> HIDE DEF batch
    <3>6. QED
      BY <2>1, <2>4, <2>5, <3>1, <3>3, <3>4, <3>5 DEF PollerFits, Handled
  <2>9. QED
    BY <2>1, <2>5, <2>6, <2>7, <2>8, TelegramStep
<1>3. CASE Telegram!PollFails(p) \/ Telegram!EndBatch(p) \/ Telegram!EndPolling(p)
  <2>1. PICK where \in {"polling", "ended"} :
          /\ Telegram!Goto(p, where)
          /\ poller[p].pc \in {"polling", "asking", "taking"}
          /\ poller[p].batch = <<>>
          /\ UNCHANGED <<updates, confirmed, stopped, offset, polling, current, change, starts, taken, times>>
    BY <1>0, <1>3 DEF Telegram!PollFails, Telegram!EndBatch, Telegram!EndPolling, PollerFits
  <2>2. Moves(p, where, <<>>)
    BY <1>0, <2>1, TelegramGoto
  <2>3. /\ Telegram!TypeOK!4'
        /\ poller'[p].pc = where /\ poller'[p].batch = <<>>
        /\ \A q \in Telegram!Pollers \ {p} : poller'[q] = poller[q]
    BY <1>0, <2>2, EmptyBatch, TelegramMove
  <2>4. Telegram!TypeOK'
    BY <1>0, <2>1, <2>3 DEF Telegram!TypeOK
  <2>5. UpdatesFit'
    BY <1>0, <2>1 DEF UpdatesFit, Handled
  <2>6. Handled(offset)
    BY <1>0, <2>1 DEF PollerFits
  <2>7. PollerFits(p)'
    BY <2>1, <2>3, <2>6, EmptyBatch DEF PollerFits, Handled
  <2>8. QED
    BY <2>1, <2>3, <2>4, <2>5, <2>7, TelegramStep
<1>4. ASSUME poller[p].batch # <<>>
      PROVE  /\ Head(poller[p].batch) = poller[p].batch[1]
             /\ poller[p].batch[1] \in Telegram!Ids /\ poller[p].batch[1] \in Nat
             /\ poller[p].batch[1] <= Len(updates)
             /\ Tail(poller[p].batch) \in Seq(Telegram!Ids)
             /\ \A i \in 1..Len(Tail(poller[p].batch)) :
                  /\ Tail(poller[p].batch)[i] = Tail(poller[p].batch)[1] + i - 1
                  /\ Tail(poller[p].batch)[i] <= Len(updates)
             /\ Tail(poller[p].batch) # <<>> => Tail(poller[p].batch)[1] = poller[p].batch[1] + 1
  <2>1. poller[p].batch \in Seq(Nat)
    BY <1>0, SeqMonotonic DEF Telegram!Ids
  <2>2. \A i \in 1..Len(poller[p].batch) :
          poller[p].batch[i] = poller[p].batch[1] + i - 1 /\ poller[p].batch[i] <= Len(updates)
    BY <1>0 DEF PollerFits
  <2>3. Head(poller[p].batch) \in Telegram!Ids /\ Tail(poller[p].batch) \in Seq(Telegram!Ids)
    BY <1>0, <1>4, HeadTailProperties
  <2>4. QED
    BY <1>0, <1>4, <2>1, <2>2, <2>3, RestFollows
<1>5. CASE Telegram!Take(p)
  <2>1. /\ poller[p].pc = "taking" /\ poller[p].batch # <<>>
    BY <1>5 DEF Telegram!Take
  <2>2. PICK b \in Seq(Telegram!Ids), u \in Telegram!Ids : b = poller[p].batch /\ u = b[1]
    BY <1>0, <1>4, <2>1
  <2>3. /\ offset <= u /\ Handled(u) /\ u <= Len(updates) /\ u \in 1..MaxUpdates
    BY <1>0, <1>4, <2>1, <2>2 DEF PollerFits, Telegram!Ids
  <2>4. /\ poller' = [poller EXCEPT ![p] =
                IF updates[u] = "command" THEN [@ EXCEPT !.pc = "handling"]
                ELSE [pc |-> "taking", batch |-> Tail(@.batch)]]
        /\ offset' = Telegram!Larger(offset, u + 1)
        /\ UNCHANGED <<updates, confirmed, stopped, polling, current, change, starts, taken, times>>
    BY <1>4, <1>5, <2>1, <2>2 DEF Telegram!Take
  <2>5. offset' = u + 1 /\ u + 1 \in 0..MaxUpdates + 1
    BY <1>0, <2>3, <2>4 DEF Telegram!Larger
  <2>6. UpdatesFit'
    <3>1. ASSUME NEW v \in Telegram!Ids PROVE times[v] = 0 \/ (times[v] = 1 /\ v < u + 1)
      BY <1>0, <2>3 DEF UpdatesFit, Telegram!Ids
    <3>2. u + 1 <= Len(updates) + 1
      BY <1>0, <2>3
    <3>3. QED
      BY <1>0, <2>4, <2>5, <3>1, <3>2 DEF UpdatesFit, Handled
  <2>7. CASE updates[u] = "command"
    <3>1. Moves(p, "handling", b)
      <4>1. Telegram!Goto(p, "handling")
        BY <2>4, <2>7 DEF Telegram!Goto
      <4>2. QED
        BY <1>0, <2>2, <4>1, TelegramGoto
    <3>2. /\ Telegram!TypeOK!4'
          /\ poller'[p].pc = "handling" /\ poller'[p].batch = b
          /\ \A q \in Telegram!Pollers \ {p} : poller'[q] = poller[q]
      BY <1>0, <3>1, TelegramMove
    <3>3. Telegram!TypeOK'
      BY <1>0, <2>4, <2>5, <3>2 DEF Telegram!TypeOK
    <3>4. times[u] = 0
      BY <1>0, <2>3 DEF UpdatesFit, Telegram!Ids
    <3>5. PollerFits(p)'
      BY <1>0, <2>1, <2>2, <2>3, <2>4, <2>5, <3>2, <3>4 DEF PollerFits, Handled
    <3>6. QED
      BY <2>1, <2>4, <2>6, <3>2, <3>3, <3>5, TelegramStep
  <2>8. CASE updates[u] # "command"
    <3>1. Moves(p, "taking", Tail(b))
      BY <2>2, <2>4, <2>8 DEF Moves
    <3>2. /\ Tail(b) \in Seq(Telegram!Ids)
          /\ \A i \in 1..Len(Tail(b)) : Tail(b)[i] = Tail(b)[1] + i - 1 /\ Tail(b)[i] <= Len(updates)
          /\ Tail(b) # <<>> => Tail(b)[1] = u + 1
      BY <1>4, <2>1, <2>2
    <3>3. /\ Telegram!TypeOK!4'
          /\ poller'[p].pc = "taking" /\ poller'[p].batch = Tail(b)
          /\ \A q \in Telegram!Pollers \ {p} : poller'[q] = poller[q]
      BY <1>0, <3>1, <3>2, TelegramMove
    <3>4. Telegram!TypeOK'
      BY <1>0, <2>4, <2>5, <3>3 DEF Telegram!TypeOK
    <3>5. Handled(u + 1)'
      BY <1>0, <2>3, <2>4, <2>8, HandledNext
    <3>6. PollerFits(p)'
      <4> DEFINE rest == Tail(b)
      <4>1. /\ poller'[p].pc = "taking" /\ poller'[p].batch = rest
            /\ \A i \in 1..Len(rest) : rest[i] = rest[1] + i - 1 /\ rest[i] <= Len(updates)
            /\ rest # <<>> => rest[1] = u + 1
        BY <3>2, <3>3
      <4> HIDE DEF rest
      <4>2. Handled(offset)' /\ (rest # <<>> => Handled(rest[1])')
        BY <2>5, <3>5, <4>1 DEF Handled
      <4>3. rest # <<>> => offset' <= rest[1]
        BY <2>3, <2>5, <4>1
      <4>4. QED
        BY <2>4, <4>1, <4>2, <4>3 DEF PollerFits, Handled
    <3>7. QED
      BY <2>1, <2>4, <2>6, <3>3, <3>4, <3>6, TelegramStep
  <2>9. QED
    BY <2>7, <2>8
<1>6. CASE Telegram!Handle(p)
  <2>1. /\ poller[p].pc = "handling" /\ poller[p].batch # <<>>
    BY <1>0, <1>6 DEF Telegram!Handle, PollerFits
  <2>2. PICK b \in Seq(Telegram!Ids), rest \in Seq(Telegram!Ids), u \in Telegram!Ids :
          b = poller[p].batch /\ rest = Tail(b) /\ u = b[1]
    BY <1>0, <1>4, <2>1
  <2>3. /\ offset = u + 1 /\ Handled(u) /\ times[u] = 0 /\ u \in Nat /\ u <= Len(updates)
        /\ \A i \in 1..Len(rest) : rest[i] = rest[1] + i - 1 /\ rest[i] <= Len(updates)
        /\ rest # <<>> => rest[1] = u + 1
    BY <1>0, <1>4, <2>1, <2>2 DEF PollerFits
  <2>4. /\ taken' = taken \cup {u}
        /\ times' = [times EXCEPT ![u] = @ + 1]
        /\ Moves(p, "taking", rest)
        /\ UNCHANGED <<updates, confirmed, stopped, offset, polling, current, change, starts>>
    BY <1>4, <1>6, <2>1, <2>2 DEF Telegram!Handle, Moves
  <2>5. /\ Telegram!TypeOK!4'
        /\ poller'[p].pc = "taking" /\ poller'[p].batch = rest
        /\ \A q \in Telegram!Pollers \ {p} : poller'[q] = poller[q]
    BY <1>0, <2>2, <2>4, TelegramMove
  <2>6. taken' \subseteq Telegram!Ids /\ times' \in [Telegram!Ids -> Nat]
    BY <1>0, <2>2, <2>4 DEF Telegram!TypeOK
  <2>7. Telegram!TypeOK'
    BY <1>0, <2>4, <2>5, <2>6 DEF Telegram!TypeOK
  <2>8. UpdatesFit'
    <3>1. ASSUME NEW v \in Telegram!Ids PROVE times'[v] = 0 \/ (times'[v] = 1 /\ v < offset)
      BY <1>0, <2>3, <2>4 DEF UpdatesFit
    <3>2. QED
      BY <1>0, <2>4, <3>1 DEF UpdatesFit, Handled
  <2>9. Handled(u + 1)'
    BY <1>0, <2>3, <2>4, HandledNext
  <2>10. PollerFits(p)'
    <3>1. Handled(offset)' /\ (rest # <<>> => Handled(rest[1])')
      BY <2>3, <2>4, <2>9 DEF Handled
    <3>2. rest # <<>> => offset' <= rest[1]
      BY <2>3, <2>4
    <3>3. QED
      BY <2>3, <2>4, <2>5, <3>1, <3>2 DEF PollerFits, Handled
  <2>11. QED
    BY <2>1, <2>4, <2>5, <2>7, <2>8, <2>10, TelegramStep
<1>7. QED
  BY <1>1, <1>2, <1>3, <1>5, <1>6 DEF Telegram!Work

\* A start, of no goroutine or of one that has nothing to do yet.
LEMMA TelegramStart ==
  ASSUME Telegram!TypeOK', confirmed' <= Len(updates') + 1, Handled(confirmed)',
         offset' = 0, times' = [u \in Telegram!Ids |-> 0],
         change' = Telegram!Idle,
         \A p \in Telegram!Pollers :
            \/ poller'[p] = Telegram!Ended
            \/ poller'[p] = [pc |-> "polling", batch |-> <<>>] /\ current' = p
  PROVE  TelegramInv'
<1>1. Handled(0)'
  BY LenProperties DEF Handled, Telegram!TypeOK
<1>2. UpdatesFit'
  BY LenProperties DEF UpdatesFit, Telegram!TypeOK
<1>3. OnePoller'
  BY DEF OnePoller, Telegram!Idle
<1>4. ASSUME NEW p \in Telegram!Pollers PROVE PollerFits(p)'
  <2>1. poller'[p].pc \in {"ended", "polling"} /\ poller'[p].batch = <<>>
    BY DEF Telegram!Ended
  <2>2. Handled(offset)'
    BY <1>1 DEF Handled
  <2>3. QED
    BY <2>1, <2>2, EmptyBatch DEF PollerFits
<1>5. QED
  BY <1>2, <1>3, <1>4 DEF TelegramInv

\* A new goroutine starts when the old one has ended, a server with none.
LEMMA TelegramStartKept ==
  ASSUME TelegramInv, Telegram!StartAgain \/ \E on \in BOOLEAN : Telegram!Restart(on)
  PROVE  TelegramInv'
<1>0. /\ Telegram!TypeOK
      /\ confirmed <= Len(updates) + 1 /\ Handled(confirmed)
      /\ Telegram!Pollers = {1, 2}
  BY DEF TelegramInv, UpdatesFit, Telegram!Pollers
<1>1. <<>> \in Seq(Telegram!Ids) /\ MaxUpdates \in Nat /\ MaxTelegramStarts \in Nat
  BY EmptySeq, TelegramAssumption DEF Telegram!BoundAssumption
<1>2. CASE Telegram!StartAgain
  <2>1. PICK p \in Telegram!Pollers :
          /\ poller[p] = Telegram!Ended
          /\ current' = IF change.polling THEN p ELSE 0
          /\ poller' = [poller EXCEPT ![p] =
                          [@ EXCEPT !.pc = IF change.polling THEN "polling" ELSE "ended"]]
          /\ stopped' = [stopped EXCEPT ![p] = FALSE]
    BY <1>2 DEF Telegram!StartAgain, Telegram!Begin
  <2>2. /\ polling' = change.polling /\ offset' = 0
        /\ times' = [u \in Telegram!Ids |-> 0]
        /\ change.pc = "stopping" /\ (change.old # 0 => poller[change.old] = Telegram!Ended)
        /\ change' = Telegram!Idle
        /\ UNCHANGED <<updates, confirmed, starts, taken>>
    BY <1>2 DEF Telegram!StartAgain, Telegram!Begin, Telegram!telegram
  <2>3. \A q \in Telegram!Pollers : poller[q] = Telegram!Ended
    BY <1>0, <2>2 DEF TelegramInv, OnePoller
  <2>4. Telegram!TypeOK!4 /\ poller[p].batch = <<>>
    BY <1>0, <2>1 DEF Telegram!TypeOK, Telegram!Ended
  <2>5. [poller[p] EXCEPT !.pc = IF change.polling THEN "polling" ELSE "ended"]
        = [pc |-> IF change.polling THEN "polling" ELSE "ended", batch |-> <<>>]
    BY <2>4
  <2>6. PICK where \in {"polling", "ended"} : where = IF change.polling THEN "polling" ELSE "ended"
    OBVIOUS
  <2>7. Moves(p, where, <<>>)
    BY <2>1, <2>5, <2>6 DEF Moves
  <2>8. /\ Telegram!TypeOK!4'
        /\ poller'[p].pc = where /\ poller'[p].batch = <<>>
        /\ \A q \in Telegram!Pollers \ {p} : poller'[q] = poller[q]
    <3>1. Telegram!TypeOK
      BY <1>0
    <3>2. QED
      BY <2>7, <3>1, EmptyBatch, TelegramMove
  <2>9. poller'[p] = [pc |-> where, batch |-> <<>>]
    <3>1. DOMAIN poller = Telegram!Pollers
      BY <2>4
    <3>2. QED
      BY <2>7, <3>1, Zenon DEF Moves
  <2>10. change.polling \in BOOLEAN
    BY <1>0 DEF Telegram!TypeOK
  <2>11. /\ Telegram!TypeOK!5' /\ Telegram!TypeOK!7' /\ Telegram!TypeOK!8'
    BY <1>0, <2>1, <2>2, <2>10, Zenon DEF Telegram!TypeOK
  <2>12. Telegram!TypeOK!9'
    BY <2>2, Zenon DEF Telegram!Idle
  <2>13. Telegram!TypeOK'
    BY <1>0, <1>1, <2>2, <2>8, <2>11, <2>12 DEF Telegram!TypeOK
  <2>14. Handled(confirmed)'
    BY <1>0, <2>2 DEF Handled
  <2>15. \A q \in Telegram!Pollers :
           \/ poller'[q] = Telegram!Ended
           \/ poller'[q] = [pc |-> "polling", batch |-> <<>>] /\ current' = q
    BY <2>1, <2>3, <2>6, <2>8, <2>9 DEF Telegram!Ended
  <2>16. QED
    BY <1>0, <2>2, <2>13, <2>14, <2>15, TelegramStart
<1>3. CASE \E on \in BOOLEAN : Telegram!Restart(on)
  <2>1. PICK on \in BOOLEAN :
          /\ polling' = on
          /\ current' = IF on THEN 1 ELSE 0
          /\ poller' = [p \in Telegram!Pollers |->
                          IF on /\ p = 1 THEN [Telegram!Ended EXCEPT !.pc = "polling"] ELSE Telegram!Ended]
    BY <1>3 DEF Telegram!Restart
  <2>2. /\ starts < MaxTelegramStarts /\ starts' = starts + 1
        /\ change' = Telegram!Idle
        /\ offset' = 0
        /\ times' = [u \in Telegram!Ids |-> 0]
        /\ stopped' = [p \in Telegram!Pollers |-> FALSE]
        /\ UNCHANGED <<updates, confirmed, taken>>
    BY <1>3 DEF Telegram!Restart, Telegram!telegram
  <2>3. [Telegram!Ended EXCEPT !.pc = "polling"] = [pc |-> "polling", batch |-> <<>>]
    BY DEF Telegram!Ended
  <2>4. \A q \in Telegram!Pollers :
          \/ poller'[q] = Telegram!Ended
          \/ poller'[q] = [pc |-> "polling", batch |-> <<>>] /\ current' = q
    BY <2>1, <2>3
  <2>5. Telegram!TypeOK!4'
    BY <1>1, <2>1, <2>3 DEF Telegram!Ended
  <2>6. /\ Telegram!TypeOK!7' /\ Telegram!TypeOK!8' /\ Telegram!TypeOK!9'
    BY <1>0, <2>1, <2>2, Zenon DEF Telegram!Idle
  <2>7. Telegram!TypeOK!5' /\ Telegram!TypeOK!10'
    BY <1>0, <1>1, <2>2 DEF Telegram!TypeOK
  <2>8. Telegram!TypeOK'
    BY <1>0, <1>1, <2>2, <2>5, <2>6, <2>7 DEF Telegram!TypeOK
  <2>9. Handled(confirmed)'
    BY <1>0, <2>2 DEF Handled
  <2>10. QED
    BY <1>0, <2>2, <2>4, <2>8, <2>9, TelegramStart
<1>4. QED
  BY <1>2, <1>3

\* Stop marks the goroutine that is current, and forgets it.
LEMMA TelegramStopKept ==
  ASSUME TelegramInv, NEW on \in BOOLEAN, Telegram!UpdateConfig(on)
  PROVE  TelegramInv'
<1>0. Telegram!TypeOK /\ MaxTelegramStarts \in Nat
  BY TelegramAssumption DEF TelegramInv, Telegram!BoundAssumption
<1>1. /\ change = Telegram!Idle
      /\ starts < MaxTelegramStarts /\ starts' = starts + 1
      /\ change' = [pc |-> "stopping", old |-> current, polling |-> on]
      /\ stopped' = IF current = 0 THEN stopped ELSE [stopped EXCEPT ![current] = TRUE]
      /\ current' = 0
      /\ UNCHANGED <<updates, confirmed, poller, offset, polling, taken, times>>
  BY DEF Telegram!UpdateConfig, Telegram!telegram, Telegram!handled
<1>2. Telegram!TypeOK!5'
  BY <1>0, <1>1, Zenon DEF Telegram!TypeOK
<1>3. Telegram!TypeOK!9' /\ Telegram!TypeOK!8'
  BY <1>0, <1>1 DEF Telegram!TypeOK
<1>4. starts' \in 0..MaxTelegramStarts
  BY <1>0, <1>1 DEF Telegram!TypeOK
<1>5. Telegram!TypeOK'
  BY <1>0, <1>1, <1>2, <1>3, <1>4 DEF Telegram!TypeOK
<1>6. OnePoller'
  BY <1>1 DEF TelegramInv, OnePoller, Telegram!Idle
<1>7. UpdatesFit'
  BY <1>1 DEF TelegramInv, UpdatesFit, Handled
<1>8. ASSUME NEW p \in Telegram!Pollers PROVE PollerFits(p)'
  BY <1>1 DEF TelegramInv, PollerFits, Handled
<1>9. QED
  BY <1>5, <1>6, <1>7, <1>8 DEF TelegramInv

\* An update that arrives has an id above all that were handed out.
LEMMA TelegramSendKept ==
  ASSUME TelegramInv, NEW kind \in {"command", "other"}, Telegram!Send(kind)
  PROVE  TelegramInv'
<1>0. /\ Telegram!TypeOK /\ MaxUpdates \in Nat
      /\ updates \in Seq({"command", "other"}) /\ Len(updates) \in Nat
      /\ confirmed \in Nat /\ offset \in Nat
      /\ confirmed <= Len(updates) + 1 /\ offset <= Len(updates) + 1 /\ Handled(confirmed)
  BY TelegramAssumption, LenProperties
     DEF TelegramInv, UpdatesFit, Telegram!TypeOK, Telegram!BoundAssumption
<1>1. /\ Len(updates) < MaxUpdates
      /\ updates' = Append(updates, kind)
      /\ UNCHANGED <<confirmed, poller, stopped, offset, polling, current, change, starts, taken, times>>
  BY DEF Telegram!Send, Telegram!handled
<1>2. /\ updates' \in Seq({"command", "other"})
      /\ Len(updates') = Len(updates) + 1
      /\ \A u \in 1..Len(updates) : updates'[u] = updates[u]
  BY <1>0, <1>1, AppendProperties
<1>3. Telegram!TypeOK'
  BY <1>0, <1>1, <1>2 DEF Telegram!TypeOK
<1>4. ASSUME NEW n \in Nat, n <= Len(updates) + 1, Handled(n) PROVE Handled(n)'
  <2>1. \A u \in 1..Len(updates') : u < n => u \in 1..Len(updates) /\ updates'[u] = updates[u]
    BY <1>0, <1>2, <1>4
  <2>2. QED
    BY <1>1, <1>4, <2>1 DEF Handled
<1>5. UpdatesFit'
  <2>1. Handled(confirmed)'
    BY <1>0, <1>1, <1>4 DEF Handled
  <2>2. QED
    BY <1>0, <1>1, <1>2, <2>1 DEF TelegramInv, UpdatesFit
<1>6. OnePoller'
  BY <1>1 DEF TelegramInv, OnePoller
<1>7. ASSUME NEW p \in Telegram!Pollers PROVE PollerFits(p)'
  <2>1. PICK b \in Seq(Telegram!Ids) : b = poller[p].batch
    BY <1>0 DEF Telegram!TypeOK
  <2>2. PollerFits(p)
    BY DEF TelegramInv
  <2>3. b # <<>> => b[1] \in Nat /\ b[1] <= Len(updates) + 1
    <3>1. b # <<>> => Len(b) \in Nat /\ Len(b) >= 1 /\ b[1] \in Telegram!Ids
      BY EmptySeq, LenProperties, ElementOfSeq
    <3>2. \A i \in 1..Len(b) : b[i] <= Len(updates)
      BY <2>1, <2>2 DEF PollerFits
    <3>3. QED
      BY <1>0, <3>1, <3>2 DEF Telegram!Ids
  <2>4. \A i \in 1..Len(b) : b[i] = b[1] + i - 1 /\ b[i] <= Len(updates')
    <3>1. ASSUME NEW i \in 1..Len(b) PROVE b[i] = b[1] + i - 1 /\ b[i] <= Len(updates) /\ b[i] \in Nat
      <4>1. b[i] = b[1] + i - 1 /\ b[i] <= Len(updates)
        BY <2>1, <2>2 DEF PollerFits
      <4>2. b[i] \in Telegram!Ids
        BY ElementOfSeq
      <4>3. QED
        BY <4>1, <4>2 DEF Telegram!Ids
    <3>2. QED
      BY <1>0, <1>2, <3>1
  <2>5. /\ Handled(offset) => Handled(offset)'
        /\ b # <<>> => (Handled(b[1]) => Handled(b[1])')
    BY <1>0, <1>1, <1>4, <2>3 DEF Handled
  <2>6. poller'[p].batch = b /\ poller'[p].pc = poller[p].pc
    BY <1>1, <2>1
  <2>7. QED
    BY <1>1, <2>1, <2>2, <2>4, <2>5, <2>6 DEF PollerFits
<1>8. QED
  BY <1>3, <1>5, <1>6, <1>7 DEF TelegramInv

\* TelegramBot keeps its invariant.
LEMMA TelegramInvariant == Telegram!Spec => []TelegramInv
<1>1. Telegram!Init => TelegramInv
  <2> SUFFICES ASSUME Telegram!Init PROVE TelegramInv
    OBVIOUS
  <2>1. MaxUpdates \in Nat /\ MaxTelegramStarts \in Nat
    BY TelegramAssumption DEF Telegram!BoundAssumption
  <2>2. updates = <<>> /\ Len(updates) = 0 /\ updates \in Seq({"command", "other"})
    BY EmptySeq DEF Telegram!Init
  <2>3. Telegram!TypeOK!4
    BY EmptyBatch DEF Telegram!Init, Telegram!Ended
  <2>4. Telegram!TypeOK!9
    BY DEF Telegram!Init, Telegram!Idle
  <2>5. Telegram!TypeOK
    <3>1. /\ confirmed \in 1..MaxUpdates + 1 /\ offset \in 0..MaxUpdates + 1
          /\ starts \in 0..MaxTelegramStarts /\ Len(updates) <= MaxUpdates
      BY <2>1, <2>2 DEF Telegram!Init
    <3>2. /\ Telegram!TypeOK!5 /\ times \in [Telegram!Ids -> Nat]
      BY DEF Telegram!Init
    <3>3. polling \in BOOLEAN /\ current \in {0} \cup Telegram!Pollers /\ taken \subseteq Telegram!Ids
      BY DEF Telegram!Init
    <3>4. QED
      BY <2>2, <2>3, <2>4, <3>1, <3>2, <3>3, Zenon DEF Telegram!TypeOK
  <2>6. UpdatesFit /\ \A n \in Nat : Handled(n)
    BY <2>2 DEF Telegram!Init, UpdatesFit, Handled
  <2>7. OnePoller
    BY DEF Telegram!Init, OnePoller, Telegram!Idle
  <2>8. ASSUME NEW p \in Telegram!Pollers PROVE PollerFits(p)
    <3>1. poller[p].pc = "ended" /\ poller[p].batch = <<>>
      BY DEF Telegram!Init, Telegram!Ended
    <3>2. QED
      BY <3>1, EmptyBatch DEF PollerFits
  <2>9. QED
    BY <2>5, <2>6, <2>7, <2>8 DEF TelegramInv
<1>2. TelegramInv /\ [Telegram!Next]_(Telegram!vars) => TelegramInv'
  <2> SUFFICES ASSUME TelegramInv, [Telegram!Next]_(Telegram!vars) PROVE TelegramInv'
    OBVIOUS
  <2>1. CASE \E p \in Telegram!Pollers : Telegram!Work(p) \/ Telegram!Receive(p)
    BY <2>1, TelegramWorkKept
  <2>2. CASE Telegram!StartAgain \/ \E on \in BOOLEAN : Telegram!Restart(on)
    BY <2>2, TelegramStartKept
  <2>3. CASE \E on \in BOOLEAN : Telegram!UpdateConfig(on)
    BY <2>3, TelegramStopKept
  <2>4. CASE \E kind \in {"command", "other"} : Telegram!Send(kind)
    BY <2>4, TelegramSendKept
  <2>5. CASE UNCHANGED Telegram!vars
    <3>1. UNCHANGED <<updates, confirmed, poller, stopped, offset, polling, current, change,
                      starts, taken, times>>
      BY <2>5 DEF Telegram!vars, Telegram!telegram, Telegram!handled
    <3>2. Telegram!TypeOK'
      BY <3>1 DEF TelegramInv, Telegram!TypeOK
    <3>3. OnePoller' /\ UpdatesFit'
      BY <3>1 DEF TelegramInv, OnePoller, UpdatesFit, Handled
    <3>4. ASSUME NEW p \in Telegram!Pollers PROVE PollerFits(p)'
      BY <3>1 DEF TelegramInv, PollerFits, Handled
    <3>5. QED
      BY <3>2, <3>3, <3>4 DEF TelegramInv
  <2>6. QED
    BY <2>1, <2>2, <2>3, <2>4, <2>5 DEF Telegram!Next
<1>3. QED
  BY <1>1, <1>2, PTL DEF Telegram!Spec

\* The steps of the other parts leave the Telegram bot alone.
LEMMA TelegramRun == Spec => Telegram!Spec
<1>1. Init => Telegram!Init
  BY DEF Init
<1>2. [Next]_vars => [Telegram!Next]_(Telegram!vars)
  BY DEF Next, vars, telegramVars, Telegram!vars, Telegram!telegram, Telegram!handled
<1>3. QED
  BY <1>1, <1>2, PTL DEF Spec, Telegram!Spec

-----------------------------------------------------------------------------
(* Alerts.                                                                 *)

\* What is said of the history says which ids it has, so that trimming it
\* and marking in it can be told apart from losing and mixing up alerts.
AlertsInv == Alerts!TypeOK /\ Alerts!HistoryIsExact

\* The part of the invariant that an alert or an acknowledgement can disturb.
AlertsFit ==
    /\ history \in Seq(Alerts!Alert)
    /\ raised \in Nat
    /\ acked \subseteq 1..raised
    /\ sweep \subseteq 1..raised
    /\ Alerts!HistoryIsExact

\* Trimming keeps the newest.
LEMMA TrimmedIsPrefix ==
  ASSUME NEW S, NEW h \in Seq(S)
  PROVE  /\ Alerts!Trim(h) \in Seq(S)
         /\ Len(Alerts!Trim(h)) = IF Len(h) > MaxHistory THEN MaxHistory ELSE Len(h)
         /\ \A i \in 1..Len(Alerts!Trim(h)) : Alerts!Trim(h)[i] = h[i]
<1>0. MaxHistory \in Nat \ {0} /\ Len(h) \in Nat
  BY AlertsAssumption, LenProperties DEF Alerts!BoundAssumption
<1>1. CASE Len(h) > MaxHistory
  <2>1. Alerts!Trim(h) = SubSeq(h, 1, MaxHistory)
    BY <1>1 DEF Alerts!Trim
  <2>2. \A i \in 1..MaxHistory : h[i] \in S
    BY <1>0, <1>1, ElementOfSeq
  <2>3. /\ SubSeq(h, 1, MaxHistory) \in Seq(S)
        /\ Len(SubSeq(h, 1, MaxHistory)) = MaxHistory
        /\ \A i \in 1..MaxHistory : SubSeq(h, 1, MaxHistory)[i] = h[i]
    <3>1. 1 \in Int /\ MaxHistory \in Int
      BY <1>0
    <3>2. /\ SubSeq(h, 1, MaxHistory) \in Seq(S)
          /\ Len(SubSeq(h, 1, MaxHistory)) = IF 1 <= MaxHistory THEN MaxHistory - 1 + 1 ELSE 0
          /\ \A i \in 1..(MaxHistory - 1 + 1) : SubSeq(h, 1, MaxHistory)[i] = h[1 + i - 1]
      BY <2>2, <3>1, SubSeqProperties
    <3>3. \A i \in 1..MaxHistory : 1 + i - 1 = i
      BY <1>0
    <3>4. QED
      BY <1>0, <3>2, <3>3
  <2>4. QED
    BY <1>1, <2>1, <2>3
<1>2. CASE ~(Len(h) > MaxHistory)
  BY <1>2 DEF Alerts!Trim
<1>3. QED
  BY <1>1, <1>2

\* A new alert pushes the others on, and the oldest out.
LEMMA AddFits ==
  ASSUME AlertsFit, NEW kind \in Alerts!Kinds, NEW n \in Names, Alerts!Add(kind, n)
  PROVE  AlertsFit'
<1> DEFINE r == [id |-> raised + 1, kind |-> kind, on |-> n, acknowledged |-> FALSE]
           all == <<r>> \o history
<1>0. /\ MaxHistory \in Nat \ {0}
      /\ history \in Seq(Alerts!Alert) /\ Len(history) \in Nat /\ DOMAIN history = 1..Len(history)
      /\ raised \in Nat /\ acked \subseteq 1..raised /\ sweep \subseteq 1..raised
      /\ Len(history) = IF raised < MaxHistory THEN raised ELSE MaxHistory
  BY AlertsAssumption, LenProperties
     DEF AlertsFit, Alerts!BoundAssumption, Alerts!HistoryIsExact
<1>1. raised' = raised + 1 /\ history' = Alerts!Trim(all)
      /\ acked' = acked \cap {history'[i].id : i \in DOMAIN history'}
      /\ sweep' = sweep
  BY DEF Alerts!Add
<1>2. r \in Alerts!Alert /\ r.id = raised + 1 /\ r.acknowledged = FALSE
  BY <1>0 DEF Alerts!Alert
<1> HIDE DEF r
<1>3. <<r>> \in Seq(Alerts!Alert) /\ Len(<<r>>) = 1 /\ <<r>>[1] = r
  BY <1>2
<1>4. /\ all \in Seq(Alerts!Alert)
      /\ Len(all) = 1 + Len(history)
      /\ \A i \in 1..1 + Len(history) : all[i] = IF i <= 1 THEN <<r>>[i] ELSE history[i - 1]
  BY <1>0, <1>3, ConcatProperties
<1> HIDE DEF all
<1>5. ASSUME NEW i \in 1..Len(all)
      PROVE  all[i].id = raised + 1 - i + 1 /\ (all[i].acknowledged <=> all[i].id \in acked)
  <2>1. CASE i = 1
    <3>1. all[i] = r
      BY <1>0, <1>3, <1>4, <2>1
    <3>2. raised + 1 \notin acked
      BY <1>0
    <3>3. raised + 1 = raised + 1 - i + 1
      BY <1>0, <2>1
    <3>4. QED
      BY <1>2, <3>1, <3>2, <3>3
  <2>2. CASE i # 1
    <3>1. PICK j \in DOMAIN history : j = i - 1
      BY <1>0, <1>4, <2>2
    <3>2. all[i] = history[j]
      BY <1>0, <1>4, <2>2, <3>1
    <3>3. history[j].id = raised - j + 1 /\ (history[j].acknowledged <=> history[j].id \in acked)
      BY DEF AlertsFit, Alerts!HistoryIsExact
    <3>4. raised - j + 1 = raised + 1 - i + 1
      BY <1>0, <1>4, <3>1
    <3>5. QED
      BY <3>2, <3>3, <3>4
  <2>3. QED
    BY <2>1, <2>2
<1>6. /\ history' \in Seq(Alerts!Alert)
      /\ Len(history') = IF Len(all) > MaxHistory THEN MaxHistory ELSE Len(all)
      /\ DOMAIN history' = 1..Len(history')
      /\ \A i \in 1..Len(history') : history'[i] = all[i]
  BY <1>1, <1>4, TrimmedIsPrefix, LenProperties
<1>7. Len(history') = IF raised' < MaxHistory THEN raised' ELSE MaxHistory
  BY <1>0, <1>1, <1>4, <1>6
<1>8. ASSUME NEW i \in DOMAIN history'
      PROVE  /\ history'[i].id = raised' - i + 1
             /\ history'[i].acknowledged <=> history'[i].id \in acked'
  <2>1. i \in 1..Len(all) /\ history'[i] = all[i]
    BY <1>0, <1>4, <1>6
  <2>2. history'[i].id \in acked' <=> history'[i].id \in acked
    BY <1>1
  <2>3. history'[i].id = raised + 1 - i + 1
    BY <1>5, <2>1
  <2>4. history'[i].id = raised' - i + 1
    <3>1. raised' = raised + 1 /\ raised \in Nat
      BY <1>0, <1>1
    <3>2. i \in Int
      BY <1>6
    <3>3. QED
      BY <2>3, <3>1, <3>2
  <2>5. history'[i].acknowledged <=> history'[i].id \in acked
    BY <1>5, <2>1
  <2>6. QED
    BY <2>2, <2>4, <2>5, Zenon
<1>9. Alerts!HistoryIsExact'
  BY <1>7, <1>8 DEF Alerts!HistoryIsExact
<1>10. raised' \in Nat /\ acked' \subseteq 1..raised' /\ sweep' \subseteq 1..raised'
  <2>1. raised' = raised + 1 /\ sweep' = sweep /\ acked' \subseteq acked
    BY <1>1, Zenon
  <2>2. raised' \in Nat /\ 1..raised \subseteq 1..raised'
    BY <1>0, <2>1
  <2>3. QED
    BY <1>0, <2>1, <2>2
<1>11. QED
  BY <1>6, <1>9, <1>10 DEF AlertsFit

\* An acknowledgement marks the alerts of its id and no others.
LEMMA AcknowledgeFits ==
  ASSUME AlertsFit, NEW id, Alerts!Acknowledge(id), raised' = raised,
         sweep' \subseteq sweep
  PROVE  AlertsFit'
<1>0. /\ history \in Seq(Alerts!Alert) /\ Len(history) \in Nat /\ DOMAIN history = 1..Len(history)
      /\ raised \in Nat /\ acked \subseteq 1..raised /\ sweep \subseteq 1..raised
      /\ MaxHistory \in Nat
      /\ Len(history) = IF raised < MaxHistory THEN raised ELSE MaxHistory
  BY AlertsAssumption, LenProperties DEF AlertsFit, Alerts!BoundAssumption, Alerts!HistoryIsExact
<1>1. /\ history' = [i \in DOMAIN history |->
                       IF history[i].id = id THEN [history[i] EXCEPT !.acknowledged = TRUE]
                       ELSE history[i]]
      /\ acked' = acked \cup ({id} \cap {history[i].id : i \in DOMAIN history})
  BY DEF Alerts!Acknowledge
<1>2. ASSUME NEW i \in DOMAIN history
      PROVE  /\ history'[i] \in Alerts!Alert
             /\ history'[i].id = history[i].id
             /\ history'[i].acknowledged <=> history[i].acknowledged \/ history[i].id = id
  <2>1. PICK a \in Alerts!Alert : a = history[i]
    BY <1>0, ElementOfSeq
  <2>2. /\ [a EXCEPT !.acknowledged = TRUE] \in Alerts!Alert
        /\ [a EXCEPT !.acknowledged = TRUE].id = a.id
        /\ [a EXCEPT !.acknowledged = TRUE].acknowledged
    BY DEF Alerts!Alert
  <2>3. history'[i] = IF a.id = id THEN [a EXCEPT !.acknowledged = TRUE] ELSE a
    BY <1>1, <2>1
  <2>4. QED
    BY <2>1, <2>2, <2>3, Zenon
<1>3. history' \in [1..Len(history) -> Alerts!Alert]
  BY <1>0, <1>1, <1>2
<1>4. history' \in Seq(Alerts!Alert) /\ Len(history') = Len(history)
  BY <1>0, <1>3, FunctionIsSequence
<1>5. DOMAIN history' = DOMAIN history
  BY <1>1
<1>6. ASSUME NEW i \in DOMAIN history
      PROVE  /\ history'[i].id = raised - i + 1
             /\ history'[i].acknowledged <=> history'[i].id \in acked'
  <2>1. history[i].id = raised - i + 1 /\ (history[i].acknowledged <=> history[i].id \in acked)
    BY DEF AlertsFit, Alerts!HistoryIsExact
  <2>2. history[i].id \in acked' <=> history[i].id \in acked \/ history[i].id = id
    BY <1>1
  <2>3. QED
    BY <1>2, <2>1, <2>2, Zenon
<1>7. Alerts!HistoryIsExact'
  BY <1>0, <1>4, <1>5, <1>6 DEF Alerts!HistoryIsExact
<1>8. acked' \subseteq 1..raised /\ sweep' \subseteq 1..raised
  <2>1. \A i \in DOMAIN history : history[i].id = raised - i + 1
    BY DEF AlertsFit, Alerts!HistoryIsExact
  <2>2. \A i \in DOMAIN history : history[i].id \in 1..raised
    BY <1>0, <2>1
  <2>3. QED
    BY <1>0, <1>1, <2>2
<1>9. QED
  BY <1>0, <1>4, <1>7, <1>8 DEF AlertsFit

\* What the rest of the monitor keeps.
AlertsTyped ==
    /\ state \in [Names -> Alerts!Live \cup {"absent"}]
    /\ changes \in 0..MaxChanges
    /\ client \subseteq Hosts
    /\ pc \in {"waiting", "comparing", "between", "sampling", "stopped"}
    /\ seen \in [Names -> Alerts!Live \cup {Alerts!None}]
    /\ todo \subseteq Names
    /\ over \in {<<>>, <<"cpu">>, <<"memory">>, <<"cpu", "memory">>}
    /\ known \in [Names -> Alerts!Live \cup {Alerts!None}]
    /\ told \in [Names -> Alerts!Kinds \cup {Alerts!None}]
    /\ averages \subseteq Names

\* The invariant is that of the history and that of the monitor.
LEMMA AlertsSplit == AlertsInv <=> AlertsFit /\ AlertsTyped
  BY Zenon DEF AlertsInv, AlertsFit, AlertsTyped, Alerts!TypeOK

\* Every step keeps the history exact.
LEMMA AlertsFitKept ==
  ASSUME AlertsFit, AlertsTyped, Alerts!Next
  PROVE  AlertsFit'
<1> USE DEF Alerts!docker, Alerts!round, Alerts!alerts
<1>1. CASE UNCHANGED <<history, raised, acked, sweep>>
  BY <1>1 DEF AlertsFit, Alerts!HistoryIsExact
<1>2. CASE Alerts!AcknowledgeAlert
  <2>1. PICK id : Alerts!Acknowledge(id)
    BY <1>2 DEF Alerts!AcknowledgeAlert
  <2>2. UNCHANGED <<raised, sweep>>
    BY <1>2 DEF Alerts!AcknowledgeAlert
  <2>3. QED
    BY <2>1, <2>2, AcknowledgeFits
<1>3. CASE Alerts!SweepOne
  <2>1. PICK id : Alerts!Acknowledge(id) /\ sweep' = sweep \ {id}
    BY <1>3 DEF Alerts!SweepOne
  <2>2. UNCHANGED raised
    BY <1>3 DEF Alerts!SweepOne
  <2>3. QED
    BY <2>1, <2>2, AcknowledgeFits
<1>4. CASE Alerts!BeginSweep
  <2>1. sweep' \subseteq {history[i].id : i \in DOMAIN history}
        /\ UNCHANGED <<history, raised, acked>>
    BY <1>4 DEF Alerts!BeginSweep
  <2>2. /\ history \in Seq(Alerts!Alert) /\ Len(history) \in Nat /\ DOMAIN history = 1..Len(history)
        /\ raised \in Nat /\ MaxHistory \in Nat
        /\ Len(history) = IF raised < MaxHistory THEN raised ELSE MaxHistory
        /\ \A i \in DOMAIN history : history[i].id = raised - i + 1
    BY AlertsAssumption, LenProperties DEF AlertsFit, Alerts!BoundAssumption, Alerts!HistoryIsExact
  <2>3. \A i \in DOMAIN history : history[i].id \in 1..raised
    BY <2>2
  <2>4. QED
    BY <2>1, <2>3 DEF AlertsFit, Alerts!HistoryIsExact
<1>5. ASSUME NEW n \in Names, Alerts!Compare(n) PROVE AlertsFit'
  <2>1. \/ UNCHANGED <<history, raised, acked, sweep>>
        \/ \E kind \in Alerts!Kinds : Alerts!Add(kind, n)
    BY <1>5 DEF Alerts!Compare, Alerts!AlertOn, Alerts!Kinds, Alerts!None
  <2>2. QED
    BY <1>1, <2>1, AddFits
<1>6. ASSUME NEW n \in Names, Alerts!Exceed(n) PROVE AlertsFit'
  <2>1. over # <<>> /\ Alerts!Add(over[1], n)
    BY <1>6 DEF Alerts!Exceed
  <2>2. over[1] \in Alerts!Kinds
    <3>1. over \in {<<"cpu">>, <<"memory">>, <<"cpu", "memory">>}
      BY <2>1 DEF AlertsTyped
    <3>2. QED
      BY <3>1 DEF Alerts!Kinds
  <2>3. QED
    BY <2>1, <2>2, AddFits
<1>7. CASE \/ \E answering \in SUBSET client : Alerts!ListStates(answering) \/ Alerts!ListRunning(answering)
           \/ \E n \in Names : Alerts!Sample(n)
           \/ Alerts!Cleanup \/ Alerts!EndRound \/ Alerts!Stop
           \/ \E n \in Names, s \in Alerts!Live \cup {"absent"} : Alerts!Change(n, s)
           \/ \E hosts \in SUBSET Hosts : Alerts!UpdateDockerClient(hosts)
  <2>1. UNCHANGED <<history, raised, acked, sweep>>
    BY <1>7 DEF Alerts!ListStates, Alerts!ListRunning, Alerts!Sample, Alerts!Cleanup,
                Alerts!EndRound, Alerts!Stop, Alerts!Change, Alerts!UpdateDockerClient
  <2>2. QED
    BY <1>1, <2>1
<1>8. QED
  BY <1>2, <1>3, <1>4, <1>5, <1>6, <1>7 DEF Alerts!Next, Alerts!Round

\* Every step keeps what the monitor remembers typed.
LEMMA AlertsTypedKept ==
  ASSUME AlertsTyped, Alerts!Next
  PROVE  AlertsTyped'
<1> USE DEF Alerts!docker, Alerts!round, Alerts!alerts
<1>0. /\ HostOf \in [Names -> Hosts] /\ MaxChanges \in Nat
      /\ "none" \notin Alerts!Live
  BY AlertsAssumption DEF Alerts!HostAssumption, Alerts!BoundAssumption, Alerts!Live, Alerts!Down
<1>1. \A answering : Alerts!Listed(answering) \in [Names -> Alerts!Live \cup {Alerts!None}]
  BY DEF Alerts!Listed
<1>2. CASE \E answering \in SUBSET client : Alerts!ListStates(answering)
  <2>1. PICK answering : Alerts!ListStates(answering)
    BY <1>2
  <2>2. /\ pc' = "comparing" /\ seen' = Alerts!Listed(answering)
        /\ todo' = {n \in Names : seen'[n] # Alerts!None}
        /\ UNCHANGED <<state, changes, client, over, known, told, averages>>
    BY <2>1 DEF Alerts!ListStates
  <2>3. seen' \in [Names -> Alerts!Live \cup {Alerts!None}] /\ todo' \subseteq Names
    BY <1>1, <2>2
  <2>4. QED
    BY <2>2, <2>3 DEF AlertsTyped
<1>3. CASE \E answering \in SUBSET client : Alerts!ListRunning(answering)
  BY <1>3 DEF Alerts!ListRunning, AlertsTyped
<1>4. ASSUME NEW n \in Names, Alerts!Compare(n) PROVE AlertsTyped'
  <2>1. /\ todo' = todo \ {n}
        /\ known' = [known EXCEPT ![n] = seen[n]]
        /\ UNCHANGED <<state, changes, client, pc, seen, over, averages>>
    BY <1>4 DEF Alerts!Compare
  <2>2. \/ told' = told
        \/ \E alert \in Alerts!Kinds \cup {Alerts!None} : told' = [told EXCEPT ![n] = alert]
    BY <1>4 DEF Alerts!Compare, Alerts!AlertOn, Alerts!Kinds
  <2>3. known' \in [Names -> Alerts!Live \cup {Alerts!None}]
    BY <2>1 DEF AlertsTyped
  <2>4. told' \in [Names -> Alerts!Kinds \cup {Alerts!None}]
    BY <2>2 DEF AlertsTyped
  <2>5. QED
    BY <2>1, <2>3, <2>4 DEF AlertsTyped
<1>5. ASSUME NEW n \in Names, Alerts!Sample(n) PROVE AlertsTyped'
  <2>1. UNCHANGED <<state, client, pc, seen, known, told>>
    BY <1>5 DEF Alerts!Sample
  <2>2. /\ todo' \subseteq Names /\ averages' \subseteq Names
        /\ over' \in {<<>>, <<"cpu">>, <<"memory">>, <<"cpu", "memory">>}
    BY <1>5 DEF Alerts!Sample, AlertsTyped
  <2>3. changes' \in 0..MaxChanges
    <3>1. changes' = changes \/ \E k \in {0, 1, 2} : changes' = changes + k /\ changes + k <= MaxChanges
      BY <1>5 DEF Alerts!Sample
    <3>2. QED
      BY <1>0, <3>1 DEF AlertsTyped
  <2>4. QED
    BY <2>1, <2>2, <2>3 DEF AlertsTyped
<1>6. ASSUME NEW n \in Names, Alerts!Exceed(n) PROVE AlertsTyped'
  <2>1. /\ over # <<>> /\ over' = Tail(over)
        /\ todo' = IF over' = <<>> THEN todo \ {n} ELSE todo
        /\ UNCHANGED <<state, changes, client, pc, seen, known, told, averages>>
    BY <1>6 DEF Alerts!Exceed
  <2>2. over' \in {<<>>, <<"cpu">>, <<"memory">>, <<"cpu", "memory">>}
    <3>1. CASE over = <<"cpu">>
      <4>1. Tail(<<"cpu">>) = <<>>
        OBVIOUS
      <4>2. QED
        BY <2>1, <3>1, <4>1
    <3>2. CASE over = <<"memory">>
      <4>1. Tail(<<"memory">>) = <<>>
        OBVIOUS
      <4>2. QED
        BY <2>1, <3>2, <4>1
    <3>3. CASE over = <<"cpu", "memory">>
      <4>1. Tail(<<"cpu", "memory">>) = <<"memory">>
        OBVIOUS
      <4>2. QED
        BY <2>1, <3>3, <4>1
    <3>4. QED
      BY <2>1, <3>1, <3>2, <3>3 DEF AlertsTyped
  <2>3. QED
    BY <2>1, <2>2 DEF AlertsTyped
<1>7. CASE Alerts!Cleanup
  BY <1>7 DEF Alerts!Cleanup, AlertsTyped
<1>8. CASE Alerts!EndRound \/ Alerts!Stop
  BY <1>8 DEF Alerts!EndRound, Alerts!Stop, AlertsTyped
<1>9. CASE Alerts!AcknowledgeAlert \/ Alerts!BeginSweep \/ Alerts!SweepOne
  BY <1>9 DEF Alerts!AcknowledgeAlert, Alerts!BeginSweep, Alerts!SweepOne, AlertsTyped
<1>10. ASSUME NEW n \in Names, NEW s \in Alerts!Live \cup {"absent"}, Alerts!Change(n, s)
       PROVE  AlertsTyped'
  BY <1>0, <1>10 DEF Alerts!Change, AlertsTyped
<1>11. ASSUME NEW hosts \in SUBSET Hosts, Alerts!UpdateDockerClient(hosts) PROVE AlertsTyped'
  BY <1>0, <1>11 DEF Alerts!UpdateDockerClient, AlertsTyped
<1>12. QED
  BY <1>2, <1>3, <1>4, <1>5, <1>6, <1>7, <1>8, <1>9, <1>10, <1>11 DEF Alerts!Next, Alerts!Round

\* AlertMonitor keeps its invariant.
LEMMA AlertsInvariant == Alerts!Spec => []AlertsInv
<1>1. Alerts!Init => AlertsInv
  <2> SUFFICES ASSUME Alerts!Init PROVE AlertsInv
    OBVIOUS
  <2>1. MaxHistory \in Nat \ {0} /\ MaxChanges \in Nat
    BY AlertsAssumption DEF Alerts!BoundAssumption
  <2>2. history = <<>> /\ history \in Seq(Alerts!Alert) /\ Len(history) = 0
    BY EmptySeq DEF Alerts!Init
  <2>3. AlertsFit
    BY <2>1, <2>2 DEF Alerts!Init, AlertsFit, Alerts!HistoryIsExact
  <2>4. AlertsTyped
    BY <2>1 DEF Alerts!Init, AlertsTyped, Alerts!Live, Alerts!Down
  <2>5. QED
    BY <2>3, <2>4, AlertsSplit
<1>2. AlertsInv /\ [Alerts!Next]_(Alerts!vars) => AlertsInv'
  <2> SUFFICES ASSUME AlertsInv, [Alerts!Next]_(Alerts!vars) PROVE AlertsInv'
    OBVIOUS
  <2>1. AlertsFit /\ AlertsTyped
    BY AlertsSplit
  <2>2. CASE Alerts!Next
    <3>1. AlertsFit' /\ AlertsTyped'
      BY <2>1, <2>2, AlertsFitKept, AlertsTypedKept
    <3>2. QED
      BY <3>1 DEF AlertsInv, AlertsFit, AlertsTyped, Alerts!TypeOK
  <2>3. CASE UNCHANGED Alerts!vars
    BY <2>3 DEF Alerts!vars, Alerts!docker, Alerts!round, Alerts!alerts, AlertsInv,
                Alerts!TypeOK, Alerts!HistoryIsExact
  <2>4. QED
    BY <2>2, <2>3
<1>3. QED
  BY <1>1, <1>2, PTL DEF Alerts!Spec

\* The steps of the other parts leave the alerts alone.
LEMMA AlertsRun == Spec => Alerts!Spec
<1>1. Init => Alerts!Init
  BY DEF Init
<1>2. [Next]_vars => [Alerts!Next]_(Alerts!vars)
  BY DEF Next, vars, alertsVars, Alerts!vars, Alerts!docker, Alerts!round, Alerts!alerts
<1>3. QED
  BY <1>1, <1>2, PTL DEF Spec, Alerts!Spec

-----------------------------------------------------------------------------
(* Scans.  ScanJobsProofs proves more about ScanJobs; its theorems cannot be *)
(* cited of an instance, and only the types are needed here.               *)

\* A context only ever ends, for one of the two reasons.
LEMMA ScansEndType ==
  ASSUME Scans!TypeOK, NEW x, NEW why \in {"expired", "cancelled"}, Scans!End(x, why)
  PROVE  /\ ctx' \in [Scans!Ids -> {"live", "expired", "cancelled"}]
         /\ \A y \in Scans!Ids : ctx[y] # "live" => ctx'[y] = ctx[y]
         /\ x \in Scans!Ids => ctx'[x] # "live"
  BY DEF Scans!TypeOK, Scans!End

\* A step of a goroutine keeps the types of what it writes.
LEMMA ScansStepType ==
  ASSUME Scans!TypeOK, NEW x \in Scans!Ids, NEW from, NEW to \in Scans!RunState, NEW s \in Scans!Status,
         Scans!Step(x, from, to, s)
  PROVE  scanStatus' \in [Scans!Ids -> Scans!Status] /\ run' \in [Scans!Ids -> Scans!RunState]
  BY DEF Scans!TypeOK, Scans!Step

\* The handlers that start jobs keep the types.
LEMMA ScansStartType ==
  ASSUME Scans!TypeOK
  PROVE  /\ \A j \in Jobs : Scans!StartScan(j) => Scans!TypeOK'
         /\ \A b \in Bulks : \A S \in SUBSET Jobs : Scans!StartBulkScan(b, S) => Scans!TypeOK'
<1>1. ASSUME NEW j \in Jobs, Scans!StartScan(j) PROVE Scans!TypeOK'
  BY <1>1 DEF Scans!TypeOK, Scans!StartScan, Scans!Ids, Scans!Status, Scans!Active, Scans!RunState
<1>2. ASSUME NEW b \in Bulks, NEW S \in SUBSET Jobs, Scans!StartBulkScan(b, S) PROVE Scans!TypeOK'
  <2>1. bulkOf' \in [Jobs -> Bulks \cup {NoBulk}]
    BY <1>2 DEF Scans!TypeOK, Scans!StartBulkScan
  <2>2. jobs' \subseteq Scans!Ids /\ cancels' \subseteq Scans!Ids
    BY <1>2 DEF Scans!TypeOK, Scans!StartBulkScan, Scans!Ids
  <2>3. scanStatus' \in [Scans!Ids -> Scans!Status]
    BY <1>2 DEF Scans!TypeOK, Scans!StartBulkScan, Scans!Status, Scans!Active, Scans!Terminal
  <2>4. run' \in [Scans!Ids -> Scans!RunState]
    BY <1>2 DEF Scans!TypeOK, Scans!StartBulkScan, Scans!RunState
  <2>5. QED
    BY <1>2, <2>1, <2>2, <2>3, <2>4 DEF Scans!TypeOK, Scans!StartBulkScan
<1>3. QED
  BY <1>1, <1>2

\* Adding to a counter of a bulk job, if there is one, keeps the counters natural.
LEMMA ScansAddKeepsNat ==
  ASSUME NEW f \in [Bulks -> Nat], NEW b, NEW n \in Nat
  PROVE  [f EXCEPT ![b] = f[b] + n] \in [Bulks -> Nat]
<1>1. \A c \in Bulks : [f EXCEPT ![b] = f[b] + n][c] \in Nat
  <2>1. CASE b \in Bulks
    <3>1. f[b] + n \in Nat
      BY <2>1
    <3>2. QED
      BY <2>1, <3>1
  <2>2. CASE b \notin Bulks
    BY <2>2
  <2>3. QED
    BY <2>1, <2>2
<1>2. QED
  BY <1>1

\* The goroutine of a scan keeps the types.
LEMMA ScansGoroutineType ==
  ASSUME Scans!TypeOK, NEW j \in Jobs,
         Scans!Proceed(j) \/ Scans!ScanReturns(j) \/ Scans!ReadStatus(j)
  PROVE  Scans!TypeOK'
<1> USE DEF Scans!TypeOK
<1>0. j \in Scans!Ids /\ scanStatus[j] \in Scans!Status /\ scanSeen[j] \in Scans!Status /\ bulkOf[j] \in Bulks \cup {NoBulk}
  BY DEF Scans!Ids
<1>1. CASE Scans!ScanUnavailable(j) \/ Scans!PullScanner(j) \/ Scans!BeginScanning(j)
  BY <1>0, <1>1, ScansStepType
  DEF Scans!ScanUnavailable, Scans!PullScanner, Scans!BeginScanning, Scans!RunState, Scans!Status, Scans!Active, Scans!Terminal
<1>2. CASE Scans!ReadStatus(j)
  BY <1>0, <1>2, ScansStepType DEF Scans!ReadStatus, Scans!RunState, Scans!Status
<1>3. CASE Scans!WriteBack(j) \/ Scans!WriteFailure(j)
  BY <1>0, <1>3, ScansStepType DEF Scans!WriteBack, Scans!WriteFailure, Scans!RunState, Scans!Status
<1>4. CASE \/ Scans!Publish(j) \/ Scans!ReturnFromScan(j)
         \/ Scans!RemoveScanner(j) \/ Scans!ScanSucceeds(j)
  BY <1>0, <1>4, ScansStepType
  DEF Scans!Publish, Scans!ReturnFromScan, Scans!RemoveScanner, Scans!ScanSucceeds, Scans!RunState, Scans!Status, Scans!Terminal
<1>5. CASE Scans!ScanFails(j)
  BY <1>0, <1>5, ScansStepType
  DEF Scans!ScanFails, Scans!classifyScanFailure, Scans!RunState, Scans!Status, Scans!Terminal
<1>6. CASE Scans!Count(j)
  <2>1. /\ (IF scanStatus[j] = "complete" THEN 1 ELSE 0) \in Nat
        /\ (IF scanStatus[j] = "failed" THEN 1 ELSE 0) \in Nat
    OBVIOUS
  <2>2. completed' \in [Bulks -> Nat] /\ failed' \in [Bulks -> Nat]
    <3>1. PICK m \in Nat : completed' = [completed EXCEPT ![bulkOf[j]] = completed[bulkOf[j]] + m]
      BY <1>6, <2>1 DEF Scans!Count
    <3>2. PICK n \in Nat : failed' = [failed EXCEPT ![bulkOf[j]] = failed[bulkOf[j]] + n]
      BY <1>6, <2>1 DEF Scans!Count
    <3>3. QED
      BY <3>1, <3>2, ScansAddKeepsNat
  <2>3. QED
    BY <1>0, <1>6, <2>2, ScansStepType DEF Scans!Count, Scans!RunState
<1>7. QED
  BY <1>1, <1>2, <1>3, <1>4, <1>5, <1>6 DEF Scans!Proceed, Scans!ScanReturns

\* Bulk jobs and their goroutines per host keep the types.
LEMMA ScansBulkType ==
  ASSUME Scans!TypeOK, NEW b \in Bulks, Scans!BulkStep(b) \/ \E h \in Hosts : Scans!HostStep(b, h)
  PROVE  Scans!TypeOK'
<1> USE DEF Scans!TypeOK
<1>0. b \in Scans!Ids /\ scanStatus[b] \in Scans!Status
  BY DEF Scans!Ids
<1>1. CASE Scans!BeginBulk(b)
  BY <1>0, <1>1, ScansStepType DEF Scans!BeginBulk, Scans!RunState, Scans!Status, Scans!Active
<1>2. CASE Scans!FinishBulk(b) \/ Scans!ReturnFromBulk(b)
  BY <1>0, <1>2, ScansStepType DEF Scans!FinishBulk, Scans!ReturnFromBulk, Scans!RunState, Scans!Status, Scans!Terminal
<1>3. ASSUME NEW h \in Hosts, Scans!AbandonHost(b, h) \/ Scans!JoinHost(b, h) PROVE Scans!TypeOK'
  <2>1. scanLoop' = [scanLoop EXCEPT ![b][h] = "done"]
    BY <1>3 DEF Scans!AbandonHost, Scans!JoinHost
  <2>2. scanLoop' \in [Bulks -> [Hosts -> {"none", "looping", "done"}]]
    BY <2>1
  <2>3. QED
    BY <1>3, <2>2 DEF Scans!AbandonHost, Scans!JoinHost
<1>4. ASSUME NEW h \in Hosts, NEW j \in Jobs, Scans!Launch(b, h, j) PROVE Scans!TypeOK'
  BY <1>0, <1>4 DEF Scans!Launch, Scans!RunState, Scans!Ids
<1>5. QED
  BY <1>1, <1>2, <1>3, <1>4 DEF Scans!BulkStep, Scans!HostStep

\* Deadlines, the collector and CancelJob keep the types.
LEMMA ScansOutsideType ==
  ASSUME Scans!TypeOK,
         \/ \E x \in Scans!Ids : Scans!Deadline(x) \/ Scans!Collect(x)
         \/ \E k \in Cancellers : Scans!CancelStep(k) \/ (\E x \in Scans!Ids : Scans!CancelCheck(k, x))
  PROVE  Scans!TypeOK'
<1>1. ASSUME NEW x \in Scans!Ids, Scans!Deadline(x) PROVE Scans!TypeOK'
  BY <1>1, ScansEndType DEF Scans!TypeOK, Scans!Deadline
<1>2. ASSUME NEW x \in Scans!Ids, Scans!Collect(x) PROVE Scans!TypeOK'
  BY <1>2 DEF Scans!TypeOK, Scans!Collect
<1>3. ASSUME NEW k \in Cancellers, NEW x \in Scans!Ids, Scans!CancelCheck(k, x) PROVE Scans!TypeOK'
  BY <1>3 DEF Scans!TypeOK, Scans!CancelCheck
<1>4. ASSUME NEW k \in Cancellers, Scans!CancelContext(k) PROVE Scans!TypeOK'
  BY <1>4, ScansEndType DEF Scans!TypeOK, Scans!CancelContext
<1>5. ASSUME NEW k \in Cancellers, Scans!CancelMark(k) PROVE Scans!TypeOK'
  BY <1>5 DEF Scans!TypeOK, Scans!CancelMark, Scans!NoCancel, Scans!Status, Scans!Terminal
<1>6. QED
  BY <1>1, <1>2, <1>3, <1>4, <1>5 DEF Scans!CancelStep

\* Every step keeps the types.
LEMMA ScansStepKeepsType ==
  ASSUME Scans!TypeOK, [Scans!Next]_(Scans!vars)
  PROVE  Scans!TypeOK'
<1>1. CASE UNCHANGED Scans!vars
  BY <1>1 DEF Scans!TypeOK, Scans!vars
<1>2. CASE Scans!Next
  BY <1>2, ScansStartType, ScansGoroutineType, ScansBulkType, ScansOutsideType DEF Scans!Next
<1>3. QED
  BY <1>1, <1>2

\* ScanJobs keeps its types.
LEMMA ScansInvariant == Scans!Spec => []Scans!TypeOK
<1>1. Scans!Init => Scans!TypeOK
  BY DEF Scans!Init, Scans!TypeOK, Scans!Ids, Scans!Status, Scans!Active, Scans!Terminal,
         Scans!RunState, Scans!NoCancel
<1>2. Scans!TypeOK /\ [Scans!Next]_(Scans!vars) => Scans!TypeOK'
  BY ScansStepKeepsType
<1>3. QED
  BY <1>1, <1>2, PTL DEF Scans!Spec

\* The steps of the other parts leave the scans alone.
LEMMA ScansRun == Spec => Scans!Spec
<1>1. Init => Scans!Init
  BY DEF Init
<1>2. [Next]_vars => [Scans!Next]_(Scans!vars)
  BY DEF Next, vars, scansVars, Scans!vars
<1>3. QED
  BY <1>1, <1>2, PTL DEF Spec, Scans!Spec

-----------------------------------------------------------------------------
(* The properties of all nine.                                             *)

(***************************************************************************)
(* The alert history is exactly the latest alerts, acknowledged when       *)
(* somebody was told so (alerts/history.go); a command that Telegram will  *)
(* not deliver again has been handled, and none twice between two starts   *)
(* (bot/telegram.go); nor does Discord's gateway hand an interaction out   *)
(* twice (bot/discord.go).                                                 *)
(***************************************************************************)
THEOREM EachTakenOnce == Spec => []EachIsTakenOnce
<1>1. AlertsInv => Alerts!HistoryIsExact
  BY DEF AlertsInv
<1>2. TelegramInv => Telegram!ForgottenIsTaken /\ Telegram!OncePerStart
  <2> SUFFICES ASSUME TelegramInv PROVE Telegram!ForgottenIsTaken /\ Telegram!OncePerStart
    OBVIOUS
  <2>1. DOMAIN updates = 1..Len(updates)
    BY LenProperties DEF TelegramInv, Telegram!TypeOK
  <2>2. UpdatesFit
    BY DEF TelegramInv
  <2>3. Telegram!ForgottenIsTaken
    BY <2>1, <2>2 DEF UpdatesFit, Handled, Telegram!ForgottenIsTaken
  <2>4. Telegram!OncePerStart
    BY <2>2 DEF UpdatesFit, Telegram!OncePerStart
  <2>5. QED
    BY <2>3, <2>4
<1>3. DiscordInv => Discord!InteractionsAreTakenOnce
  BY DEF DiscordInv, SessionFits, Discord!InteractionsAreTakenOnce
<1>4. AlertsInv /\ TelegramInv /\ DiscordInv => EachIsTakenOnce
  BY <1>1, <1>2, <1>3 DEF EachIsTakenOnce
<1>5. QED
  BY <1>4, AlertsRun, AlertsInvariant, TelegramRun, TelegramInvariant, DiscordRun,
     DiscordInvariant, PTL

(***************************************************************************)
(* Every variable of the nine services keeps its type, however handlers    *)
(* and goroutines of each interleave: the actions on containers, the alert *)
(* monitor, the stats collector, both bots, both sockets, the settings of  *)
(* the scanner and the scans.                                              *)
(***************************************************************************)
THEOREM ServicesTyped == Spec => []TypeOK
<1>1. /\ ActionsInv /\ AlertsInv /\ Stats!TypeOK /\ TelegramInv /\ DiscordInv
      /\ Stream!TypeOK /\ TerminalInv /\ SettingsInv /\ Scans!TypeOK
      => TypeOK
  <2>1. (ActionsInv => Actions!TypeOK) /\ (SettingsInv => Settings!TypeOK)
    BY DEF ActionsInv, SettingsInv
  <2>2. (AlertsInv => Alerts!TypeOK) /\ (TelegramInv => Telegram!TypeOK)
    BY DEF AlertsInv, TelegramInv
  <2>3. (DiscordInv => Discord!TypeOK) /\ (TerminalInv => Terminal!TypeOK)
    BY DEF DiscordInv, TerminalInv
  <2>4. QED
    BY <2>1, <2>2, <2>3, Zenon DEF TypeOK
<1>2. Spec => [](ActionsInv /\ AlertsInv /\ Stats!TypeOK /\ TelegramInv /\ DiscordInv)
  BY ActionsRun, ActionsInvariant, AlertsRun, AlertsInvariant, StatsRun, StatsInvariant,
     TelegramRun, TelegramInvariant, DiscordRun, DiscordInvariant, PTL
<1>3. Spec => [](Stream!TypeOK /\ TerminalInv /\ SettingsInv /\ Scans!TypeOK)
  BY StreamRun, StreamInvariant, TerminalRun, TerminalInvariant, SettingsRun,
     SettingsInvariant, ScansRun, ScansInvariant, PTL
<1>4. QED
  BY <1>1, <1>2, <1>3, PTL
=============================================================================
