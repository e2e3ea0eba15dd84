------------------------- MODULE ConfigReloadProofs -------------------------
(***************************************************************************)
(* Proofs about ConfigReload for any hosts, environments, credentials,     *)
(* settings requests, readers and lease holders.                           *)
(*                                                                         *)
(* A reload is exclusive although the callback takes no lock of its own.   *)
(* The argument: a callback runs under the read lock, so nobody can save   *)
(* meanwhile (LockInv, which counts the read locks each position in the    *)
(* code holds); of two updates that have saved, one is the older, and it   *)
(* finds itself overtaken (OrderInv).  Hence what a callback installs step *)
(* by step is the newest configuration, and when no update is under way it *)
(* is installed everywhere (AppliedInv).                                   *)
(***************************************************************************)
EXTENDS ConfigReload, TLAPS

\* The read locks that a goroutine has asked for at a position in its code.
Wants(p) ==
    IF p \in {"idle", "locking", "merged"} THEN 0
    ELSE IF p \in {"snapshotting", "sourcing"} THEN 2
    ELSE 1

Blocked(t) == IF t \in parked THEN 1 ELSE 0

\* Every read lock asked for is held, but the one a goroutine is parked for.
LockInv ==
    /\ \A t \in Threads : depth[t] + Blocked(t) = Wants(pc[t])
    /\ \A t \in parked : pc[t] \in {"checking", "reading", "snapshotting", "sourcing"}

\* The writer is the request on its way to a save; requests are bounded.
WriterInv == \A u \in Updates :
    pc[u] = "locking" => writer = u /\ generation < MaxGeneration

\* The file, its copy in memory, and what the environment makes of it.
FileInv ==
    /\ disk = fileConfig
    /\ merged = merge(env, fileConfig)

\* Positions between an update's save and its return.
Pending == {"merged", "checking"} \cup InCallback

\* Updates are numbered in the order of their saves, a callback is the newest
\* one's, and leases are retired only while one waits for them.
OrderInv ==
    /\ \A u \in Updates : pc[u] \in Pending =>
         /\ gen[u] <= generation
         /\ gen[u] = generation => cfg[u] = merged
         /\ \A v \in Updates \ {u} : pc[v] \in Pending => gen[v] # gen[u]
    /\ \A u \in Updates : pc[u] \in InCallback => gen[u] = generation
    /\ \A u \in Updates : pc[u] \in {"sources", "sourcing"} => fc[u] = fileConfig
    /\ (\E x \in Users : lease[x] = "retired") => \E u \in Updates : pc[u] = "swapping"

DockerApplied == CanConnect(merged.hosts) => docker = merged.hosts /\ monitor = docker
CoolifyApplied == ~warned => coolify = merged.coolify
AuthApplied == auth = BootAuth(env, fileConfig)

Newest(u) == pc[u] \in Pending /\ gen[u] = generation

\* What the newest configuration has reached: everything when its update has
\* returned, and what lies behind the callback when it runs.  The auth service
\* stays as it was at the start where the callback does not touch it.
AppliedInv ==
    /\ (\A u \in Updates : ~Newest(u)) =>
         config = merged /\ services = merged /\ AuthApplied /\ DockerApplied /\ CoolifyApplied
    /\ \A u \in Updates :
         /\ pc[u] \in InCallback => config = merged
         /\ pc[u] = "swapping" => docker = merged.hosts
         /\ pc[u] \in InCallback \ {"docker", "swapping"} => DockerApplied
         /\ pc[u] \in InCallback \ {"docker", "swapping", "coolify"} => CoolifyApplied
         /\ pc[u] \in {"services", "returning"} => AuthApplied
         /\ pc[u] = "returning" => services = merged
    /\ env.auth \/ fileConfig.auth = NoAuth => AuthApplied

IInv == TypeOK /\ LockInv /\ WriterInv /\ FileInv /\ OrderInv /\ AppliedInv

-----------------------------------------------------------------------------
(* Types.                                                                  *)

MaybeHosts == SUBSET ((HostNames \cup {LocalHost}) \X {"env", "file", "default"})

\* Merging keeps the types, in every environment.
LEMMA MergeType ==
  ASSUME NEW e \in Environments, NEW file \in FileConfigs
  PROVE  merge(e, file) \in Merged
<1>1. e.hosts \subseteq HostNames
  BY EnvironmentAssumption
<1>2. file.hosts \subseteq HostNames
  BY DEF FileConfigs
<1>3. MergeHosts(e, file.hosts) \in MaybeHosts
  BY <1>1, <1>2 DEF MergeHosts, EnvFirst, MaybeHosts
<1>4. AuthSource(e, file) \in {"env", "file", "default"}
  BY DEF AuthSource
<1>5. EnvFirst(e.coolify, file.coolify) \in SUBSET (CoolifyHosts \X {"env", "file"})
  BY EnvironmentAssumption DEF FileConfigs, EnvFirst
<1>6. QED
  BY <1>3, <1>4, <1>5 DEF merge, Merged, MaybeHosts

\* The auth service a configuration asks for is one of the known ones.
LEMMA AuthType ==
  ASSUME NEW e, NEW file, NEW a
  PROVE  /\ NewServiceFromFileConfig(a) \in Credentials \cup {Off, Env}
         /\ BootAuth(e, file) \in Credentials \cup {Off, Env}
  BY DEF NewServiceFromFileConfig, BootAuth

\* What a settings request makes of the file configuration is one.
LEMMA ChangesType ==
  ASSUME TypeOK
  PROVE  HostChanges \cup CoolifyChanges \cup AuthChanges \subseteq FileConfigs
<1>1. HostChanges \subseteq FileConfigs
  BY DEF TypeOK, HostChanges, FileConfigs
<1>2. AuthChanges \subseteq FileConfigs
  BY DEF TypeOK, AuthChanges, FileConfigs
<1>3. CoolifyChanges \subseteq FileConfigs
  BY DEF TypeOK, CoolifyChanges, FileConfigs
<1>4. QED
  BY <1>1, <1>2, <1>3

\* The first start of the server gives every variable its type.
LEMMA InitType == Init => TypeOK
<1> SUFFICES ASSUME Init PROVE TypeOK
  OBVIOUS
<1>1. env \in Environments /\ disk \in FileConfigs /\ fileConfig = disk
  BY DEF Init
<1>2. merged \in Merged
  BY <1>1, MergeType DEF Init
<1>3. merged.hosts \in MaybeHosts /\ merged.coolify \in SUBSET (CoolifyHosts \X {"env", "file"})
  BY <1>2 DEF Merged, MaybeHosts
<1>4. LockType
  BY DEF Init, FreeLock, LockType
<1>5. 0 \in 0 .. MaxGeneration
  BY BoundAssumption
<1>6. QED
  BY <1>1, <1>2, <1>3, <1>4, <1>5, AuthType DEF Init, TypeOK, MaybeHosts

\* A restart does so again, whatever environment it finds.
LEMMA RestartType == TypeOK /\ Restart => TypeOK'
<1> SUFFICES ASSUME TypeOK, Restart PROVE TypeOK'
  OBVIOUS
<1>1. env' \in Environments /\ disk' \in FileConfigs /\ fileConfig' = disk'
  BY DEF TypeOK, Restart
<1>2. merged' \in Merged
  BY <1>1, MergeType DEF Restart
<1>3. merged'.hosts \in MaybeHosts /\ merged'.coolify \in SUBSET (CoolifyHosts \X {"env", "file"})
  BY <1>2 DEF Merged, MaybeHosts
<1>4. LockType'
  BY DEF Restart, LockType
<1>5. 0 \in 0 .. MaxGeneration
  BY BoundAssumption
<1>6. up' \in BOOLEAN
  BY DEF Restart, CanConnect, CoolifyMade
<1>7. QED
  BY <1>1, <1>2, <1>3, <1>4, <1>5, <1>6, AuthType DEF Restart, TypeOK, MaybeHosts

\* The lock's operations keep its types.  A depth that goes down was not zero.
LEMMA LockOperationsType ==
  ASSUME LockType, NEW t \in Threads
  PROVE  /\ Announce(t) => LockType'
         /\ Unlock(t) => LockType'
         /\ RLock(t) => LockType'
         /\ RUnlock(t) /\ depth[t] # 0 => LockType'
<1> USE DEF LockType
<1>1. Announce(t) => LockType'
  BY DEF Announce
<1>2. Unlock(t) => LockType'
  BY DEF Unlock
<1>3. RLock(t) => LockType'
  BY DEF RLock
<1>4. RUnlock(t) /\ depth[t] # 0 => LockType'
  BY DEF RUnlock
<1>5. QED
  BY <1>1, <1>2, <1>3, <1>4

\* Moving keeps the type of the positions.
LEMMA MoveType ==
  ASSUME TypeOK, NEW t \in Threads, NEW from, NEW to, Move(t, from, to),
         to \in {"idle", "locking", "merged", "checking", "reading"} \cup InCallback
  PROVE  /\ pc' \in [Threads -> {"idle", "locking", "merged", "checking", "reading"} \cup InCallback]
         /\ up' \in BOOLEAN
         /\ t \notin parked
         /\ pc[t] = from
  BY DEF TypeOK, Move

\* Every step keeps the types.  The lock's depths need the lock discipline.
LEMMA StepKeepsType ==
  ASSUME TypeOK, LockInv, WriterInv, [Next]_vars
  PROVE  TypeOK'
<1>0. /\ \A u \in Updates : u \in Threads
      /\ \A r \in Readers : r \in Threads
      /\ LockType
  BY DEF Threads, TypeOK
<1>1. CASE UNCHANGED vars
  BY <1>1 DEF TypeOK, vars, manager, mutex, locals, installed, LockType
<1>2. ASSUME NEW u \in Updates, Request(u) PROVE TypeOK'
  BY <1>0, <1>2, MoveType, LockOperationsType DEF Request, TypeOK, manager, locals, installed
<1>3. ASSUME NEW u \in Updates, Refuse(u) PROVE TypeOK'
  BY <1>0, <1>3, MoveType, LockOperationsType DEF Refuse, TypeOK, manager, locals, installed
<1>4. ASSUME NEW u \in Updates, Save(u) PROVE TypeOK'
  <2>1. fileConfig' \in FileConfigs
    BY <1>4, ChangesType DEF Save
  <2>2. merged' \in Merged
    BY <1>4, <2>1, MergeType DEF Save, TypeOK
  <2>3. generation' \in 0 .. MaxGeneration
    <3>1. generation < MaxGeneration
      BY <1>0, <1>4 DEF Save, Move, WriterInv
    <3>2. QED
      BY <1>4, <3>1, BoundAssumption DEF Save, TypeOK
  <2>4. QED
    BY <1>0, <1>4, <2>1, <2>2, <2>3, MoveType, LockOperationsType DEF Save, TypeOK, installed
<1>5. ASSUME NEW u \in Updates, EnterCallbacks(u) \/ LockAgain(u) PROVE TypeOK'
  <2>1. CASE EnterCallbacks(u)
    BY <1>0, <2>1, MoveType, LockOperationsType
    DEF EnterCallbacks, TypeOK, manager, locals, installed
  <2>2. CASE LockAgain(u)
    BY <1>0, <2>2, MoveType, LockOperationsType
    DEF LockAgain, InCallback, TypeOK, manager, locals, installed
  <2>3. QED
    BY <1>5, <2>1, <2>2
<1>6. ASSUME NEW t \in Threads, t \notin parked,
             pc[t] \in {"checking", "snapshotting", "sourcing", "returning", "reading"}
      PROVE  depth[t] # 0
  BY <1>6 DEF LockInv, Blocked, Wants, TypeOK, LockType
<1>7. ASSUME NEW u \in Updates, Overtaken(u) \/ LeaveCallbacks(u) PROVE TypeOK'
  <2>1. RUnlock(u) /\ depth[u] # 0
    BY <1>0, <1>6, <1>7 DEF Overtaken, LeaveCallbacks, Move
  <2>2. QED
    BY <1>0, <1>7, <2>1, MoveType, LockOperationsType
    DEF Overtaken, LeaveCallbacks, TypeOK, manager, locals, installed
<1>8. ASSUME NEW u \in Updates, Snapshot(u) PROVE TypeOK'
  <2>1. RUnlock(u) /\ depth[u] # 0
    BY <1>0, <1>6, <1>8 DEF Snapshot, Move
  <2>2. QED
    BY <1>0, <1>8, <2>1, MoveType, LockOperationsType
    DEF Snapshot, InCallback, TypeOK, manager, installed
<1>9. ASSUME NEW u \in Updates, SwapAuth(u) PROVE TypeOK'
  <2>1. RUnlock(u) /\ depth[u] # 0
    BY <1>0, <1>6, <1>9 DEF SwapAuth, Move
  <2>2. auth' \in Credentials \cup {Off, Env}
    BY <1>9, AuthType DEF SwapAuth, TypeOK
  <2>3. QED
    BY <1>0, <1>9, <2>1, <2>2, MoveType, LockOperationsType
    DEF SwapAuth, InCallback, TypeOK, manager, locals
<1>10. ASSUME NEW u \in Updates, BeginReload(u) \/ ConnectFails(u) \/ SwapDocker(u)
                                 \/ CloseOld(u) \/ SwapCoolify(u) \/ UpdateServices(u)
       PROVE  TypeOK'
  <2>0. cfg[u].hosts \in MaybeHosts
    BY DEF TypeOK, Merged, MaybeHosts
  <2>1. CASE BeginReload(u)
    BY <1>0, <2>1, MoveType
    DEF BeginReload, InCallback, TypeOK, LockType, manager, mutex, locals
  <2>2. CASE ConnectFails(u)
    BY <1>0, <2>2, MoveType
    DEF ConnectFails, InCallback, TypeOK, LockType, manager, mutex, locals, installed
  <2>3. CASE SwapDocker(u)
    BY <1>0, <2>0, <2>3, MoveType
    DEF SwapDocker, InCallback, TypeOK, LockType, manager, mutex, locals, MaybeHosts
  <2>4. CASE CloseOld(u)
    BY <1>0, <2>4, MoveType
    DEF CloseOld, InCallback, TypeOK, LockType, manager, mutex, locals
  <2>5. CASE UpdateServices(u)
    BY <1>0, <2>5, MoveType
    DEF UpdateServices, InCallback, TypeOK, LockType, manager, mutex, locals
  <2>6. CASE SwapCoolify(u)
    <3>1. cfg[u].coolify \in SUBSET (CoolifyHosts \X {"env", "file"})
      BY DEF TypeOK, Merged
    <3>2. coolify' \in SUBSET (CoolifyHosts \X {"env", "file"}) /\ warned' \in BOOLEAN
      BY <2>6, <3>1 DEF SwapCoolify, CoolifyMade, TypeOK
    <3>3. QED
      BY <1>0, <2>6, <3>2, MoveType
      DEF SwapCoolify, InCallback, TypeOK, LockType, manager, mutex, locals
  <2>7. QED
    BY <1>10, <2>1, <2>2, <2>3, <2>4, <2>5, <2>6
<1>11. ASSUME NEW r \in Readers, StartRead(r) \/ EndRead(r) PROVE TypeOK'
  <2>1. CASE StartRead(r)
    BY <1>0, <2>1, MoveType, LockOperationsType
    DEF StartRead, TypeOK, manager, locals, installed
  <2>2. CASE EndRead(r)
    <3>1. RUnlock(r) /\ depth[r] # 0
      BY <1>0, <1>6, <2>2 DEF EndRead, Move
    <3>2. QED
      BY <1>0, <2>2, <3>1, MoveType, LockOperationsType
      DEF EndRead, TypeOK, manager, locals, installed
  <2>3. QED
    BY <1>11, <2>1, <2>2
<1>12. ASSUME NEW x \in Users, AcquireDocker(x) \/ ReleaseDocker(x) PROVE TypeOK'
  BY <1>12 DEF AcquireDocker, ReleaseDocker, TypeOK, LockType, manager, mutex, locals, installed
<1>13. QED
  BY <1>1, <1>2, <1>3, <1>4, <1>5, <1>7, <1>8, <1>9, <1>10, <1>11, <1>12, RestartType
  DEF Next, Finish, Callback

-----------------------------------------------------------------------------
(* The lock.                                                               *)

\* Only the goroutine that moves changes its position.
LEMMA MoveEffect ==
  ASSUME TypeOK, NEW t \in Threads, NEW from, NEW to, Move(t, from, to)
  PROVE  /\ pc[t] = from
         /\ t \notin parked
         /\ \A s \in Threads : pc'[s] = IF s = t THEN to ELSE pc[s]
  BY DEF TypeOK, Move

\* A step that leaves the lock alone, between positions with as many read locks.
LEMMA LockKept ==
  ASSUME TypeOK, LockInv, NEW t \in Threads, NEW from, NEW to, Move(t, from, to),
         UNCHANGED <<depth, parked>>, Wants(to) = Wants(from)
  PROVE  LockInv'
<1>1. \A s \in Threads : pc'[s] = pc[s] \/ (s = t /\ pc[s] = from /\ pc'[s] = to /\ s \notin parked)
  BY MoveEffect
<1>2. QED
  BY <1>1 DEF LockInv, Blocked, TypeOK, LockType

\* RLock takes one read lock more, or parks for it.
LEMMA LockAfterRLock ==
  ASSUME TypeOK, LockInv, NEW t \in Threads, NEW from, NEW to, Move(t, from, to),
         RLock(t), Wants(to) = Wants(from) + 1,
         to \in {"checking", "reading", "snapshotting", "sourcing"}
  PROVE  LockInv'
<1>1. \A s \in Threads : IF s = t THEN pc[s] = from /\ pc'[s] = to /\ s \notin parked
                         ELSE pc'[s] = pc[s]
  BY MoveEffect
<1>2. \A s \in Threads : depth'[s] + Blocked(s)' = depth[s] + Blocked(s) + (IF s = t THEN 1 ELSE 0)
  <2>1. CASE depth' = [depth EXCEPT ![t] = @ + 1] /\ UNCHANGED parked
    BY <2>1 DEF TypeOK, LockType, Blocked
  <2>2. CASE parked' = parked \cup {t} /\ UNCHANGED depth
    BY <1>1, <2>2 DEF TypeOK, LockType, Blocked
  <2>3. QED
    BY <2>1, <2>2 DEF RLock
<1>3. \A s \in Threads : Wants(pc'[s]) = Wants(pc[s]) + (IF s = t THEN 1 ELSE 0)
  BY <1>1 DEF Wants
<1>4. \A s \in parked' : pc'[s] \in {"checking", "reading", "snapshotting", "sourcing"}
  BY <1>1 DEF RLock, LockInv, TypeOK, LockType
<1>5. QED
  BY <1>2, <1>3, <1>4 DEF LockInv

\* RUnlock gives one back.
LEMMA LockAfterRUnlock ==
  ASSUME TypeOK, LockInv, NEW t \in Threads, NEW from, NEW to, Move(t, from, to),
         RUnlock(t), Wants(to) = Wants(from) - 1
  PROVE  LockInv'
<1>1. \A s \in Threads : IF s = t THEN pc[s] = from /\ pc'[s] = to /\ s \notin parked
                         ELSE pc'[s] = pc[s]
  BY MoveEffect
<1>2. /\ parked' = parked
      /\ \A s \in Threads : depth'[s] = depth[s] - (IF s = t THEN 1 ELSE 0)
  BY DEF RUnlock, TypeOK, LockType
<1>3. QED
  BY <1>1, <1>2 DEF LockInv, Blocked, TypeOK, LockType

\* Unlock lets the parked readers in.
LEMMA LockAfterUnlock ==
  ASSUME TypeOK, LockInv, NEW t \in Threads, NEW from, NEW to, Move(t, from, to),
         Unlock(t), Wants(to) = Wants(from)
  PROVE  LockInv'
<1>1. \A s \in Threads : pc'[s] = pc[s] \/ (s = t /\ pc[s] = from /\ pc'[s] = to)
  BY MoveEffect
<1>2. /\ parked' = {}
      /\ \A s \in Threads : depth'[s] = IF s \in parked THEN depth[s] + 1 ELSE depth[s]
  BY DEF Unlock, TypeOK, LockType
<1>3. \A s \in Threads : depth'[s] + Blocked(s)' = depth[s] + Blocked(s)
  BY <1>2 DEF Blocked, TypeOK, LockType
<1>4. \A s \in Threads : Wants(pc'[s]) = Wants(pc[s])
  BY <1>1
<1>5. QED
  BY <1>2, <1>3, <1>4 DEF LockInv

\* Nobody runs a callback while a writer has the lock.
LEMMA WritersExcludeCallbacks ==
  ASSUME TypeOK, LockInv, NEW t \in Threads, Locked(t)
  PROVE  \A u \in Updates : pc[u] \notin InCallback
<1>1. ASSUME NEW u \in Updates, pc[u] \in InCallback PROVE FALSE
  <2>1. u \in Threads
    BY DEF Threads
  <2>2. Wants(pc[u]) = IF pc[u] \in {"snapshotting", "sourcing"} THEN 2 ELSE 1
    BY <1>1 DEF Wants, InCallback
  <2>3. Blocked(u) = IF u \in parked THEN 1 ELSE 0
    BY DEF Blocked
  <2>4. u \in parked => pc[u] \in {"snapshotting", "sourcing"}
    BY <1>1 DEF LockInv, InCallback
  <2>5. depth[u] = 0 /\ depth[u] + Blocked(u) = Wants(pc[u])
    BY <2>1 DEF LockInv, Locked
  <2>6. QED
    BY <2>2, <2>3, <2>4, <2>5
<1>2. QED
  BY <1>1

\* Starting the server, for the first time or again, leaves the lock free.
LEMMA FreeLockInv ==
  /\ Init => LockInv
  /\ Restart => LockInv'
  BY DEF Init, Restart, FreeLock, LockInv, Wants, Blocked

\* Every step keeps the lock discipline.
LEMMA StepKeepsLock ==
  ASSUME TypeOK, LockInv, [Next]_vars
  PROVE  LockInv'
<1>0. \A u \in Updates : u \in Threads
  BY DEF Threads
<1>00. \A r \in Readers : r \in Threads
  BY DEF Threads
<1>1. CASE UNCHANGED vars
  BY <1>1 DEF vars, mutex, LockInv, Blocked
<1>2. ASSUME NEW u \in Updates, Request(u) PROVE LockInv'
  BY <1>0, <1>2, LockKept DEF Request, Announce, Wants
<1>3. ASSUME NEW u \in Updates, Refuse(u) \/ Save(u) PROVE LockInv'
  BY <1>0, <1>3, LockAfterUnlock DEF Refuse, Save, Wants
<1>4. ASSUME NEW u \in Updates, EnterCallbacks(u) \/ LockAgain(u) PROVE LockInv'
  <2>1. CASE EnterCallbacks(u)
    BY <1>0, <2>1, LockAfterRLock DEF EnterCallbacks, Wants
  <2>2. CASE LockAgain(u)
    BY <1>0, <2>2, LockAfterRLock DEF LockAgain, Wants
  <2>3. QED
    BY <1>4, <2>1, <2>2
<1>5. ASSUME NEW u \in Updates, Overtaken(u) \/ Snapshot(u) \/ SwapAuth(u) \/ LeaveCallbacks(u)
      PROVE  LockInv'
  BY <1>0, <1>5, LockAfterRUnlock DEF Overtaken, Snapshot, SwapAuth, LeaveCallbacks, Wants
<1>6. ASSUME NEW u \in Updates, BeginReload(u) \/ ConnectFails(u) \/ SwapDocker(u)
                                \/ CloseOld(u) \/ SwapCoolify(u) \/ UpdateServices(u)
      PROVE  LockInv'
  BY <1>0, <1>6, LockKept
  DEF BeginReload, ConnectFails, SwapDocker, CloseOld, SwapCoolify, UpdateServices, mutex, Wants
<1>7. ASSUME NEW r \in Readers, StartRead(r) PROVE LockInv'
  BY <1>00, <1>7, LockAfterRLock DEF StartRead, Wants
<1>8. ASSUME NEW r \in Readers, EndRead(r) PROVE LockInv'
  BY <1>00, <1>8, LockAfterRUnlock DEF EndRead, Wants
<1>9. ASSUME NEW x \in Users, AcquireDocker(x) \/ ReleaseDocker(x) PROVE LockInv'
  BY <1>9 DEF AcquireDocker, ReleaseDocker, mutex, LockInv, Blocked
<1>10. QED
  BY <1>1, <1>2, <1>3, <1>4, <1>5, <1>6, <1>7, <1>8, <1>9, FreeLockInv
  DEF Next, Finish, Callback

\* Every step keeps the writer with its request.
LEMMA StepKeepsWriter ==
  ASSUME TypeOK, WriterInv, [Next]_vars
  PROVE  WriterInv'
<1>0. /\ \A u \in Updates : u \in Threads
      /\ \A r \in Readers : r \in Threads /\ r \notin Updates
      /\ NoThread \notin Threads
  BY ThreadAssumption DEF Threads
<1>1. CASE UNCHANGED vars
  BY <1>1 DEF vars, manager, mutex, WriterInv
<1>2. ASSUME NEW u \in Updates, Request(u) PROVE WriterInv'
  BY <1>0, <1>2, MoveEffect DEF Request, Announce, WriterInv, manager
<1>3. ASSUME NEW u \in Updates, Refuse(u) \/ Save(u) PROVE WriterInv'
  <2>1. pc[u] = "locking" /\ writer = u /\ \A v \in Updates : pc'[v] # "locking"
    BY <1>0, <1>3, MoveEffect DEF Refuse, Save, WriterInv
  <2>2. QED
    BY <2>1 DEF WriterInv
<1>4. ASSUME NEW t \in Threads, NEW from, NEW to, Move(t, from, to), to # "locking",
             UNCHANGED <<writer, generation>>
      PROVE  WriterInv'
  BY <1>0, <1>4, MoveEffect DEF WriterInv
<1>5. ASSUME NEW u \in Updates, EnterCallbacks(u) \/ Overtaken(u) PROVE WriterInv'
  <2>1. PICK from, to : Move(u, from, to) /\ to # "locking"
    BY <1>5 DEF EnterCallbacks, Overtaken
  <2>2. UNCHANGED <<writer, generation>>
    BY <1>5 DEF EnterCallbacks, Overtaken, RLock, RUnlock, manager
  <2>3. QED
    BY <1>0, <1>4, <2>1, <2>2
<1>6. ASSUME NEW u \in Updates, Callback(u) PROVE WriterInv'
  <2>1. PICK from, to : Move(u, from, to) /\ to # "locking"
    BY <1>6 DEF Callback, BeginReload, ConnectFails, SwapDocker, CloseOld, SwapCoolify, LockAgain,
                Snapshot, SwapAuth, UpdateServices, LeaveCallbacks
  <2>2. UNCHANGED generation
    BY <1>6 DEF Callback, BeginReload, ConnectFails, SwapDocker, CloseOld, SwapCoolify, LockAgain,
                Snapshot, SwapAuth, UpdateServices, LeaveCallbacks, manager
  <2>3. UNCHANGED writer
    BY <1>6 DEF Callback, BeginReload, ConnectFails, SwapDocker, CloseOld, SwapCoolify, LockAgain,
                Snapshot, SwapAuth, UpdateServices, LeaveCallbacks, mutex, RLock, RUnlock
  <2>4. QED
    BY <1>0, <1>4, <2>1, <2>2, <2>3
<1>7. ASSUME NEW r \in Readers, StartRead(r) \/ EndRead(r) PROVE WriterInv'
  <2>1. PICK from, to : Move(r, from, to) /\ to # "locking"
    BY <1>7 DEF StartRead, EndRead
  <2>2. UNCHANGED <<writer, generation>>
    BY <1>7 DEF StartRead, EndRead, RLock, RUnlock, manager
  <2>3. QED
    BY <1>0, <1>4, <2>1, <2>2
<1>8. ASSUME NEW x \in Users, AcquireDocker(x) \/ ReleaseDocker(x) PROVE WriterInv'
  BY <1>8 DEF AcquireDocker, ReleaseDocker, mutex, manager, WriterInv
<1>9. CASE Restart
  BY <1>0, <1>9 DEF Restart, WriterInv
<1>10. QED
  BY <1>1, <1>2, <1>3, <1>5, <1>6, <1>7, <1>8, <1>9 DEF Next, Finish

-----------------------------------------------------------------------------
(* The file, and the order of reloads.                                     *)

\* Every step keeps file and memory together: a save writes both, and merges.
LEMMA StepKeepsFile ==
  ASSUME FileInv, [Next]_vars
  PROVE  FileInv'
<1>1. CASE UNCHANGED manager
  BY <1>1 DEF manager, FileInv
<1>2. ASSUME NEW u \in Updates, Save(u) PROVE FileInv'
  BY <1>2 DEF Save, FileInv
<1>3. CASE Restart
  BY <1>3 DEF Restart, FileInv
<1>4. ASSUME NEW u \in Updates, Callback(u) PROVE UNCHANGED manager
  BY <1>4 DEF Callback, BeginReload, ConnectFails, SwapDocker, CloseOld, SwapCoolify, LockAgain,
              Snapshot, SwapAuth, UpdateServices, LeaveCallbacks
<1>5. ASSUME NEW u \in Updates, Request(u) \/ Refuse(u) \/ EnterCallbacks(u) \/ Overtaken(u)
      PROVE  UNCHANGED manager
  BY <1>5 DEF Request, Refuse, EnterCallbacks, Overtaken
<1>6. ASSUME NEW r \in Readers, StartRead(r) \/ EndRead(r) PROVE UNCHANGED manager
  BY <1>6 DEF StartRead, EndRead
<1>7. ASSUME NEW x \in Users, AcquireDocker(x) \/ ReleaseDocker(x) PROVE UNCHANGED manager
  BY <1>7 DEF AcquireDocker, ReleaseDocker
<1>8. QED
  BY <1>1, <1>2, <1>3, <1>4, <1>5, <1>6, <1>7 DEF vars, Next, Finish

\* A step that only moves its goroutine back or onwards keeps the order.
LEMMA OrderKept ==
  ASSUME OrderInv, UNCHANGED <<gen, generation, cfg, merged, fc, fileConfig>>,
         \A u \in Updates :
            /\ pc'[u] \in Pending => pc[u] \in Pending
            /\ pc'[u] \in InCallback => pc[u] \in InCallback
            /\ pc'[u] \in {"sources", "sourcing"} => pc[u] \in {"sources", "sourcing"}
            /\ pc[u] = "swapping" => pc'[u] = "swapping" \/ \A x \in Users : lease[x] # "retired",
         \A x \in Users : lease'[x] = "retired" => lease[x] = "retired"
  PROVE  OrderInv'
  BY DEF OrderInv

\* Every step keeps the order of reloads.
LEMMA StepKeepsOrder ==
  ASSUME TypeOK, LockInv, OrderInv, [Next]_vars
  PROVE  OrderInv'
<1>0. /\ \A u \in Updates : u \in Threads
      /\ \A r \in Readers : r \in Threads /\ r \notin Updates
  BY ThreadAssumption DEF Threads
<1>1. CASE UNCHANGED vars
  BY <1>1, OrderKept DEF vars, manager, locals
<1>2. ASSUME NEW u \in Updates, Request(u) \/ Refuse(u) \/ EnterCallbacks(u) \/ Overtaken(u)
      PROVE  OrderInv'
  <2>1. /\ \A v \in Updates : v # u => pc'[v] = pc[v]
        /\ \/ pc'[u] \in {"idle", "locking"}
           \/ pc[u] = "merged" /\ pc'[u] = "checking"
        /\ pc[u] # "swapping"
    BY <1>0, <1>2, MoveEffect DEF Request, Refuse, EnterCallbacks, Overtaken
  <2>2. UNCHANGED <<gen, generation, cfg, merged, fc, fileConfig, lease>>
    BY <1>2 DEF Request, Refuse, EnterCallbacks, Overtaken, manager, locals
  <2>3. QED
    BY <2>1, <2>2, OrderKept DEF Pending, InCallback
<1>3. ASSUME NEW u \in Updates, Save(u) PROVE OrderInv'
  <2>1. \A v \in Updates : pc[v] \notin InCallback
    BY <1>0, <1>3, WritersExcludeCallbacks DEF Save, Unlock
  <2>2. \A v \in Updates : IF v = u THEN pc'[v] = "merged" /\ pc[v] = "locking" ELSE pc'[v] = pc[v]
    BY <1>0, <1>3, MoveEffect DEF Save
  <2>3. /\ generation' = generation + 1 /\ generation \in Nat
        /\ \A v \in Updates : gen'[v] = IF v = u THEN generation' ELSE gen[v]
        /\ cfg'[u] = merged'
        /\ lease' = lease
    BY <1>3, BoundAssumption DEF Save, TypeOK
  <2>4. \A v \in Updates : gen[v] \in Nat
    BY BoundAssumption DEF TypeOK
  <2>5. \A x \in Users : lease[x] # "retired"
    BY <2>1 DEF OrderInv, InCallback
  <2>6. \A v \in Updates : pc'[v] \in Pending =>
            /\ gen'[v] <= generation'
            /\ gen'[v] = generation' => v = u
            /\ \A w \in Updates \ {v} : pc'[w] \in Pending => gen'[w] # gen'[v]
    BY <2>2, <2>3, <2>4 DEF OrderInv
  <2>7. \A v \in Updates : pc'[v] \notin InCallback
    BY <2>1, <2>2 DEF InCallback
  <2>8. QED
    BY <2>3, <2>5, <2>6, <2>7 DEF OrderInv, InCallback
<1>4. ASSUME NEW u \in Updates, BeginReload(u) PROVE OrderInv'
  <2>1. \A v \in Updates : IF v = u THEN pc'[v] = "docker" /\ pc[v] = "checking" ELSE pc'[v] = pc[v]
    BY <1>0, <1>4, MoveEffect DEF BeginReload
  <2>2. gen[u] = generation /\ UNCHANGED <<gen, generation, cfg, merged, fc, fileConfig, lease>>
    BY <1>4 DEF BeginReload, manager, locals
  <2>3. QED
    BY <2>1, <2>2 DEF OrderInv, Pending, InCallback
<1>5. ASSUME NEW u \in Updates, SwapDocker(u) PROVE OrderInv'
  <2>1. \A v \in Updates : IF v = u THEN pc'[v] = "swapping" /\ pc[v] = "docker" ELSE pc'[v] = pc[v]
    BY <1>0, <1>5, MoveEffect DEF SwapDocker
  <2>2. UNCHANGED <<gen, generation, cfg, merged, fc, fileConfig>>
    BY <1>5 DEF SwapDocker, manager, locals
  <2>3. QED
    BY <2>1, <2>2 DEF OrderInv, Pending, InCallback
<1>6. ASSUME NEW u \in Updates, Snapshot(u) PROVE OrderInv'
  <2>1. \A v \in Updates : IF v = u THEN pc'[v] = "sources" /\ pc[v] = "snapshotting"
                           ELSE pc'[v] = pc[v]
    BY <1>0, <1>6, MoveEffect DEF Snapshot
  <2>2. /\ UNCHANGED <<gen, generation, cfg, merged, fileConfig, lease>>
        /\ \A v \in Updates : fc'[v] = IF v = u THEN fileConfig ELSE fc[v]
    BY <1>6 DEF Snapshot, manager, TypeOK
  <2>3. QED
    BY <2>1, <2>2 DEF OrderInv, Pending, InCallback
<1>7. ASSUME NEW u \in Updates, \/ ConnectFails(u) \/ CloseOld(u) \/ SwapCoolify(u) \/ LockAgain(u)
                                \/ SwapAuth(u) \/ UpdateServices(u) \/ LeaveCallbacks(u)
      PROVE  OrderInv'
  <2>1. \A v \in Updates : v # u => pc'[v] = pc[v]
    BY <1>0, <1>7, MoveEffect
    DEF ConnectFails, CloseOld, SwapCoolify, LockAgain, SwapAuth, UpdateServices, LeaveCallbacks
  <2>2. /\ pc[u] \in InCallback
        /\ pc'[u] \in InCallback \cup {"idle"}
        /\ pc'[u] \in {"sources", "sourcing"} => pc[u] = "sources"
    BY <1>0, <1>7, MoveEffect
    DEF ConnectFails, CloseOld, SwapCoolify, LockAgain, SwapAuth, UpdateServices, LeaveCallbacks, InCallback
  <2>3. pc[u] = "swapping" => \A x \in Users : lease[x] # "retired"
    BY <1>0, <1>7, MoveEffect
    DEF ConnectFails, CloseOld, SwapCoolify, LockAgain, SwapAuth, UpdateServices, LeaveCallbacks
  <2>4. UNCHANGED <<gen, generation, cfg, merged, fc, fileConfig, lease>>
    BY <1>7 DEF ConnectFails, CloseOld, SwapCoolify, LockAgain, SwapAuth, UpdateServices, LeaveCallbacks,
                manager, locals, installed
  <2>5. QED
    BY <2>1, <2>2, <2>3, <2>4, OrderKept DEF Pending, InCallback
<1>8. ASSUME NEW r \in Readers, StartRead(r) \/ EndRead(r) PROVE OrderInv'
  <2>1. \A v \in Updates : pc'[v] = pc[v]
    BY <1>0, <1>8, MoveEffect DEF StartRead, EndRead
  <2>2. UNCHANGED <<gen, generation, cfg, merged, fc, fileConfig, lease>>
    BY <1>8 DEF StartRead, EndRead, manager, locals
  <2>3. QED
    BY <2>1, <2>2, OrderKept
<1>9. ASSUME NEW x \in Users, AcquireDocker(x) \/ ReleaseDocker(x) PROVE OrderInv'
  <2>1. \A y \in Users : lease'[y] = "retired" => lease[y] = "retired"
    BY <1>9 DEF AcquireDocker, ReleaseDocker, TypeOK
  <2>2. UNCHANGED <<pc, gen, generation, cfg, merged, fc, fileConfig>>
    BY <1>9 DEF AcquireDocker, ReleaseDocker, manager, locals
  <2>3. QED
    BY <2>1, <2>2, OrderKept
<1>10. CASE Restart
  BY <1>0, <1>10 DEF Restart, OrderInv, Pending, InCallback
<1>11. QED
  BY <1>1, <1>2, <1>3, <1>4, <1>5, <1>6, <1>7, <1>8, <1>9, <1>10 DEF Next, Finish, Callback

-----------------------------------------------------------------------------
(* What is in force.                                                       *)

\* A goroutine that moves between positions without installing anything, or
\* returns from an update that is not the newest one, keeps what is in force.
LEMMA AppliedKept ==
  ASSUME AppliedInv, UNCHANGED <<merged, env, fileConfig, gen, generation>>, UNCHANGED installed,
         \A u \in Updates :
            /\ Newest(u) => Newest(u)'
            /\ \/ pc'[u] = pc[u]
               \/ pc'[u] \notin InCallback
               \/ pc[u] = "snapshot" /\ pc'[u] = "snapshotting"
               \/ pc[u] = "sources" /\ pc'[u] = "sourcing"
  PROVE  AppliedInv'
<1>1. UNCHANGED <<config, services, AuthApplied, DockerApplied, CoolifyApplied, merged, docker>>
  BY DEF installed, AuthApplied, DockerApplied, CoolifyApplied
<1>2. \A u \in Updates :
         /\ pc'[u] \in InCallback => pc[u] \in InCallback
         /\ pc'[u] \in InCallback \ {"docker", "swapping"} =>
                pc[u] \in InCallback \ {"docker", "swapping"}
         /\ pc'[u] \in InCallback \ {"docker", "swapping", "coolify"} =>
                pc[u] \in InCallback \ {"docker", "swapping", "coolify"}
         /\ pc'[u] \in {"services", "returning", "swapping"} => pc'[u] = pc[u]
  BY DEF InCallback
<1>3. QED
  BY <1>1, <1>2 DEF AppliedInv

\* The newest update is alone, and works with the newest configuration.
LEMMA InCallbackIsNewest ==
  ASSUME OrderInv, NEW u \in Updates, pc[u] \in InCallback
  PROVE  /\ Newest(u)
         /\ cfg[u] = merged
         /\ \A v \in Updates \ {u} : ~Newest(v) /\ pc[v] \notin InCallback
<1>1. gen[u] = generation /\ pc[u] \in Pending
  BY DEF OrderInv, Pending
<1>2. \A v \in Updates \ {u} : pc[v] \in Pending => gen[v] # generation
  BY <1>1 DEF OrderInv
<1>3. QED
  BY <1>1, <1>2 DEF OrderInv, Newest, Pending

\* A save starts a newest update with nothing of it in force yet, except that
\* the auth service stays right where the callback will not touch it.
LEMMA SaveKeepsApplied ==
  ASSUME TypeOK, LockInv, AppliedInv, NEW u \in Updates, Save(u)
  PROVE  AppliedInv'
<1>0. u \in Threads /\ \A v \in Updates : v \in Threads
  BY DEF Threads
<1>1. \A v \in Updates : pc[v] \notin InCallback
  BY <1>0, WritersExcludeCallbacks DEF Save, Unlock
<1>2. \A v \in Updates : pc'[v] \notin InCallback
  BY <1>0, <1>1, MoveEffect DEF Save, InCallback
<1>3. Newest(u)'
  BY <1>0, MoveEffect DEF Save, Newest, Pending, TypeOK
<1>4. ASSUME env'.auth \/ fileConfig'.auth = NoAuth PROVE AuthApplied'
  <2>1. env' = env /\ auth' = auth /\ fileConfig' \in HostChanges \cup CoolifyChanges \cup AuthChanges
    BY DEF Save, installed
  <2>2. fileConfig'.auth = NoAuth => fileConfig'.auth = fileConfig.auth
    <3>1. CASE fileConfig' \in HostChanges
      BY <3>1 DEF HostChanges, TypeOK, FileConfigs
    <3>2. CASE fileConfig' \in AuthChanges
      BY <3>2, CredentialAssumption DEF AuthChanges, TypeOK, FileConfigs, Off, NoAuth
    <3>3. CASE fileConfig' \in CoolifyChanges
      BY <3>3 DEF CoolifyChanges, TypeOK, FileConfigs
    <3>4. QED
      BY <2>1, <3>1, <3>2, <3>3
  <2>3. QED
    BY <1>4, <2>1, <2>2 DEF AppliedInv, AuthApplied, BootAuth
<1>5. QED
  BY <1>2, <1>3, <1>4 DEF AppliedInv, InCallback

\* The callback brings the newest configuration into force, part by part.
LEMMA CallbackKeepsApplied ==
  ASSUME TypeOK, FileInv, OrderInv, AppliedInv, NEW u \in Updates, Callback(u)
  PROVE  AppliedInv'
<1>0. u \in Threads /\ \A v \in Updates : v \in Threads
  BY DEF Threads
<1>1. CASE LockAgain(u)
  <2>1. \A v \in Updates : \/ pc'[v] = pc[v]
                           \/ pc[v] = "snapshot" /\ pc'[v] = "snapshotting"
                           \/ pc[v] = "sources" /\ pc'[v] = "sourcing"
    BY <1>0, <1>1, MoveEffect DEF LockAgain
  <2>2. UNCHANGED <<merged, env, fileConfig, gen, generation>> /\ UNCHANGED installed
    BY <1>1 DEF LockAgain, manager, locals
  <2>3. QED
    BY <2>1, <2>2, AppliedKept DEF Newest, Pending, InCallback
<1>2. CASE BeginReload(u)
  <2>1. /\ pc[u] = "checking" /\ pc'[u] = "docker"
        /\ \A v \in Updates : v # u => pc'[v] = pc[v]
    BY <1>0, <1>2, MoveEffect DEF BeginReload
  <2>2. /\ gen[u] = generation /\ config' = cfg[u]
        /\ UNCHANGED <<merged, env, fileConfig, gen, generation, docker, coolify, warned, auth,
                       monitor, services>>
    BY <1>2 DEF BeginReload, manager, locals
  <2>3. cfg[u] = merged /\ Newest(u)'
    BY <2>1, <2>2 DEF OrderInv, Newest, Pending, InCallback
  <2>4. \A v \in Updates \ {u} : pc[v] \notin InCallback
    BY <2>1, <2>2 DEF OrderInv, Pending
  <2>5. UNCHANGED <<AuthApplied, DockerApplied, CoolifyApplied>>
    BY <2>2 DEF AuthApplied, DockerApplied, CoolifyApplied
  <2>6. QED
    BY <2>1, <2>2, <2>3, <2>4, <2>5 DEF AppliedInv, InCallback
<1>3. ASSUME pc[u] \in InCallback, pc'[u] \in InCallback,
             \A v \in Updates : v # u => pc'[v] = pc[v],
             UNCHANGED <<merged, env, fileConfig, gen, generation>>,
             config' = merged,
             pc'[u] = "swapping" => docker' = merged.hosts,
             pc'[u] \notin {"docker", "swapping"} => DockerApplied',
             pc'[u] \notin {"docker", "swapping", "coolify"} => CoolifyApplied',
             pc'[u] \in {"services", "returning"} => AuthApplied',
             pc'[u] = "returning" => services' = merged,
             env.auth \/ fileConfig.auth = NoAuth => AuthApplied'
      PROVE  AppliedInv'
  <2>1. Newest(u)'
    BY <1>3, InCallbackIsNewest DEF Newest, Pending
  <2>2. \A v \in Updates \ {u} : pc'[v] \notin InCallback
    BY <1>3, InCallbackIsNewest
  <2>3. QED
    BY <1>3, <2>1, <2>2 DEF AppliedInv, InCallback
<1>4. CASE ConnectFails(u)
  <2>1. /\ pc[u] = "docker" /\ pc'[u] = "coolify"
        /\ \A v \in Updates : v # u => pc'[v] = pc[v]
    BY <1>0, <1>4, MoveEffect DEF ConnectFails
  <2>2. /\ ~CanConnect(cfg[u].hosts)
        /\ UNCHANGED <<merged, env, fileConfig, gen, generation, config, docker, coolify,
                       warned, auth, monitor, services>>
    BY <1>4 DEF ConnectFails, manager, locals, installed
  <2>3. DockerApplied' /\ UNCHANGED AuthApplied
    BY <2>1, <2>2, InCallbackIsNewest DEF DockerApplied, CoolifyApplied, AuthApplied, InCallback
  <2>4. QED
    BY <1>3, <2>1, <2>2, <2>3 DEF AppliedInv, InCallback
<1>5. CASE SwapDocker(u)
  <2>1. /\ pc[u] = "docker" /\ pc'[u] = "swapping"
        /\ \A v \in Updates : v # u => pc'[v] = pc[v]
    BY <1>0, <1>5, MoveEffect DEF SwapDocker
  <2>2. /\ docker' = cfg[u].hosts
        /\ UNCHANGED <<merged, env, fileConfig, gen, generation, config, coolify, warned, auth, services>>
    BY <1>5 DEF SwapDocker, manager, locals
  <2>3. docker' = merged.hosts /\ UNCHANGED AuthApplied
    BY <2>1, <2>2, InCallbackIsNewest DEF AuthApplied, InCallback
  <2>4. QED
    BY <1>3, <2>1, <2>2, <2>3 DEF AppliedInv, InCallback
<1>6. CASE CloseOld(u)
  <2>1. /\ pc[u] = "swapping" /\ pc'[u] = "coolify"
        /\ \A v \in Updates : v # u => pc'[v] = pc[v]
    BY <1>0, <1>6, MoveEffect DEF CloseOld
  <2>2. /\ monitor' = docker
        /\ UNCHANGED <<merged, env, fileConfig, gen, generation, config, docker, coolify, warned, auth,
                       services>>
    BY <1>6 DEF CloseOld, manager, locals
  <2>3. DockerApplied' /\ UNCHANGED AuthApplied
    BY <2>1, <2>2 DEF AppliedInv, DockerApplied, AuthApplied
  <2>4. QED
    BY <1>3, <2>1, <2>2, <2>3 DEF AppliedInv, InCallback
<1>7. CASE Snapshot(u)
  <2>1. /\ pc[u] = "snapshotting" /\ pc'[u] = "sources"
        /\ \A v \in Updates : v # u => pc'[v] = pc[v]
    BY <1>0, <1>7, MoveEffect DEF Snapshot
  <2>2. UNCHANGED <<merged, env, fileConfig, gen, generation, config, docker, coolify,
                    warned, auth, monitor, services>>
    BY <1>7 DEF Snapshot, manager, installed
  <2>3. UNCHANGED <<DockerApplied, CoolifyApplied, AuthApplied>>
    BY <2>2 DEF DockerApplied, CoolifyApplied, AuthApplied
  <2>4. QED
    BY <1>3, <2>1, <2>2, <2>3 DEF AppliedInv, InCallback
<1>8. CASE SwapAuth(u)
  <2>1. /\ pc[u] = "sourcing" /\ pc'[u] = "services"
        /\ \A v \in Updates : v # u => pc'[v] = pc[v]
    BY <1>0, <1>8, MoveEffect DEF SwapAuth
  <2>2. /\ auth' = IF merged.authSource = "file" /\ fc[u].auth # NoAuth
                   THEN NewServiceFromFileConfig(fc[u].auth) ELSE auth
        /\ UNCHANGED <<merged, env, fileConfig, gen, generation, config, docker, coolify, warned,
                       monitor, services>>
    BY <1>8 DEF SwapAuth, manager, locals
  <2>3. fc[u] = fileConfig /\ merged.authSource = AuthSource(env, fileConfig)
    BY <2>1 DEF OrderInv, FileInv, merge
  <2>4. AuthApplied'
    <3>1. CASE env.auth \/ fileConfig.auth = NoAuth
      <4>1. merged.authSource # "file" \/ fc[u].auth = NoAuth
        BY <2>3, <3>1 DEF AuthSource
      <4>2. QED
        BY <2>2, <3>1, <4>1 DEF AppliedInv, AuthApplied
    <3>2. CASE ~env.auth /\ fileConfig.auth # NoAuth
      <4>1. merged.authSource = "file"
        BY <2>3, <3>2 DEF AuthSource
      <4>2. QED
        BY <2>2, <2>3, <3>2, <4>1 DEF AuthApplied, BootAuth
    <3>3. QED
      BY <3>1, <3>2
  <2>5. UNCHANGED <<DockerApplied, CoolifyApplied>>
    BY <2>2 DEF DockerApplied, CoolifyApplied
  <2>6. QED
    BY <1>3, <2>1, <2>2, <2>4, <2>5 DEF AppliedInv, InCallback
<1>9. CASE UpdateServices(u)
  <2>1. /\ pc[u] = "services" /\ pc'[u] = "returning"
        /\ \A v \in Updates : v # u => pc'[v] = pc[v]
    BY <1>0, <1>9, MoveEffect DEF UpdateServices
  <2>2. /\ services' = cfg[u]
        /\ UNCHANGED <<merged, env, fileConfig, gen, generation, config, docker, coolify, warned, auth,
                       monitor>>
    BY <1>9 DEF UpdateServices, manager, locals
  <2>3. UNCHANGED <<DockerApplied, CoolifyApplied, AuthApplied>> /\ services' = merged
    BY <2>1, <2>2, InCallbackIsNewest DEF DockerApplied, CoolifyApplied, AuthApplied, InCallback
  <2>4. QED
    BY <1>3, <2>1, <2>2, <2>3 DEF AppliedInv, InCallback
<1>10. CASE LeaveCallbacks(u)
  <2>1. /\ pc[u] = "returning" /\ pc'[u] = "idle"
        /\ \A v \in Updates : v # u => pc'[v] = pc[v]
    BY <1>0, <1>10, MoveEffect DEF LeaveCallbacks
  <2>2. UNCHANGED <<merged, env, fileConfig, gen, generation, config, docker, coolify,
                    warned, auth, monitor, services>>
    BY <1>10 DEF LeaveCallbacks, manager, locals, installed
  <2>3. UNCHANGED <<DockerApplied, CoolifyApplied, AuthApplied>>
    BY <2>2 DEF DockerApplied, CoolifyApplied, AuthApplied
  <2>4. \A v \in Updates : pc'[v] \notin InCallback
    BY <2>1, InCallbackIsNewest DEF InCallback
  <2>5. config = merged /\ services = merged /\ AuthApplied /\ DockerApplied /\ CoolifyApplied
    BY <2>1 DEF AppliedInv, InCallback
  <2>6. QED
    BY <2>2, <2>3, <2>4, <2>5 DEF AppliedInv, InCallback
<1>11. CASE SwapCoolify(u)
  <2>1. /\ pc[u] = "coolify" /\ pc'[u] = "snapshot"
        /\ \A v \in Updates : v # u => pc'[v] = pc[v]
    BY <1>0, <1>11, MoveEffect DEF SwapCoolify
  <2>2. /\ warned' \/ coolify' = cfg[u].coolify
        /\ UNCHANGED <<merged, env, fileConfig, gen, generation, config, docker, auth, monitor,
                       services>>
    BY <1>11 DEF SwapCoolify, CoolifyMade, manager, locals
  <2>3. CoolifyApplied' /\ UNCHANGED <<DockerApplied, AuthApplied>>
    BY <2>1, <2>2, InCallbackIsNewest DEF CoolifyApplied, DockerApplied, AuthApplied, InCallback
  <2>4. QED
    BY <1>3, <2>1, <2>2, <2>3 DEF AppliedInv, InCallback
<1>12. QED
  BY <1>1, <1>2, <1>4, <1>5, <1>6, <1>7, <1>8, <1>9, <1>10, <1>11 DEF Callback

\* Every step keeps what is in force.
LEMMA StepKeepsApplied ==
  ASSUME TypeOK, LockInv, FileInv, OrderInv, AppliedInv, [Next]_vars
  PROVE  AppliedInv'
<1>0. /\ \A u \in Updates : u \in Threads
      /\ \A r \in Readers : r \in Threads /\ r \notin Updates
  BY ThreadAssumption DEF Threads
<1>1. CASE UNCHANGED vars
  <2>1. UNCHANGED <<merged, env, fileConfig, gen, generation, pc>> /\ UNCHANGED installed
    BY <1>1 DEF vars, manager, locals
  <2>2. QED
    BY <2>1, AppliedKept DEF Newest
<1>2. ASSUME NEW u \in Updates, Request(u) \/ Refuse(u) \/ EnterCallbacks(u) \/ Overtaken(u)
      PROVE  AppliedInv'
  <2>1. /\ \A v \in Updates : v # u => pc'[v] = pc[v]
        /\ pc'[u] \in {"idle", "locking", "checking"}
        /\ Newest(u) => pc'[u] = "checking"
    BY <1>0, <1>2, MoveEffect DEF Request, Refuse, EnterCallbacks, Overtaken, Newest, Pending, InCallback
  <2>2. UNCHANGED <<merged, env, fileConfig, gen, generation>> /\ UNCHANGED installed
    BY <1>2 DEF Request, Refuse, EnterCallbacks, Overtaken, manager, locals
  <2>3. QED
    BY <2>1, <2>2, AppliedKept DEF Newest, Pending, InCallback
<1>3. ASSUME NEW u \in Updates, Save(u) \/ Callback(u) PROVE AppliedInv'
  BY <1>3, SaveKeepsApplied, CallbackKeepsApplied
<1>4. ASSUME NEW r \in Readers, StartRead(r) \/ EndRead(r) PROVE AppliedInv'
  <2>1. \A v \in Updates : pc'[v] = pc[v]
    BY <1>0, <1>4, MoveEffect DEF StartRead, EndRead
  <2>2. UNCHANGED <<merged, env, fileConfig, gen, generation>> /\ UNCHANGED installed
    BY <1>4 DEF StartRead, EndRead, manager, locals
  <2>3. QED
    BY <2>1, <2>2, AppliedKept DEF Newest
<1>5. ASSUME NEW x \in Users, AcquireDocker(x) \/ ReleaseDocker(x) PROVE AppliedInv'
  <2>1. UNCHANGED <<merged, env, fileConfig, gen, generation, pc>> /\ UNCHANGED installed
    BY <1>5 DEF AcquireDocker, ReleaseDocker, manager, locals
  <2>2. QED
    BY <2>1, AppliedKept DEF Newest
<1>6. CASE Restart
  BY <1>0, <1>6 DEF Restart, AppliedInv, DockerApplied, CoolifyApplied, AuthApplied, InCallback
<1>7. QED
  BY <1>1, <1>2, <1>3, <1>4, <1>5, <1>6 DEF Next, Finish

-----------------------------------------------------------------------------
\* A server that starts satisfies the invariant.
THEOREM InitIInv == Init => IInv
<1> SUFFICES ASSUME Init PROVE IInv
  OBVIOUS
<1>0. \A u \in Updates : pc[u] = "idle"
  BY DEF Init, Threads
<1>1. WriterInv /\ FileInv
  BY <1>0 DEF Init, WriterInv, FileInv
<1>2. OrderInv
  BY <1>0 DEF Init, OrderInv, Pending, InCallback
<1>3. AppliedInv
  BY <1>0 DEF Init, AppliedInv, DockerApplied, CoolifyApplied, AuthApplied, InCallback
<1>4. QED
  BY <1>1, <1>2, <1>3, InitType, FreeLockInv DEF IInv

\* The invariant holds in every state a behaviour reaches.
THEOREM Invariance == Spec => []IInv
<1>1. IInv /\ [Next]_vars => IInv'
  BY StepKeepsType, StepKeepsLock, StepKeepsWriter, StepKeepsFile, StepKeepsOrder,
     StepKeepsApplied DEF IInv
<1>2. QED
  BY <1>1, InitIInv, PTL DEF Spec

\* The Manager, its lock and what is installed keep their types.
THEOREM TypeCorrect == Spec => []TypeOK
<1>1. IInv => TypeOK
  BY DEF IInv
<1>2. QED
  BY <1>1, Invariance, PTL

\* File, memory and merged configuration agree, and the environment wins
\* (manager.go:176-193, 632-691).
THEOREM FilesMatch == Spec => []FileMatchesManager
<1>1. ASSUME IInv PROVE FileMatchesManager
  <2>1. disk = fileConfig /\ merged.hosts = MergeHosts(env, disk.hosts)
    BY <1>1 DEF IInv, FileInv, merge
  <2>2. ASSUME NEW n \in env.hosts, <<n, "file">> \in merged.hosts PROVE FALSE
    BY <2>1, <2>2 DEF MergeHosts, EnvFirst
  <2>3. QED
    BY <2>1, <2>2 DEF FileMatchesManager
<1>2. QED
  BY <1>1, Invariance, PTL

\* At most one callback runs, with the newest configuration and on what belongs
\* to it (manager.go:632-650, main.go:153-200).
THEOREM ReloadsExclusive == Spec => []ReloadsAreExclusive
<1>1. ASSUME IInv PROVE ReloadsAreExclusive
  <2> SUFFICES ASSUME NEW u \in Updates, pc[u] \in InCallback
               PROVE  /\ gen[u] = generation
                      /\ cfg[u] = merged
                      /\ pc[u] \in {"sources", "sourcing"} => fc[u] = fileConfig
                      /\ pc[u] = "docker" => \A x \in Users : lease[x] # "retired"
                      /\ \A v \in Updates \ {u} : pc[v] \notin InCallback
    BY DEF ReloadsAreExclusive
  <2>1. OrderInv
    BY <1>1 DEF IInv
  <2>2. cfg[u] = merged /\ \A v \in Updates \ {u} : pc[v] \notin InCallback
    BY <2>1, InCallbackIsNewest
  <2>3. pc[u] = "docker" => \A x \in Users : lease[x] # "retired"
    BY <2>1, <2>2 DEF OrderInv, InCallback
  <2>4. QED
    BY <2>1, <2>2, <2>3 DEF OrderInv
<1>2. QED
  BY <1>1, Invariance, PTL

\* When no update is between its save and its return the newest configuration
\* is in force everywhere (manager.go:640-650, main.go:153-200).
THEOREM SettledApplied == Spec => []SettledIsApplied
<1>1. ASSUME IInv, \A u \in Updates : pc[u] \in {"idle", "locking"}
      PROVE  config = merged /\ services = merged /\ AuthApplied /\ DockerApplied /\ CoolifyApplied
  BY <1>1 DEF IInv, AppliedInv, Newest, Pending, InCallback
<1>2. IInv => SettledIsApplied
  BY <1>1 DEF SettledIsApplied, AuthApplied, DockerApplied, CoolifyApplied
<1>3. QED
  BY <1>2, Invariance, PTL
=============================================================================
