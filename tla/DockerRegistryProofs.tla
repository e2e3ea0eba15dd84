------------------------ MODULE DockerRegistryProofs ------------------------
(***************************************************************************)
(* Proofs about DockerRegistry for any number of clients, leasing          *)
(* goroutines and SwapDocker calls.                                        *)
(*                                                                         *)
(* LeaseKeepsClientOpen is not inductive.  It needs that a SwapDocker call *)
(* past its wait belongs to a client without leases, which in turn needs   *)
(* the count in the map to be exact, every entry of dockerWaiters to lead  *)
(* to the call that waits, and clients that are not created yet to have no *)
(* leases.  IInv is the conjunction of these.                              *)
(***************************************************************************)
EXTENDS DockerRegistry, FiniteSetTheorems, TLAPS

\* Every entry of dockerWaiters leads to a parked call, and only there.
WaitersPark ==
    \A c \in DOMAIN dockerWaiters :
        /\ swap[dockerWaiters[c]].pc = "waiting"
        /\ swap[dockerWaiters[c]].old = c
        /\ c # docker
        /\ c \notin unused
        /\ c \notin closed
        /\ Holders(c) # {}

ParkedHaveEntry ==
    \A s \in Swappers : swap[s].pc = "waiting" =>
        /\ swap[s].old \in DOMAIN dockerWaiters
        /\ dockerWaiters[swap[s].old] = s

\* A woken call owns a drained client that is neither current nor closed.
WokenAreDrained ==
    \A s \in Swappers : swap[s].pc = "woken" =>
        /\ swap[s].old \in Clients
        /\ Holders(swap[s].old) = {}
        /\ swap[s].old # docker
        /\ swap[s].old \notin unused
        /\ swap[s].old \notin closed

WokenAreAlone ==
    \A s, t \in Swappers :
        /\ swap[s].pc = "woken"
        /\ swap[t].pc = "woken"
        /\ swap[s].old = swap[t].old
        => s = t

\* A client that is neither current nor closed is some call's to close.
NothingLeaks ==
    \A c \in Clients \ unused :
        c # docker /\ c \notin closed =>
            \E s \in Swappers : swap[s].pc # "idle" /\ swap[s].old = c

ClosedAreDrained ==
    \A c \in closed : Holders(c) = {} /\ c # docker /\ c \notin unused

UnusedAreUnknown ==
    /\ docker \notin unused
    /\ \A c \in unused : c \notin DOMAIN dockerRefs /\ Holders(c) = {}

IInv ==
    /\ TypeOK
    /\ CountsAreExact
    /\ WaitersPark
    /\ ParkedHaveEntry
    /\ WokenAreDrained
    /\ WokenAreAlone
    /\ NothingLeaks
    /\ ClosedAreDrained
    /\ UnusedAreUnknown

-----------------------------------------------------------------------------
\* The goroutines that hold a lease on a client are finitely many.
LEMMA HoldersFinite == \A c : IsFiniteSet(Holders(c))
  BY UsersAssumption, FS_Subset DEF Holders

\* A count of zero is the same as nobody holding the client.
LEMMA CountZero ==
  ASSUME IInv, NEW c \in Clients
  PROVE  Count(c) = 0 <=> Holders(c) = {}
  BY HoldersFinite, FS_EmptySet DEF IInv, CountsAreExact

\* The count read for a client is a natural number, the one 0 of a map without entry.
LEMMA CountType ==
  ASSUME TypeOK, NEW c \in Clients
  PROVE  Count(c) \in Nat
  BY DEF TypeOK, Count

\* The registry that NewRegistry returns satisfies the invariant.
THEOREM InitIInv == Init => IInv
<1> SUFFICES ASSUME Init PROVE IInv
  OBVIOUS
<1> USE DEF Init
<1>1. \A c \in Clients : Holders(c) = {}
  BY NoClientAssumption DEF Holders, Lease
<1>2. TypeOK
  <2>1. DOMAIN dockerRefs \subseteq Clients
    BY DEF MaybeClient
  <2>2. dockerRefs \in [DOMAIN dockerRefs -> Nat]
    OBVIOUS
  <2>3. DOMAIN dockerWaiters \subseteq Clients
    OBVIOUS
  <2>4. dockerWaiters \in [DOMAIN dockerWaiters -> Swappers]
    OBVIOUS
  <2>5. swap \in [Swappers -> SwapState]
    BY DEF SwapState, Idle, MaybeClient
  <2>6. QED
    BY <2>1, <2>2, <2>3, <2>4, <2>5 DEF TypeOK, MaybeClient
<1>3. CountsAreExact
  BY <1>1, FS_EmptySet DEF CountsAreExact, Count
<1>4. WaitersPark
  BY DEF WaitersPark
<1>5. ParkedHaveEntry /\ WokenAreDrained /\ WokenAreAlone
  BY DEF ParkedHaveEntry, WokenAreDrained, WokenAreAlone, Idle
<1>6. ClosedAreDrained
  BY DEF ClosedAreDrained
<1>7. UnusedAreUnknown
  BY <1>1 DEF UnusedAreUnknown, MaybeClient
<1>8. NothingLeaks
  BY DEF NothingLeaks
<1>9. QED
  BY <1>2, <1>3, <1>4, <1>5, <1>6, <1>7, <1>8 DEF IInv

-----------------------------------------------------------------------------
(* How each step of a leasing goroutine changes the holders of a client.   *)

\* AcquireDocker makes its caller a holder of the client it returns, no other.
LEMMA HoldersAfterAcquire ==
  ASSUME TypeOK, NEW u \in Users, NEW c, AcquireDocker(u), docker = c
  PROVE  /\ c \in Clients
         /\ u \notin Holders(c)
         /\ Holders(c)' = Holders(c) \cup {u}
         /\ \A d \in Clients \ {c} : Holders(d)' = Holders(d)
  BY NoClientAssumption DEF TypeOK, MaybeClient, AcquireDocker, Holders, Lease

\* The first release of a lease takes its goroutine off the holders, no other.
LEMMA HoldersAfterRelease ==
  ASSUME TypeOK, NEW u \in Users, NEW c, Release(u), ~once[u], held[u] = c
  PROVE  /\ c \in Clients
         /\ u \in Holders(c)
         /\ Holders(c)' = Holders(c) \ {u}
         /\ \A d \in Clients \ {c} : Holders(d)' = Holders(d)
  BY NoClientAssumption DEF TypeOK, MaybeClient, Release, Holders, Lease

\* Dropping a released closure changes nobody's holders.
LEMMA HoldersAfterForget ==
  ASSUME TypeOK, NEW u \in Users, Forget(u)
  PROVE  \A c \in Clients : Holders(c)' = Holders(c)
  BY NoClientAssumption DEF TypeOK, MaybeClient, Forget, Holders, Lease

\* Who holds what depends on nothing but the leases.
LEMMA HoldersUnchanged ==
  ASSUME held' = held, once' = once
  PROVE  \A c : Holders(c)' = Holders(c)
  BY DEF Holders, Lease

\* A step that changes nothing keeps the invariant.
LEMMA StutterKeepsIInv ==
  ASSUME IInv, UNCHANGED vars
  PROVE  IInv'
<1>1. \A c : Holders(c)' = Holders(c)
  BY HoldersUnchanged DEF vars
<1>2. TypeOK' /\ CountsAreExact'
  BY <1>1 DEF vars, IInv, TypeOK, CountsAreExact, Count
<1>3. WaitersPark'
  BY <1>1 DEF vars, IInv, WaitersPark
<1>4. ParkedHaveEntry' /\ WokenAreAlone' /\ NothingLeaks'
  BY DEF vars, IInv, ParkedHaveEntry, WokenAreAlone, NothingLeaks
<1>5. WokenAreDrained'
  BY <1>1 DEF vars, IInv, WokenAreDrained
<1>6. ClosedAreDrained' /\ UnusedAreUnknown'
  BY <1>1 DEF vars, IInv, ClosedAreDrained, UnusedAreUnknown
<1>7. QED
  BY <1>2, <1>3, <1>4, <1>5, <1>6 DEF IInv

-----------------------------------------------------------------------------
\* AcquireDocker (registry.go:54-64) keeps the invariant.
LEMMA AcquireKeepsIInv ==
  ASSUME IInv, NEW u \in Users, NEW c, AcquireDocker(u), docker = c
  PROVE  IInv'
<1>1. TypeOK
  BY DEF IInv
<1>2. /\ c \in Clients
      /\ u \notin Holders(c)
      /\ Holders(c)' = Holders(c) \cup {u}
      /\ \A d \in Clients \ {c} : Holders(d)' = Holders(d)
  BY <1>1, HoldersAfterAcquire
<1>3. Count(c) \in Nat
  BY <1>1, <1>2, CountType
<1>4. TypeOK'
  BY <1>1, <1>2, <1>3 DEF AcquireDocker, TypeOK, Put, MaybeClient
<1>5. /\ Count(c)' = Count(c) + 1
      /\ \A d \in Clients \ {c} : Count(d)' = Count(d)
  BY <1>2 DEF AcquireDocker, Count, Put
<1>6. CountsAreExact'
  <2>1. Cardinality(Holders(c))' = Cardinality(Holders(c)) + 1
    BY <1>2, HoldersFinite, FS_AddElement
  <2>2. QED
    BY <1>2, <1>5, <2>1 DEF IInv, CountsAreExact
<1>7. WaitersPark'
  BY <1>1, <1>2 DEF AcquireDocker, IInv, WaitersPark, TypeOK
<1>8. ParkedHaveEntry'
  BY DEF AcquireDocker, IInv, ParkedHaveEntry
<1>9. WokenAreDrained'
  BY <1>2 DEF AcquireDocker, IInv, WokenAreDrained
<1>10. ClosedAreDrained'
  BY <1>1, <1>2 DEF AcquireDocker, IInv, ClosedAreDrained, TypeOK
<1>11. UnusedAreUnknown'
  BY <1>1, <1>2 DEF AcquireDocker, IInv, UnusedAreUnknown, TypeOK, Put
<1>12. WokenAreAlone' /\ NothingLeaks'
  BY DEF AcquireDocker, IInv, WokenAreAlone, NothingLeaks
<1>13. QED
  BY <1>4, <1>6, <1>7, <1>8, <1>9, <1>10, <1>11, <1>12 DEF IInv

\* A release that is not the closure's first changes nothing.
LEMMA SecondReleaseStutters ==
  ASSUME TypeOK, NEW u \in Users, Release(u), once[u]
  PROVE  UNCHANGED vars
  BY DEF TypeOK, Release, vars

\* The first call of a closure finds its client counted.
LEMMA FirstReleaseIsCounted ==
  ASSUME IInv, NEW u \in Users, NEW c, Release(u), ~once[u], held[u] = c
  PROVE  /\ c \in DOMAIN dockerRefs
         /\ dockerRefs[c] \in Nat \ {0}
<1>1. c \in Clients /\ u \in Holders(c)
  BY HoldersAfterRelease DEF IInv
<1>2. Count(c) \in Nat \ {0}
  BY <1>1, CountZero, CountType DEF IInv
<1>3. QED
  BY <1>2 DEF Count

\* The release that counts down, and may wake a SwapDocker call
\* (registry.go:65-85), keeps the invariant.
LEMMA FirstReleaseKeepsIInv ==
  ASSUME IInv, NEW u \in Users, NEW c, Release(u), ~once[u], held[u] = c
  PROVE  IInv'
<1>1. TypeOK
  BY DEF IInv
<1>2. /\ c \in Clients
      /\ u \in Holders(c)
      /\ Holders(c)' = Holders(c) \ {u}
      /\ \A d \in Clients \ {c} : Holders(d)' = Holders(d)
  BY <1>1, HoldersAfterRelease
<1>3. c \in DOMAIN dockerRefs /\ dockerRefs[c] \in Nat \ {0}
  BY FirstReleaseIsCounted
<1>4. Cardinality(Holders(c))' = Cardinality(Holders(c)) - 1
  BY <1>2, HoldersFinite, FS_RemoveElement
<1>5. c \notin closed /\ c \notin unused
  BY <1>2 DEF IInv, ClosedAreDrained, UnusedAreUnknown
<1>6. \A s \in Swappers : swap[s].pc = "woken" => swap[s].old # c
  BY <1>2 DEF IInv, WokenAreDrained
<1>7. CASE dockerRefs[c] <= 1
  <2>1. dockerRefs[c] = 1
    BY <1>3, <1>7
  <2>2. LastRelease(c)
    BY <1>3, <1>7 DEF Release, ReleaseBody
  <2>3. /\ Count(c)' = 0
        /\ \A d \in Clients \ {c} : Count(d)' = Count(d)
    BY <1>2, <2>2, SMTT(30) DEF LastRelease, Delete, Count
  <2>4. CountsAreExact'
    <3>1. Cardinality(Holders(c)) = 1
      BY <1>2, <1>3, <2>1 DEF IInv, CountsAreExact, Count
    <3>2. QED
      BY <1>2, <1>4, <2>3, <3>1 DEF IInv, CountsAreExact
  <2>5. Holders(c)' = {}
    <3>1. IsFiniteSet(Holders(c)')
      BY <1>2, HoldersFinite, FS_Subset
    <3>2. Cardinality(Holders(c)') = 0
      BY <1>2, <2>3, <2>4 DEF CountsAreExact
    <3>3. QED
      BY <3>1, <3>2, FS_EmptySet
  <2>6. UNCHANGED <<docker, held, unused, closed>>
    BY DEF Release
  <2>7. CASE c \in DOMAIN dockerWaiters
    <3>1. PICK s \in Swappers :
            /\ dockerWaiters[c] = s
            /\ swap[s].pc = "waiting"
            /\ swap[s].old = c
            /\ c # docker
      BY <1>1, <2>7 DEF IInv, WaitersPark, TypeOK
    <3>2. /\ swap' = [swap EXCEPT ![s].pc = "woken"]
          /\ dockerWaiters' = Delete(dockerWaiters, c)
      BY <2>2, <2>7, <3>1 DEF LastRelease
    <3>3. swap'[s].pc = "woken" /\ swap'[s].old = c
      BY <1>1, <3>1, <3>2 DEF TypeOK, SwapState
    <3>4. \A t \in Swappers \ {s} : swap'[t] = swap[t]
      BY <1>1, <3>2 DEF TypeOK
    <3>5. TypeOK'
      <4>1. swap' \in [Swappers -> SwapState]
        BY <1>1, <1>2, <3>1, <3>2 DEF TypeOK, SwapState, MaybeClient
      <4>2. QED
        BY <1>1, <1>2, <2>2, <2>6, <3>2, <4>1 DEF TypeOK, LastRelease, Delete, Release
    <3>6. \A d \in DOMAIN dockerWaiters \ {c} : dockerWaiters[d] # s
      BY <3>1 DEF IInv, WaitersPark
    <3>7. WaitersPark'
      BY <1>1, <1>2, <2>6, <3>2, <3>4, <3>6 DEF IInv, WaitersPark, TypeOK, Delete
    <3>8. ParkedHaveEntry'
      BY <1>1, <3>1, <3>2, <3>3, <3>4, <3>6 DEF IInv, ParkedHaveEntry, TypeOK, Delete
    <3>9. WokenAreDrained'
      BY <1>1, <1>2, <1>5, <2>5, <2>6, <3>1, <3>3, <3>4, ZenonT(40) DEF IInv, WokenAreDrained, TypeOK
    <3>10. ClosedAreDrained'
      BY <1>1, <1>2, <1>5, <2>6 DEF IInv, ClosedAreDrained, TypeOK
    <3>11. UnusedAreUnknown'
      BY <1>1, <1>2, <1>5, <2>2, <2>6 DEF IInv, UnusedAreUnknown, TypeOK, LastRelease, Delete
    <3>12. WokenAreAlone'
      BY <1>6, <3>3, <3>4 DEF IInv, WokenAreAlone
    <3>13. NothingLeaks'
      BY <1>1, <2>6, <3>1, <3>3, <3>4 DEF IInv, NothingLeaks
    <3>14. QED
      BY <2>4, <3>5, <3>7, <3>8, <3>9, <3>10, <3>11, <3>12, <3>13 DEF IInv
  <2>8. CASE c \notin DOMAIN dockerWaiters
    <3>1. UNCHANGED <<swap, dockerWaiters>>
      BY <2>2, <2>8 DEF LastRelease
    <3>2. TypeOK'
      BY <1>1, <1>2, <2>2, <2>6, <3>1 DEF TypeOK, LastRelease, Delete, Release
    <3>3. WaitersPark'
      BY <1>1, <1>2, <2>6, <2>8, <3>1 DEF IInv, WaitersPark, TypeOK
    <3>4. ParkedHaveEntry' /\ WokenAreDrained'
      BY <1>2, <1>6, <2>6, <3>1 DEF IInv, ParkedHaveEntry, WokenAreDrained
    <3>5. ClosedAreDrained'
      BY <1>1, <1>2, <1>5, <2>6 DEF IInv, ClosedAreDrained, TypeOK
    <3>6. UnusedAreUnknown'
      BY <1>1, <1>2, <1>5, <2>2, <2>6 DEF IInv, UnusedAreUnknown, TypeOK, LastRelease, Delete
    <3>7. WokenAreAlone' /\ NothingLeaks'
      BY <2>6, <3>1 DEF IInv, WokenAreAlone, NothingLeaks
    <3>8. QED
      BY <2>4, <3>2, <3>3, <3>4, <3>5, <3>6, <3>7 DEF IInv
  <2>9. QED
    BY <2>7, <2>8
<1>8. CASE ~(dockerRefs[c] <= 1)
  <2>1. /\ dockerRefs' = [dockerRefs EXCEPT ![c] = @ - 1]
        /\ UNCHANGED <<docker, dockerWaiters, held, swap, unused, closed>>
    BY <1>3, <1>8 DEF Release, ReleaseBody
  <2>2. TypeOK'
    BY <1>1, <1>3, <2>1, SMTT(30) DEF TypeOK, Release
  <2>3. /\ Count(c)' = Count(c) - 1
        /\ \A d \in Clients \ {c} : Count(d)' = Count(d)
    BY <1>1, <1>2, <1>3, <2>1, SMTT(30) DEF TypeOK, Count
  <2>4. CountsAreExact'
    BY <1>2, <1>4, <2>3 DEF IInv, CountsAreExact
  <2>5. Holders(c)' # {}
    <3>1. Count(c)' # 0
      BY <1>3, <1>8, <2>3 DEF Count
    <3>2. QED
      BY <1>2, <2>4, <3>1, HoldersFinite, FS_EmptySet DEF CountsAreExact
  <2>6. WaitersPark'
    BY <1>1, <1>2, <2>1, <2>5 DEF IInv, WaitersPark, TypeOK
  <2>7. ParkedHaveEntry' /\ WokenAreDrained'
    BY <1>2, <1>6, <2>1 DEF IInv, ParkedHaveEntry, WokenAreDrained
  <2>8. ClosedAreDrained'
    BY <1>1, <1>2, <1>5, <2>1, SMTT(30) DEF IInv, ClosedAreDrained, TypeOK
  <2>9. UnusedAreUnknown'
    BY <1>1, <1>2, <1>5, <2>1 DEF IInv, UnusedAreUnknown, TypeOK
  <2>10. WokenAreAlone' /\ NothingLeaks'
    BY <2>1 DEF IInv, WokenAreAlone, NothingLeaks
  <2>11. QED
    BY <2>2, <2>4, <2>6, <2>7, <2>8, <2>9, <2>10 DEF IInv
<1>9. QED
  BY <1>3, <1>7, <1>8

\* Any call of a release closure keeps the invariant.
LEMMA ReleaseKeepsIInv ==
  ASSUME IInv, NEW u \in Users, Release(u)
  PROVE  IInv'
<1>1. CASE once[u]
  BY <1>1, SecondReleaseStutters, StutterKeepsIInv DEF IInv
<1>2. CASE ~once[u]
  BY <1>2, FirstReleaseKeepsIInv
<1>3. QED
  BY <1>1, <1>2

\* Dropping a released closure keeps the invariant.
LEMMA ForgetKeepsIInv ==
  ASSUME IInv, NEW u \in Users, Forget(u)
  PROVE  IInv'
<1>1. TypeOK
  BY DEF IInv
<1>2. \A c \in Clients : Holders(c)' = Holders(c)
  BY <1>1, HoldersAfterForget
<1>3. UNCHANGED <<docker, dockerRefs, dockerWaiters, swap, unused, closed>>
  BY DEF Forget
<1>4. TypeOK'
  BY <1>1 DEF TypeOK, Forget, MaybeClient
<1>5. CountsAreExact'
  BY <1>2, <1>3 DEF IInv, CountsAreExact, Count
<1>6. WaitersPark' /\ ClosedAreDrained'
  BY <1>1, <1>2, <1>3 DEF IInv, WaitersPark, ClosedAreDrained, TypeOK
<1>7. ParkedHaveEntry' /\ WokenAreDrained'
  BY <1>2, <1>3 DEF IInv, ParkedHaveEntry, WokenAreDrained
<1>8. UnusedAreUnknown'
  BY <1>1, <1>2, <1>3 DEF IInv, UnusedAreUnknown, TypeOK
<1>9. WokenAreAlone' /\ NothingLeaks'
  BY <1>3 DEF IInv, WokenAreAlone, NothingLeaks
<1>10. QED
  BY <1>4, <1>5, <1>6, <1>7, <1>8, <1>9 DEF IInv

-----------------------------------------------------------------------------
\* Tracking the new client and forgetting a drained one change no count.
LEMMA TrackCounts ==
  ASSUME IInv, NEW new \in MaybeClient
  PROVE  /\ DOMAIN Track(new) \subseteq DOMAIN dockerRefs \cup ({new} \ {NoClient})
         /\ Track(new) \in [DOMAIN Track(new) -> Nat]
         /\ \A c \in Clients :
              (IF c \in DOMAIN Track(new) THEN Track(new)[c] ELSE 0) = Count(c)
  BY DEF Track, Put, Count, IInv, TypeOK

\* SwapDocker up to its wait (registry.go:159-189) keeps the invariant.
LEMMA SwapKeepsIInv ==
  ASSUME IInv, NEW s \in Swappers, NEW new \in MaybeClient, SwapDocker(s, new)
  PROVE  IInv'
<1>1. TypeOK
  BY DEF IInv
<1>2. /\ swap[s] = Idle
      /\ new # docker
      /\ new \in unused \cup {NoClient}
      /\ docker' = new
      /\ unused' = unused \ {new}
      /\ UNCHANGED <<held, once, closed>>
  BY DEF SwapDocker
<1>3. \A c : Holders(c)' = Holders(c)
  BY <1>2, HoldersUnchanged
<1>4. swap[s].pc = "idle"
  BY <1>2 DEF Idle
<1>5. \A c \in DOMAIN dockerWaiters : dockerWaiters[c] # s
  BY <1>4 DEF IInv, WaitersPark
<1>6. docker' \in MaybeClient /\ unused' \subseteq Clients
  BY <1>1, <1>2 DEF TypeOK, MaybeClient
<1>7. docker \notin unused
  BY DEF IInv, UnusedAreUnknown
<1>8. \A c \in closed : Holders(c) = {} /\ c # new /\ c \notin unused
  BY <1>1, <1>2, NoClientAssumption DEF IInv, ClosedAreDrained, TypeOK
<1>9. \A c \in DOMAIN dockerWaiters : c # new
  BY <1>1, <1>2, NoClientAssumption DEF IInv, WaitersPark, TypeOK
<1>10. /\ DOMAIN Track(new) \subseteq DOMAIN dockerRefs \cup ({new} \ {NoClient})
       /\ Track(new) \in [DOMAIN Track(new) -> Nat]
       /\ \A c \in Clients :
            (IF c \in DOMAIN Track(new) THEN Track(new)[c] ELSE 0) = Count(c)
  BY TrackCounts
<1>11. \A t \in Swappers : swap[t].pc = "woken" =>
         /\ swap[t].old \in Clients
         /\ Holders(swap[t].old) = {}
         /\ swap[t].old # new
         /\ swap[t].old \notin unused
         /\ swap[t].old \notin closed
  BY <1>2, NoClientAssumption DEF IInv, WokenAreDrained
<1>12. CASE docker = NoClient
  <2>1. dockerRefs' = Track(new) /\ UNCHANGED <<dockerWaiters, swap>>
    BY <1>12 DEF SwapDocker
  <2>2. TypeOK'
    BY <1>1, <1>2, <1>6, <1>10, <2>1 DEF TypeOK, MaybeClient
  <2>3. CountsAreExact'
    BY <1>3, <1>10, <2>1 DEF IInv, CountsAreExact, Count
  <2>4. WaitersPark'
    BY <1>2, <1>3, <1>9, <2>1 DEF IInv, WaitersPark
  <2>5. ParkedHaveEntry' /\ WokenAreDrained'
    BY <1>2, <1>3, <1>11, <2>1 DEF IInv, ParkedHaveEntry, WokenAreDrained
  <2>6. ClosedAreDrained'
    BY <1>2, <1>3, <1>8 DEF ClosedAreDrained
  <2>7. UnusedAreUnknown'
    BY <1>1, <1>2, <1>3, <1>10, <2>1, NoClientAssumption DEF IInv, UnusedAreUnknown, TypeOK
  <2>8. WokenAreAlone'
    BY <2>1 DEF IInv, WokenAreAlone
  <2>9. NothingLeaks'
    BY <1>2, <1>12, <2>1, NoClientAssumption DEF IInv, NothingLeaks
  <2>10. QED
    BY <2>2, <2>3, <2>4, <2>5, <2>6, <2>7, <2>8, <2>9 DEF IInv
<1>13. CASE docker # NoClient /\ Count(docker) = 0
  <2>1. docker \in Clients
    BY <1>1, <1>13 DEF TypeOK, MaybeClient
  <2>2. /\ dockerRefs' = Delete(Track(new), docker)
        /\ swap' = [swap EXCEPT ![s] = [pc |-> "woken", old |-> docker]]
        /\ UNCHANGED dockerWaiters
    BY <1>13 DEF SwapDocker
  <2>3. Holders(docker) = {}
    BY <1>13, <2>1, CountZero
  <2>4. docker \notin closed /\ docker # new
    BY <1>2 DEF IInv, ClosedAreDrained
  <2>5. swap' \in [Swappers -> SwapState]
    BY <1>1, <2>1, <2>2 DEF TypeOK, SwapState, MaybeClient
  <2>6. TypeOK'
    BY <1>1, <1>2, <1>6, <1>10, <2>2, <2>5 DEF TypeOK, MaybeClient, Delete
  <2>7. CountsAreExact'
    BY <1>3, <1>10, <1>13, <2>2 DEF IInv, CountsAreExact, Count, Delete
  <2>8. WaitersPark'
    BY <1>1, <1>2, <1>3, <1>5, <1>9, <2>2 DEF IInv, WaitersPark, TypeOK
  <2>9. /\ swap'[s].pc = "woken"
        /\ swap'[s].old = docker
        /\ \A t \in Swappers \ {s} : swap'[t] = swap[t]
    BY <1>1, <2>2 DEF TypeOK
  <2>10. ParkedHaveEntry'
    BY <2>2, <2>9 DEF IInv, ParkedHaveEntry
  <2>11. WokenAreDrained'
    BY <1>2, <1>3, <1>7, <1>11, <2>1, <2>3, <2>4, <2>9 DEF WokenAreDrained
  <2>12. ClosedAreDrained'
    BY <1>2, <1>3, <1>8 DEF ClosedAreDrained
  <2>13. UnusedAreUnknown'
    BY <1>1, <1>2, <1>3, <1>10, <2>2, NoClientAssumption
    DEF IInv, UnusedAreUnknown, TypeOK, Delete
  <2>14. WokenAreAlone'
    BY <1>11, <2>9 DEF IInv, WokenAreAlone, WokenAreDrained
  <2>15. NothingLeaks'
    BY <1>2, <1>4, <2>9 DEF IInv, NothingLeaks
  <2>16. QED
    BY <2>6, <2>7, <2>8, <2>10, <2>11, <2>12, <2>13, <2>14, <2>15 DEF IInv
<1>14. CASE docker # NoClient /\ Count(docker) # 0
  <2>1. docker \in Clients
    BY <1>1, <1>14 DEF TypeOK, MaybeClient
  <2>2. /\ dockerRefs' = Track(new)
        /\ dockerWaiters' = Put(dockerWaiters, docker, s)
        /\ swap' = [swap EXCEPT ![s] = [pc |-> "waiting", old |-> docker]]
    BY <1>14 DEF SwapDocker
  <2>3. Holders(docker) # {}
    BY <1>14, <2>1, CountZero
  <2>4. docker \notin closed /\ docker # new
    BY <1>2 DEF IInv, ClosedAreDrained
  <2>5. swap' \in [Swappers -> SwapState]
    BY <1>1, <2>1, <2>2 DEF TypeOK, SwapState, MaybeClient
  <2>6. TypeOK'
    BY <1>1, <1>2, <1>6, <1>10, <2>1, <2>2, <2>5 DEF TypeOK, MaybeClient, Put
  <2>7. CountsAreExact'
    BY <1>3, <1>10, <2>2 DEF IInv, CountsAreExact, Count
  <2>8. /\ swap'[s].pc = "waiting"
        /\ swap'[s].old = docker
        /\ \A t \in Swappers \ {s} : swap'[t] = swap[t]
    BY <1>1, <2>2 DEF TypeOK
  <2>9. docker \notin DOMAIN dockerWaiters
    BY DEF IInv, WaitersPark
  <2>10. WaitersPark'
    <3>1. ASSUME NEW c \in DOMAIN dockerWaiters'
          PROVE  /\ swap'[dockerWaiters'[c]].pc = "waiting"
                 /\ swap'[dockerWaiters'[c]].old = c
                 /\ c # docker'
                 /\ c \notin unused'
                 /\ c \notin closed'
                 /\ Holders(c)' # {}
      <4>1. CASE c = docker
        BY <1>2, <1>3, <1>7, <2>2, <2>3, <2>4, <2>8, <4>1 DEF Put
      <4>2. CASE c # docker
        <5>1. c \in DOMAIN dockerWaiters /\ dockerWaiters'[c] = dockerWaiters[c]
          BY <2>2, <4>2 DEF Put
        <5>2. dockerWaiters[c] \in Swappers \ {s}
          BY <1>1, <1>5, <5>1 DEF TypeOK
        <5>3. /\ swap'[dockerWaiters'[c]].pc = "waiting"
              /\ swap'[dockerWaiters'[c]].old = c
          BY <2>8, <5>1, <5>2 DEF IInv, WaitersPark
        <5>4. QED
          BY <1>2, <1>3, <1>9, <5>1, <5>3 DEF IInv, WaitersPark
      <4>3. QED
        BY <4>1, <4>2
    <3>2. QED
      BY <3>1 DEF WaitersPark
  <2>11. ParkedHaveEntry'
    BY <2>2, <2>8, <2>9 DEF IInv, ParkedHaveEntry, Put
  <2>12. WokenAreDrained'
    BY <1>2, <1>3, <1>11, <2>8 DEF WokenAreDrained
  <2>13. ClosedAreDrained'
    BY <1>2, <1>3, <1>8 DEF ClosedAreDrained
  <2>14. UnusedAreUnknown'
    BY <1>1, <1>2, <1>3, <1>10, <2>2, NoClientAssumption
    DEF IInv, UnusedAreUnknown, TypeOK
  <2>15. WokenAreAlone'
    BY <2>8 DEF IInv, WokenAreAlone
  <2>16. NothingLeaks'
    BY <1>2, <1>4, <2>8 DEF IInv, NothingLeaks
  <2>17. QED
    BY <2>6, <2>7, <2>10, <2>11, <2>12, <2>13, <2>14, <2>15, <2>16 DEF IInv
<1>15. QED
  BY <1>12, <1>13, <1>14

\* The end of SwapDocker, which closes the old client, keeps the invariant.
LEMMA CloseOldKeepsIInv ==
  ASSUME IInv, NEW s \in Swappers, CloseOld(s)
  PROVE  IInv'
<1>1. TypeOK
  BY DEF IInv
<1>2. /\ swap[s].pc = "woken"
      /\ closed' = closed \cup {swap[s].old}
      /\ swap' = [swap EXCEPT ![s] = Idle]
      /\ UNCHANGED <<docker, dockerRefs, dockerWaiters, held, once, unused>>
  BY DEF CloseOld
<1>3. \A c : Holders(c)' = Holders(c)
  BY <1>2, HoldersUnchanged
<1>4. /\ swap[s].old \in Clients
      /\ Holders(swap[s].old) = {}
      /\ swap[s].old # docker
      /\ swap[s].old \notin unused
  BY <1>2 DEF IInv, WokenAreDrained
<1>5. /\ swap'[s].pc = "idle"
      /\ \A t \in Swappers \ {s} : swap'[t] = swap[t]
  BY <1>1, <1>2 DEF TypeOK, Idle
<1>6. \A c \in DOMAIN dockerWaiters : dockerWaiters[c] \in Swappers \ {s}
  BY <1>1, <1>2 DEF IInv, WaitersPark, TypeOK
<1>7. \A t \in Swappers \ {s} : swap[t].pc = "woken" => swap[t].old # swap[s].old
  BY <1>2 DEF IInv, WokenAreAlone
<1>8. TypeOK'
  <2>1. swap' \in [Swappers -> SwapState]
    BY <1>1, <1>2 DEF TypeOK, SwapState, MaybeClient, Idle
  <2>2. QED
    BY <1>1, <1>2, <1>4, <2>1 DEF TypeOK
<1>9. CountsAreExact'
  BY <1>2, <1>3 DEF IInv, CountsAreExact, Count
<1>10. WaitersPark'
  <2>1. \A c \in DOMAIN dockerWaiters : c # swap[s].old
    BY <1>4, <1>3 DEF IInv, WaitersPark
  <2>2. QED
    BY <1>2, <1>3, <1>5, <1>6, <2>1 DEF IInv, WaitersPark
<1>11. ParkedHaveEntry'
  BY <1>2, <1>5 DEF IInv, ParkedHaveEntry
<1>12. ClosedAreDrained' /\ UnusedAreUnknown'
  BY <1>2, <1>3, <1>4 DEF IInv, ClosedAreDrained, UnusedAreUnknown
<1>13. WokenAreDrained'
  BY <1>2, <1>3, <1>5, <1>7 DEF IInv, WokenAreDrained
<1>14. WokenAreAlone'
  BY <1>5 DEF IInv, WokenAreAlone
<1>15. NothingLeaks'
  BY <1>2, <1>5 DEF IInv, NothingLeaks
<1>16. QED
  BY <1>8, <1>9, <1>10, <1>11, <1>12, <1>13, <1>14, <1>15 DEF IInv

-----------------------------------------------------------------------------
\* Every step of the registry keeps the invariant.
THEOREM NextIInv == IInv /\ [Next]_vars => IInv'
<1> SUFFICES ASSUME IInv, [Next]_vars PROVE IInv'
  OBVIOUS
<1>1. ASSUME NEW u \in Users, AcquireDocker(u) PROVE IInv'
  BY <1>1, AcquireKeepsIInv
<1>2. ASSUME NEW u \in Users, Release(u) PROVE IInv'
  BY <1>2, ReleaseKeepsIInv
<1>3. ASSUME NEW u \in Users, Forget(u) PROVE IInv'
  BY <1>3, ForgetKeepsIInv
<1>4. ASSUME NEW s \in Swappers, CloseOld(s) PROVE IInv'
  BY <1>4, CloseOldKeepsIInv
<1>5. ASSUME NEW s \in Swappers, NEW c \in MaybeClient, SwapDocker(s, c) PROVE IInv'
  BY <1>5, SwapKeepsIInv
<1>6. CASE UNCHANGED vars
  BY <1>6, StutterKeepsIInv
<1>7. QED
  BY <1>1, <1>2, <1>3, <1>4, <1>5, <1>6 DEF Next

\* The registry's data structures are consistent in every reachable state.
THEOREM InductiveInvariant == Spec => []IInv
  BY InitIInv, NextIInv, PTL DEF Spec

\* Every variable stays in its type.
THEOREM TypeCorrect == Spec => []TypeOK
<1>1. IInv => TypeOK
  BY DEF IInv
<1>2. QED
  BY <1>1, InductiveInvariant, PTL

\* The count of a client is its number of unreleased leases.
THEOREM CountsCorrect == Spec => []CountsAreExact
<1>1. IInv => CountsAreExact
  BY DEF IInv
<1>2. QED
  BY <1>1, InductiveInvariant, PTL

\* No goroutine holds a lease on a client that is closed or about to be.
THEOREM LeasesAreSafe == Spec => []LeaseKeepsClientOpen
<1>1. IInv => LeaseKeepsClientOpen
  <2> SUFFICES ASSUME IInv, NEW u \in Users, Lease(u) # NoClient
               PROVE  /\ Lease(u) \notin closed
                      /\ \A s \in Swappers :
                           ~(swap[s].pc = "woken" /\ swap[s].old = Lease(u))
    BY DEF LeaseKeepsClientOpen
  <2>1. u \in Holders(Lease(u))
    BY DEF Holders
  <2>2. QED
    BY <2>1 DEF IInv, ClosedAreDrained, WokenAreDrained
<1>2. QED
  BY <1>1, InductiveInvariant, PTL

\* A parked SwapDocker call has a lease to wait for and an entry to be woken by.
THEOREM WakeupsAreKept == Spec => []NoLostWakeup
<1>1. IInv => NoLostWakeup
  BY DEF IInv, NoLostWakeup, ParkedHaveEntry, WaitersPark
<1>2. QED
  BY <1>1, InductiveInvariant, PTL

\* A created client is current, closed, or exactly one call's to close.
THEOREM OneOwner == Spec => []EveryClientHasOneOwner
<1>1. IInv => EveryClientHasOneOwner
  <2> SUFFICES ASSUME IInv, NEW c \in Clients \ unused
               PROVE  /\ c \in closed \/ c = docker => Closers(c) = {}
                      /\ c \in closed => c # docker
                      /\ c \notin closed /\ c # docker =>
                           \E s \in Swappers : Closers(c) = {s}
    BY DEF EveryClientHasOneOwner
  <2>1. \A s \in Closers(c) : swap[s].pc \in {"waiting", "woken"} /\ swap[s].old = c
    BY DEF Closers, IInv, TypeOK, SwapState
  <2>2. \A s \in Closers(c) : c # docker /\ c \notin closed
    BY <2>1 DEF Closers, IInv, ParkedHaveEntry, WaitersPark, WokenAreDrained
  <2>3. \A s, t \in Closers(c) : s = t
    <3> SUFFICES ASSUME NEW s \in Closers(c), NEW t \in Closers(c)
                 PROVE  s = t
      OBVIOUS
    <3>1. CASE swap[s].pc = "waiting" /\ swap[t].pc = "waiting"
      BY <2>1, <3>1 DEF Closers, IInv, ParkedHaveEntry
    <3>2. CASE swap[s].pc = "woken" /\ swap[t].pc = "woken"
      BY <2>1, <3>2 DEF Closers, IInv, WokenAreAlone
    <3>3. \A x \in Closers(c) : swap[x].pc = "waiting" => Holders(c) # {}
      BY <2>1 DEF Closers, IInv, ParkedHaveEntry, WaitersPark
    <3>4. \A x \in Closers(c) : swap[x].pc = "woken" => Holders(c) = {}
      BY <2>1 DEF Closers, IInv, WokenAreDrained
    <3>5. QED
      BY <2>1, <3>1, <3>2, <3>3, <3>4
  <2>4. c \notin closed /\ c # docker => Closers(c) # {}
    BY DEF Closers, IInv, NothingLeaks
  <2>5. c \in closed => c # docker
    BY DEF IInv, ClosedAreDrained
  <2>6. Closers(c) \subseteq Swappers
    BY DEF Closers
  <2>7. QED
    BY <2>2, <2>3, <2>4, <2>5, <2>6
<1>2. QED
  BY <1>1, InductiveInvariant, PTL

\* Once a client is replaced its leases only drain: AcquireDocker hands out the
\* current client and nothing else makes a holder (registry.go:54-64).
THEOREM RetiredDrain == Spec => RetiredClientsOnlyDrain
<1>1. ASSUME TypeOK, [Next]_vars, NEW c \in Clients, c # docker
      PROVE  Holders(c)' \subseteq Holders(c)
  <2>1. ASSUME NEW u \in Users, AcquireDocker(u) PROVE Holders(c)' \subseteq Holders(c)
    BY <1>1, <2>1, HoldersAfterAcquire
  <2>2. ASSUME NEW u \in Users, Release(u) PROVE Holders(c)' \subseteq Holders(c)
    <3>1. held' = held /\ once' = [once EXCEPT ![u] = TRUE]
      BY <2>2 DEF Release
    <3>2. QED
      BY <1>1, <3>1, NoClientAssumption DEF TypeOK, Holders, Lease
  <2>3. ASSUME NEW u \in Users, Forget(u) PROVE Holders(c)' \subseteq Holders(c)
    BY <1>1, <2>3, HoldersAfterForget
  <2>4. ASSUME NEW s \in Swappers, CloseOld(s) \/ \E d \in MaybeClient : SwapDocker(s, d)
        PROVE  Holders(c)' \subseteq Holders(c)
    BY <2>4, HoldersUnchanged DEF CloseOld, SwapDocker
  <2>5. CASE UNCHANGED vars
    BY <2>5, HoldersUnchanged DEF vars
  <2>6. QED
    BY <1>1, <2>1, <2>2, <2>3, <2>4, <2>5 DEF Next
<1>2. TypeOK /\ [Next]_vars =>
        [\A c \in Clients : c # docker /\ c \notin unused => Holders(c)' \subseteq Holders(c)]_vars
  BY <1>1
<1>3. QED
  BY <1>2, TypeCorrect, PTL DEF Spec, RetiredClientsOnlyDrain

-----------------------------------------------------------------------------
(* The registry implements the promise of ClientLeases: with lease and     *)
(* current read off its state, every step is a step of the promise or      *)
(* leaves the promise's variables alone.                                   *)

\* The registry starts where the promise starts.
LEMMA PromiseInit == Init => Promise!Init
  BY DEF Init, Promise!Init, Lease, MaybeClient

\* Every step of the registry is a step of the promise or a stutter.
LEMMA PromiseStep == IInv /\ [Next]_vars => [Promise!Next]_(Promise!leaseVars)
<1> DEFINE lease == [u \in Users |-> Lease(u)]
<1> SUFFICES ASSUME IInv, [Next]_vars
             PROVE  [Promise!Next]_(Promise!leaseVars)
  OBVIOUS
<1>1. TypeOK
  BY DEF IInv
<1>2. ASSUME NEW u \in Users, AcquireDocker(u)
      PROVE  Promise!Borrow(u)
  <2>1. Lease(u) = NoClient /\ docker # NoClient
    BY <1>2 DEF AcquireDocker, Lease
  <2>2. lease' = [lease EXCEPT ![u] = docker]
    BY <1>1, <1>2 DEF AcquireDocker, Lease, TypeOK
  <2>3. UNCHANGED <<docker, unused, closed>>
    BY <1>2 DEF AcquireDocker
  <2>4. QED
    BY <2>1, <2>2, <2>3 DEF Promise!Borrow
<1>3. ASSUME NEW u \in Users, Release(u), ~once[u]
      PROVE  Promise!GiveBack(u)
  <2>1. Lease(u) # NoClient
    BY <1>3 DEF Release, Lease
  <2>2. lease' = [lease EXCEPT ![u] = NoClient]
    BY <1>1, <1>3 DEF Release, Lease, TypeOK
  <2>3. UNCHANGED <<docker, unused, closed>>
    BY <1>3 DEF Release
  <2>4. QED
    BY <2>1, <2>2, <2>3 DEF Promise!GiveBack
<1>4. ASSUME NEW u \in Users, Release(u), once[u]
      PROVE  UNCHANGED Promise!leaseVars
  BY <1>1, <1>4, SecondReleaseStutters DEF vars, Promise!leaseVars, Lease
<1>5. ASSUME NEW u \in Users, Forget(u)
      PROVE  UNCHANGED Promise!leaseVars
  <2>1. lease' = lease
    BY <1>1, <1>5 DEF Forget, Lease, TypeOK
  <2>2. QED
    BY <1>5, <2>1 DEF Forget, Promise!leaseVars
<1>6. ASSUME NEW s \in Swappers, NEW c \in MaybeClient, SwapDocker(s, c)
      PROVE  Promise!Replace(c)
  BY <1>6 DEF SwapDocker, Promise!Replace, Lease
<1>7. ASSUME NEW s \in Swappers, CloseOld(s)
      PROVE  Promise!Close(swap[s].old) /\ swap[s].old \in Clients
  <2>1. /\ swap[s].old \in Clients
        /\ Holders(swap[s].old) = {}
        /\ Promise!Retired(swap[s].old)
    BY <1>7 DEF CloseOld, IInv, WokenAreDrained, Promise!Retired
  <2>2. \A u \in Users : Lease(u) # swap[s].old
    BY <2>1 DEF Holders
  <2>3. QED
    BY <1>7, <2>1, <2>2 DEF CloseOld, Promise!Close, Lease
<1>8. CASE UNCHANGED vars
  BY <1>8 DEF vars, Promise!leaseVars, Lease
<1>9. QED
  BY <1>2, <1>3, <1>4, <1>5, <1>6, <1>7, <1>8 DEF Next, Promise!Next, MaybeClient

\* The safety part of the promise holds of every behaviour of the registry.
THEOREM KeepsPromiseSafety == Spec => Promise!Safety
  BY PromiseInit, PromiseStep, InductiveInvariant, PTL DEF Spec, Promise!Safety
=============================================================================
