------------------------------ MODULE RWMutex ------------------------------
(***************************************************************************)
(* sync.RWMutex of the Go library, as internal/config/manager.go and       *)
(* others use it.  Writers exclude each other first (w.Lock in the         *)
(* library) and then announce themselves: readers that come later park,    *)
(* the readers that hold the lock drain, and when the writer unlocks       *)
(* everybody parked gets the read lock before the next writer can.         *)
(*                                                                         *)
(* A goroutine that holds the read lock and asks for it again is one more  *)
(* reader that comes later: the lock is not reentrant.                     *)
(***************************************************************************)
EXTENDS Naturals

CONSTANTS
    Threads,    \* goroutines that use the lock
    NoThread

VARIABLES
    writer,     \* the writer that has announced itself, or holds the lock
    depth,      \* how many read locks each goroutine holds
    parked      \* goroutines blocked in RLock

FreeLock ==
    /\ writer = NoThread
    /\ depth = [t \in Threads |-> 0]
    /\ parked = {}

LockType ==
    /\ writer \in Threads \cup {NoThread}
    /\ depth \in [Threads -> Nat]
    /\ parked \subseteq Threads

Announce(t) ==
    /\ writer = NoThread
    /\ writer' = t
    /\ UNCHANGED <<depth, parked>>

\* The announced writer has the lock: the readers before it are gone.
Locked(t) ==
    /\ writer = t
    /\ \A r \in Threads : depth[r] = 0

Unlock(t) ==
    /\ Locked(t)
    /\ writer' = NoThread
    /\ depth' = [r \in Threads |-> IF r \in parked THEN depth[r] + 1 ELSE depth[r]]
    /\ parked' = {}

\* The caller has the lock in its next step, once it is not parked.
RLock(t) ==
    /\ \/ /\ writer = NoThread
          /\ depth' = [depth EXCEPT ![t] = @ + 1]
          /\ UNCHANGED parked
       \/ /\ writer # NoThread
          /\ parked' = parked \cup {t}
          /\ UNCHANGED depth
    /\ UNCHANGED writer

RUnlock(t) ==
    /\ t \notin parked
    /\ depth' = [depth EXCEPT ![t] = @ - 1]
    /\ UNCHANGED <<writer, parked>>
=============================================================================
