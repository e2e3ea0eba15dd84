---------------------------- MODULE ClientLeases ----------------------------
(***************************************************************************)
(* What the service registry promises about the Docker client it shares:   *)
(* a client can be replaced at any moment, everybody who borrowed the old  *)
(* one keeps it until they give it back, new borrowers get the new one,    *)
(* and the old one is closed once, after its last borrower has left.       *)
(* Nothing here says how borrowers are counted or who closes.              *)
(***************************************************************************)
CONSTANTS
    Clients,    \* every MultiHostClient that is ever created
    NoClient,   \* Go's nil, not a client
    Users       \* the goroutines that borrow a client

VARIABLES
    current,    \* the client handed to new borrowers
    lease,      \* lease[u]: the client u has borrowed, or NoClient
    unused,     \* clients not created yet
    closed      \* clients whose connections are closed

leaseVars == <<current, lease, unused, closed>>

Init ==
    /\ current \in Clients \cup {NoClient}
    /\ lease = [u \in Users |-> NoClient]
    /\ unused = Clients \ {current}
    /\ closed = {}

Borrow(u) ==
    /\ lease[u] = NoClient
    /\ current # NoClient
    /\ lease' = [lease EXCEPT ![u] = current]
    /\ UNCHANGED <<current, unused, closed>>

GiveBack(u) ==
    /\ lease[u] # NoClient
    /\ lease' = [lease EXCEPT ![u] = NoClient]
    /\ UNCHANGED <<current, unused, closed>>

\* The current client is replaced by one nobody has seen yet, or by none.
Replace(new) ==
    /\ new \in unused \cup {NoClient}
    /\ new # current
    /\ current' = new
    /\ unused' = unused \ {new}
    /\ UNCHANGED <<lease, closed>>

Retired(c) == c # current /\ c \notin unused /\ c \notin closed

Close(c) ==
    /\ Retired(c)
    /\ \A u \in Users : lease[u] # c
    /\ closed' = closed \cup {c}
    /\ UNCHANGED <<current, lease, unused>>

Next ==
    \/ \E u \in Users : Borrow(u) \/ GiveBack(u)
    \/ \E c \in Clients \cup {NoClient} : Replace(c)
    \/ \E c \in Clients : Close(c)

Safety == Init /\ [][Next]_leaseVars

\* The promise is also that a retired client does not stay open for ever.
Fairness == \A c \in Clients : WF_leaseVars(Close(c))

Spec == Safety /\ Fairness
=============================================================================
