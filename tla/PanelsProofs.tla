---------------------------- MODULE PanelsProofs ----------------------------
(***************************************************************************)
(* Proofs about the parts of MCPages that hold a stream, a socket, a       *)
(* dialog or a login, for any constants that satisfy the assumptions       *)
(* MCPages names.  A part shares no variable with the others, so a         *)
(* behaviour of the pages is one of each (the lemmas ...Run), and each     *)
(* part has an inductive invariant of its own:                             *)
(*                                                                         *)
(*   - EnvironmentForm.  While it is edited, what was not touched is as it *)
(*     was when editing began; a question asked is of an edit under way.   *)
(*   - TerminalPanel.  The panel of a container has made a socket, and its *)
(*     cleanup is that of the last; no other is connecting or listens.     *)
(*   - StatsPanel.  A socket that is connecting or open is in wsRef unless *)
(*     it was forgotten, and the panel is live only on an open one; this   *)
(*     is inductive with the types.                                        *)
(*   - LogStreaming, LogsSheet.  A stream that was alone when it started   *)
(*     follows streams that have ended, so that one out of reach has been  *)
(*     overlapped; in the sheet, of the streams of that sheet only.        *)
(*   - LogView, LogsSheet.  The line an arrow goes to is the n-th of the   *)
(*     matches in the order of the lines, which is one of them because the *)
(*     matches before it, counted, are fewer than all of them.             *)
(*   - ScanDialogs.  A request under way has a key no later than the last  *)
(*     dialog opened; if it is the open one's, it is of its image, and the *)
(*     job that answers it is of the image it names.  The bulk dialog is   *)
(*     open again and again under one key, so there only one request at a  *)
(*     time, and the clearing of what was seen, keep the results apart.    *)
(*   - SbomDialog.  As for scans, and a request is under way only before   *)
(*     the dialog has a job, so that no answer takes the job from it; a    *)
(*     document is fetched and shown only of the dialog's own job, once    *)
(*     that is complete, which is why a retry meets none; and a job that   *)
(*     was announced is over, so that it is not polled again.              *)
(*   - AuthSession.  A token that is stored, verified or sent was issued,  *)
(*     and one that is accepted leaves the storage only by hand, for that  *)
(*     of a new login, for the answer to an older request, or because it   *)
(*     could not be verified.                                              *)
(***************************************************************************)
EXTENDS MCPages, FiniteSetTheorems, SequenceTheorems, TLAPS

-----------------------------------------------------------------------------
(* Counting.                                                               *)

\* A strict and total order, as the elements before each.
Ranked(S, before) ==
    /\ before \in [S -> SUBSET S]
    /\ \A a, b \in S : a # b => a \in before[b] \/ b \in before[a]
    /\ \A a, b \in S : a \in before[b] => before[a] \subseteq before[b]
    /\ \A a \in S : a \notin before[a]

RanksTaken(S, before) ==
    \A k \in 0 .. Cardinality(S) - 1 : \E c \in S : Cardinality(before[c]) = k

\* The rank of an element is how many are before it: every rank below the
\* number of elements is taken.
LEMMA RanksAreTaken ==
  ASSUME NEW S, IsFiniteSet(S), NEW before, Ranked(S, before)
  PROVE  RanksTaken(S, before)
<1> SUFFICES ASSUME NEW k \in 0 .. Cardinality(S) - 1
             PROVE  \E c \in S : Cardinality(before[c]) = k
  BY DEF RanksTaken
<1> USE DEF Ranked
<1> DEFINE rank == [c \in S |-> Cardinality(before[c])]
           n == Cardinality(S)
<1>1. n \in Nat  BY FS_CardinalityType
<1>2. ASSUME NEW c \in S PROVE rank[c] \in 0 .. n - 1
  <2> DEFINE rest == S \ {c}
  <2>1. before[c] \in SUBSET rest  OBVIOUS
  <2>2. IsFiniteSet(rest) /\ Cardinality(rest) = n - 1  BY FS_RemoveElement
  <2>3. IsFiniteSet(before[c]) /\ Cardinality(before[c]) <= n - 1
    <3> HIDE DEF rest, n
    <3> QED  BY <2>1, <2>2, FS_Subset
  <2>4. Cardinality(before[c]) \in Nat  BY <2>3, FS_CardinalityType
  <2> QED  BY <1>1, <2>3, <2>4
<1>3. ASSUME NEW a \in S, NEW b \in S, a \in before[b] PROVE rank[a] < rank[b]
  <2>1. before[a] \in SUBSET before[b] /\ a \notin before[a]  BY <1>3
  <2>2. IsFiniteSet(before[b])  BY FS_Subset
  <2>3. /\ IsFiniteSet(before[a]) /\ Cardinality(before[a]) <= Cardinality(before[b])
        /\ Cardinality(before[b]) = Cardinality(before[a]) => before[b] = before[a]
    BY <2>1, <2>2, FS_Subset
  <2>4. Cardinality(before[a]) \in Nat /\ Cardinality(before[b]) \in Nat
    BY <2>2, <2>3, FS_CardinalityType
  <2> QED  BY <1>3, <2>1, <2>3, <2>4
<1>4. rank \in Injection(S, 0 .. n - 1)
  <2>1. rank \in [S -> 0 .. n - 1]  BY <1>2
  <2>2. \A a, b \in S : rank[a] = rank[b] => a = b
    <3> SUFFICES ASSUME NEW a \in S, NEW b \in S, rank[a] = rank[b], a # b PROVE FALSE
      OBVIOUS
    <3>1. a \in before[b] \/ b \in before[a]  OBVIOUS
    <3>2. rank[a] \in Nat /\ rank[b] \in Nat  BY <1>1, <1>2
    <3> HIDE DEF rank
    <3> QED  BY <1>3, <3>1, <3>2
  <2> HIDE DEF rank
  <2> QED  BY <2>1, <2>2 DEF Injection, IsInjective
<1>5. IsFiniteSet(0 .. n - 1) /\ Cardinality(0 .. n - 1) = n
  BY <1>1, FS_Interval
<1>6. rank \in Surjection(S, 0 .. n - 1)
  <2> HIDE DEF rank, n
  <2> QED  BY <1>4, <1>5, FS_Injection DEF n
<1>7. \E c \in S : rank[c] = k
  <2> HIDE DEF rank
  <2> QED  BY <1>6 DEF Surjection
<1> QED  BY <1>7

\* The numbers in S, ascending.
Ordered(S) ==
    [n \in 1 .. Cardinality(S) |-> CHOOSE i \in S : Cardinality({j \in S : j < i}) = n - 1]

\* Each of them is in S.
LEMMA OrderedIsIn ==
  ASSUME NEW S \in SUBSET Nat, IsFiniteSet(S)
  PROVE  Ordered(S) \in [1 .. Cardinality(S) -> S]
<1> DEFINE before == [i \in S |-> {j \in S : j < i}]
           pick(n) == CHOOSE i \in S : Cardinality({j \in S : j < i}) = n - 1
<1>1. ASSUME NEW n \in 1 .. Cardinality(S) PROVE pick(n) \in S
  <2> DEFINE k == n - 1
  <2>1. before \in [S -> SUBSET S]  OBVIOUS
  <2>2. \A a, b \in S : a # b => a \in before[b] \/ b \in before[a]  OBVIOUS
  <2>3. \A a, b \in S : a \in before[b] => before[a] \subseteq before[b]
    <3> SUFFICES ASSUME NEW a \in S, NEW b \in S, a \in before[b], NEW c \in before[a]
                 PROVE  c \in before[b]
      OBVIOUS
    <3>1. c \in S /\ c < a /\ a < b  OBVIOUS
    <3>2. c < b  BY <3>1
    <3> QED  BY <3>1, <3>2
  <2>4. \A a \in S : a \notin before[a]  OBVIOUS
  <2>5. k \in 0 .. Cardinality(S) - 1  BY FS_CardinalityType
  <2>6. \E i \in S : Cardinality(before[i]) = k
    <3>1. IsFiniteSet(S)  OBVIOUS
    <3> HIDE DEF before, k
    <3>2. Ranked(S, before)  BY <2>1, <2>2, <2>3, <2>4 DEF Ranked
    <3>3. RanksTaken(S, before)  BY <3>1, <3>2, RanksAreTaken, Zenon
    <3> QED  BY <2>5, <3>3 DEF RanksTaken
  <2> QED  BY <2>6
<1> HIDE DEF pick
<1>2. Ordered(S) = [n \in 1 .. Cardinality(S) |-> pick(n)]  BY DEF Ordered, pick
<1> QED  BY <1>1, <1>2

-----------------------------------------------------------------------------
(* EnvironmentForm.                                                        *)

\* While the form is edited, what was not touched is as editing began.
EditKeepsUntouched ==
    /\ \A k \in DOMAIN base \ touched : k \in DOMAIN editedEnv /\ editedEnv[k] = base[k]
    /\ DOMAIN editedEnv \subseteq DOMAIN base \cup touched
    /\ deletedKeys \subseteq touched

\* What is asked about is an edit under way, of which nothing was sent yet.
FormIInv ==
    /\ asking => isEditing /\ sent = Absent
    /\ isEditing => EditKeepsUntouched
    /\ Env!UntouchedIsKept

\* The pages run the form by its own steps.
LEMMA FormRun == [Next]_vars => [Env!FormNext]_formVars
<1>1. CASE Next
  BY <1>1 DEF Next
<1>2. CASE UNCHANGED vars
  BY <1>2 DEF vars
<1> QED  BY <1>1, <1>2

\* The form starts with nothing edited.
LEMMA FormStarts == Init => FormIInv
BY DEF Init, Env!FormInit, FormIInv, Env!UntouchedIsKept

\* Every step of the form keeps what was not touched.
LEMMA FormIsKept == FormIInv /\ [Next]_vars => FormIInv'
<1> SUFFICES ASSUME FormIInv, [Next]_vars PROVE FormIInv'
  OBVIOUS
<1> USE DEF FormIInv, EditKeepsUntouched, Env!UntouchedIsKept
<1>0. [Env!FormNext]_formVars  BY FormRun
<1>1. CASE Env!EnvFetched  BY <1>1 DEF Env!EnvFetched
<1>2. ASSUME NEW env \in EnvFiles, Env!ChangedElsewhere(env) PROVE FormIInv'
  BY <1>2 DEF Env!ChangedElsewhere
<1>3. ASSUME NEW env \in EnvFiles, Env!HandleFileUpload(env) PROVE FormIInv'
  BY <1>3 DEF Env!HandleFileUpload
<1>4. CASE Env!HandleEdit  BY <1>4 DEF Env!HandleEdit, Env!FormFree
<1>5. CASE Env!HandleCancel  BY <1>5 DEF Env!HandleCancel, Env!FormFree
<1>6. CASE Env!ToggleAddNew  BY <1>6 DEF Env!ToggleAddNew
<1>7. ASSUME NEW k \in EnvKeys, Env!HandleDelete(k) PROVE FormIInv'
  BY <1>7 DEF Env!HandleDelete
<1>8. ASSUME NEW k \in EnvKeys, NEW value \in EnvValues, Env!HandleValueChange(k, value)
      PROVE  FormIInv'
  BY <1>8 DEF Env!HandleValueChange
<1>9. ASSUME NEW k \in EnvKeys, NEW value \in EnvValues, Env!HandleAddNew(k, value)
      PROVE  FormIInv'
  BY <1>9 DEF Env!HandleAddNew, Env!With
<1>10. CASE Env!FileRead  BY <1>10 DEF Env!FileRead
<1>11. CASE Env!HandleConfirmUpload  BY <1>11 DEF Env!HandleConfirmUpload, Env!With
<1>12. CASE Env!HandleCancelUpload  BY <1>12 DEF Env!HandleCancelUpload
<1>13. CASE Env!HandleSave  BY <1>13 DEF Env!HandleSave
<1>14. CASE Env!HandleConfirmUpdate
  BY <1>14 DEF Env!HandleConfirmUpdate, Env!FinalEnv, Env!Without, Env!Restrict
<1>15. CASE Env!CancelUpdate  BY <1>15 DEF Env!CancelUpdate
<1>16. CASE Env!Updated  BY <1>16 DEF Env!Updated
<1>17. CASE Env!UpdateFailed  BY <1>17 DEF Env!UpdateFailed
<1>18. CASE UNCHANGED formVars  BY <1>18 DEF formVars
<1> HIDE DEF FormIInv
<1> QED
  BY <1>0, <1>1, <1>2, <1>3, <1>4, <1>5, <1>6, <1>7, <1>8, <1>9, <1>10, <1>11, <1>12,
     <1>13, <1>14, <1>15, <1>16, <1>17, <1>18 DEF Env!FormNext

\* What is sent for a container keeps every variable the user did not touch,
\* as it was when editing began (environment-variables.tsx), for any files and
\* values.
THEOREM UntouchedIsSent == Spec => []UntouchedIsKept
<1>1. FormIInv => UntouchedIsKept  BY DEF FormIInv, UntouchedIsKept
<1> QED  BY <1>1, FormStarts, FormIsKept, PTL DEF Spec
-----------------------------------------------------------------------------
(* TerminalPanel.                                                          *)

\* The cleanup of a panel is that of its last socket.
TerminalIInv ==
    /\ Terminal!TerminalTypeOK
    /\ containerId # "none" => sockets # << >> /\ cleanupRef = Len(sockets)
    /\ sockets = << >> => ~isConnected
    /\ Terminal!OneTerminal
    /\ Terminal!StatusIsOfTheSocket

\* The pages run the terminal by its own steps.
LEMMA TerminalRun == [Next]_vars => [Terminal!TerminalNext]_terminalVars
<1>1. CASE Next
  BY <1>1 DEF Next
<1>2. CASE UNCHANGED vars
  BY <1>2 DEF vars
<1> QED  BY <1>1, <1>2

\* The panel starts without a socket.
LEMMA TerminalStarts == Init => TerminalIInv
<1> SUFFICES ASSUME Terminal!TerminalInit PROVE TerminalIInv
  BY DEF Init
<1>1. sockets \in Seq(Terminal!Socket) /\ DOMAIN sockets = {}
  BY DEF Terminal!TerminalInit
<1> QED
  BY <1>1 DEF Terminal!TerminalInit, TerminalIInv, Terminal!TerminalTypeOK,
       Terminal!OneTerminal, Terminal!StatusIsOfTheSocket, Terminal!Gone, Terminal!None

\* What connect and the cleanup do to the sockets: that of the reference is
\* closed and no longer listened to, the others stay.
LEMMA CleanedUpIsSeq ==
  ASSUME Terminal!TerminalTypeOK
  PROVE  /\ Terminal!CleanedUp(sockets) \in Seq(Terminal!Socket)
         /\ Len(Terminal!CleanedUp(sockets)) = Len(sockets)
         /\ \A i \in DOMAIN sockets :
              /\ Terminal!CleanedUp(sockets)[i].of = sockets[i].of
              /\ i # cleanupRef => Terminal!CleanedUp(sockets)[i] = sockets[i]
              /\ i = cleanupRef => ~Terminal!CleanedUp(sockets)[i].listening
              /\ i = cleanupRef => Terminal!CleanedUp(sockets)[i].pc \notin Terminal!Alive
              /\ sockets[i].pc \in {"open", "closing"}
                   => Terminal!CleanedUp(sockets)[i].pc \in {"open", "closing"}
<1> DEFINE c == Terminal!CleanedUp(sockets)
<1>1. sockets \in Seq(Terminal!Socket)  BY DEF Terminal!TerminalTypeOK
<1>2. DOMAIN sockets = 1 .. Len(sockets) /\ Len(sockets) \in Nat  BY <1>1
<1>3. \A i \in DOMAIN sockets : sockets[i] \in Terminal!Socket  BY <1>1
<1>4. \A i \in DOMAIN sockets : c[i] \in Terminal!Socket
  BY <1>3 DEF Terminal!CleanedUp, Terminal!Socket, Terminal!Alive
<1>5. DOMAIN c = 1 .. Len(sockets)  BY <1>2 DEF Terminal!CleanedUp
<1>6. c = [i \in 1 .. Len(sockets) |-> c[i]]  BY <1>5 DEF Terminal!CleanedUp
<1>7. c \in [1 .. Len(sockets) -> Terminal!Socket]  BY <1>4, <1>6, <1>2
<1>8. c \in Seq(Terminal!Socket) /\ Len(c) = Len(sockets)  BY <1>7, <1>2
<1>9. ASSUME NEW i \in DOMAIN sockets
      PROVE  /\ c[i].of = sockets[i].of
             /\ i # cleanupRef => c[i] = sockets[i]
             /\ i = cleanupRef => ~c[i].listening
             /\ i = cleanupRef => c[i].pc \notin Terminal!Alive
             /\ sockets[i].pc \in {"open", "closing"} => c[i].pc \in {"open", "closing"}
  <2>1. sockets[i] \in Terminal!Socket  BY <1>3
  <2>2. CASE i # cleanupRef
    <3>1. c[i] = sockets[i]  BY <2>2 DEF Terminal!CleanedUp
    <3> QED  BY <2>2, <3>1
  <2>3. CASE i = cleanupRef
    <3> DEFINE pc == IF sockets[i].pc \in Terminal!Alive THEN "closing" ELSE sockets[i].pc
    <3>1. c[i] = [sockets[i] EXCEPT !.listening = FALSE, !.pc = pc]
      BY <2>3 DEF Terminal!CleanedUp
    <3>2. /\ pc \notin Terminal!Alive
          /\ sockets[i].pc \in {"open", "closing"} => pc \in {"open", "closing"}
      BY DEF Terminal!Alive
    <3> HIDE DEF pc, c
    <3>3. c[i].of = sockets[i].of /\ c[i].pc = pc  BY <2>1, <3>1 DEF Terminal!Socket
    <3>4. ~c[i].listening  BY <2>1, <3>1 DEF Terminal!Socket
    <3> QED  BY <2>3, <3>2, <3>3, <3>4
  <2> QED  BY <2>2, <2>3
<1> HIDE DEF c
<1>10. c = Terminal!CleanedUp(sockets)  BY DEF c
<1> QED  BY <1>8, <1>9, <1>10

\* connect closes the socket before and makes the next one.
LEMMA ConnectMakesOne ==
  ASSUME TerminalIInv, NEW c \in Containers, Terminal!Connect(c),
         keyTo' = keyTo, isConnected' = isConnected, containerId' = c,
         containerId = "none" => sockets = << >>
  PROVE  TerminalIInv'
<1> DEFINE cs == Terminal!CleanedUp(sockets)
           new == [of |-> c, pc |-> "connecting", listening |-> TRUE, endedLate |-> FALSE]
<1>1. /\ Terminal!TerminalTypeOK
      /\ containerId # "none" => sockets # << >> /\ cleanupRef = Len(sockets)
      /\ sockets = << >> => ~isConnected
      /\ Terminal!OneTerminal
      /\ Terminal!StatusIsOfTheSocket
  BY DEF TerminalIInv
<1>2. /\ cs \in Seq(Terminal!Socket)
      /\ Len(cs) = Len(sockets)
      /\ \A i \in DOMAIN sockets :
              /\ cs[i].of = sockets[i].of
              /\ i # cleanupRef => cs[i] = sockets[i]
              /\ i = cleanupRef => ~cs[i].listening
              /\ i = cleanupRef => cs[i].pc \notin Terminal!Alive
              /\ sockets[i].pc \in {"open", "closing"} => cs[i].pc \in {"open", "closing"}
  BY <1>1, CleanedUpIsSeq
<1>3. /\ sockets' = Append(cs, new)
      /\ cleanupRef' = Len(sockets) + 1
      /\ isReconnecting' = TRUE
  BY DEF Terminal!Connect
<1>4. sockets \in Seq(Terminal!Socket) /\ Len(sockets) \in Nat
      /\ DOMAIN sockets = 1 .. Len(sockets)
  BY <1>1 DEF Terminal!TerminalTypeOK
<1>5. new \in Terminal!Socket  BY DEF Terminal!Socket
<1> HIDE DEF cs, new
<1>6. /\ sockets' \in Seq(Terminal!Socket)
      /\ Len(sockets') = Len(sockets) + 1
      /\ DOMAIN sockets' = 1 .. (Len(sockets) + 1)
      /\ sockets' # << >>
      /\ \A i \in DOMAIN sockets : sockets'[i] = cs[i]
      /\ sockets'[Len(sockets) + 1] = new
  BY <1>2, <1>3, <1>4, <1>5
<1>7. new.of = c /\ new.pc = "connecting"  BY DEF new
<1>8. Terminal!TerminalTypeOK'
  <2>1. /\ containerId' \in Containers \cup {"none"}
        /\ isConnected' \in BOOLEAN /\ isReconnecting' \in BOOLEAN
    BY <1>1, <1>3 DEF Terminal!TerminalTypeOK, Terminal!Gone
  <2>2. cleanupRef' \in DOMAIN sockets'  BY <1>3, <1>6, <1>4
  <2>3. keyTo \in {0} \cup DOMAIN sockets
    BY <1>1 DEF Terminal!TerminalTypeOK, Terminal!None
  <2>4. keyTo' \in {0} \cup DOMAIN sockets'
    BY <1>4, <1>6, <2>3
  <2> QED  BY <2>1, <2>2, <2>4, <1>6 DEF Terminal!TerminalTypeOK, Terminal!Gone, Terminal!None
<1>9. Terminal!OneTerminal'
  <2> SUFFICES ASSUME NEW i \in DOMAIN sockets',
                      sockets'[i].pc \in Terminal!Alive \/ sockets'[i].listening
               PROVE  i = cleanupRef' /\ sockets'[i].of = containerId'
    BY DEF Terminal!OneTerminal, Terminal!Alive
  <2>1. CASE i \in DOMAIN sockets
    <3>1. i = cleanupRef
      BY <1>1, <1>2, <1>6, <2>1 DEF Terminal!OneTerminal
    <3> QED  BY <1>2, <1>6, <2>1, <3>1
  <2>2. CASE i = Len(sockets) + 1
    BY <1>3, <1>6, <1>7, <2>2
  <2> QED  BY <1>4, <1>6, <2>1, <2>2
<1>10. isConnected => \E i \in DOMAIN sockets' : sockets'[i].pc \in {"open", "closing"}
  <2> SUFFICES ASSUME isConnected PROVE \E i \in DOMAIN sockets' : sockets'[i].pc \in {"open", "closing"}
    OBVIOUS
  <2>1. containerId # "none"  BY <1>1
  <2>2. PICK i \in DOMAIN sockets : sockets[i].pc \in {"open", "closing"}
    BY <1>1, <2>1 DEF Terminal!StatusIsOfTheSocket, Terminal!Gone
  <2>3. i \in DOMAIN sockets' /\ sockets'[i].pc \in {"open", "closing"}
    BY <2>2, <1>2, <1>4, <1>6
  <2> QED  BY <2>3
<1>11. Terminal!StatusIsOfTheSocket'
  BY <1>3, <1>6, <1>7, <1>10 DEF Terminal!StatusIsOfTheSocket
<1> QED
  BY <1>3, <1>6, <1>8, <1>9, <1>11 DEF TerminalIInv

\* The panel is mounted.
LEMMA MountKeeps ==
  ASSUME TerminalIInv, NEW c \in Containers, Terminal!Mount(c) PROVE TerminalIInv'
BY ConnectMakesOne DEF Terminal!Mount

\* The container is recreated under the panel.
LEMMA ReplacementKeeps ==
  ASSUME TerminalIInv, NEW c \in Containers, Terminal!ContainerReplaced(c)
  PROVE  TerminalIInv'
BY ConnectMakesOne, ContainersAssumption DEF Terminal!ContainerReplaced

\* The button that connects again.
LEMMA ReconnectKeeps ==
  ASSUME TerminalIInv, Terminal!HandleReconnect PROVE TerminalIInv'
<1>1. containerId \in Containers /\ containerId # "none"
  BY DEF TerminalIInv, Terminal!TerminalTypeOK, Terminal!HandleReconnect, Terminal!Gone
<1>2. Terminal!Connect(containerId) /\ UNCHANGED <<containerId, isConnected, keyTo>>
  BY DEF Terminal!HandleReconnect
<1> QED  BY <1>1, <1>2, ConnectMakesOne

\* The panel is gone: its socket is closed.
LEMMA UnmountKeeps ==
  ASSUME TerminalIInv, Terminal!Unmount PROVE TerminalIInv'
<1> DEFINE cs == Terminal!CleanedUp(sockets)
<1>1. /\ Terminal!TerminalTypeOK
      /\ containerId # "none" => sockets # << >> /\ cleanupRef = Len(sockets)
      /\ Terminal!OneTerminal
  BY DEF TerminalIInv
<1>2. /\ cs \in Seq(Terminal!Socket)
      /\ Len(cs) = Len(sockets)
      /\ \A i \in DOMAIN sockets :
              /\ i # cleanupRef => cs[i] = sockets[i]
              /\ i = cleanupRef => ~cs[i].listening
              /\ i = cleanupRef => cs[i].pc \notin Terminal!Alive
  BY <1>1, CleanedUpIsSeq
<1> HIDE DEF cs
<1>3. /\ containerId # "none" /\ containerId' = "none"
      /\ sockets' = cs
      /\ cleanupRef' = 0
      /\ UNCHANGED <<isConnected, isReconnecting, keyTo>>
  BY DEF Terminal!Unmount, Terminal!Gone, Terminal!None, cs
<1>4. DOMAIN sockets' = DOMAIN sockets /\ Len(sockets) \in Nat /\ Len(sockets) # 0
  BY <1>1, <1>2, <1>3 DEF Terminal!TerminalTypeOK
<1>5. Terminal!TerminalTypeOK'
  BY <1>1, <1>2, <1>3, <1>4 DEF Terminal!TerminalTypeOK, Terminal!Gone, Terminal!None
<1>6. Terminal!OneTerminal'
  BY <1>1, <1>2, <1>3, <1>4 DEF Terminal!OneTerminal
<1>7. sockets' # << >>
  BY <1>2, <1>3, <1>4
<1> QED
  BY <1>3, <1>5, <1>6, <1>7 DEF TerminalIInv, Terminal!StatusIsOfTheSocket, Terminal!Gone

\* A socket opens.
LEMMA OpensKeeps ==
  ASSUME TerminalIInv, NEW i \in DOMAIN sockets, Terminal!Opens(i) PROVE TerminalIInv'
<1>1. /\ Terminal!TerminalTypeOK
      /\ containerId # "none" => sockets # << >> /\ cleanupRef = Len(sockets)
      /\ sockets = << >> => ~isConnected
      /\ Terminal!OneTerminal
      /\ Terminal!StatusIsOfTheSocket
  BY DEF TerminalIInv
<1>2. /\ sockets[i].pc = "connecting"
      /\ sockets' = [sockets EXCEPT ![i].pc = "open"]
      /\ isConnected' = TRUE /\ isReconnecting' = FALSE
      /\ containerId' = containerId /\ cleanupRef' = cleanupRef /\ keyTo' = keyTo
  BY DEF Terminal!Opens
<1>3. sockets \in Seq(Terminal!Socket)  BY <1>1 DEF Terminal!TerminalTypeOK
<1>4. sockets[i] \in Terminal!Socket  BY <1>3
<1>5. [sockets[i] EXCEPT !.pc = "open"] \in Terminal!Socket
  BY <1>4 DEF Terminal!Socket
<1>6. /\ sockets' \in Seq(Terminal!Socket)
      /\ DOMAIN sockets' = DOMAIN sockets
      /\ Len(sockets') = Len(sockets)
      /\ sockets' # << >>
      /\ \A j \in DOMAIN sockets : j # i => sockets'[j] = sockets[j]
      /\ sockets'[i].pc = "open"
      /\ sockets'[i].of = sockets[i].of
      /\ sockets'[i].listening = sockets[i].listening
      /\ sockets'[i].endedLate = sockets[i].endedLate
  BY <1>2, <1>3, <1>4, <1>5 DEF Terminal!Socket
<1>7. Terminal!TerminalTypeOK'
  BY <1>1, <1>2, <1>6 DEF Terminal!TerminalTypeOK
<1>8. Terminal!OneTerminal'
  BY <1>1, <1>2, <1>6 DEF Terminal!OneTerminal, Terminal!Alive
<1>9. Terminal!StatusIsOfTheSocket'
  BY <1>2, <1>6 DEF Terminal!StatusIsOfTheSocket
<1> QED
  BY <1>1, <1>2, <1>6, <1>7, <1>8, <1>9 DEF TerminalIInv

\* An end that came late is marked as such, and nothing else of it changes.
LEMMA MarkedLate ==
  ASSUME NEW s \in Terminal!Socket, NEW late \in BOOLEAN
  PROVE  LET m == [s EXCEPT !.endedLate = late]
         IN  /\ m \in Terminal!Socket
             /\ m.of = s.of /\ m.listening = s.listening /\ m.pc = s.pc
             /\ m.endedLate = late
BY DEF Terminal!Socket

\* A socket ends, in the order of its close events.
LEMMA EndsKeeps ==
  ASSUME TerminalIInv, NEW i \in DOMAIN sockets, Terminal!Ends(i) PROVE TerminalIInv'
<1>1. /\ Terminal!TerminalTypeOK
      /\ containerId # "none" => sockets # << >> /\ cleanupRef = Len(sockets)
      /\ sockets = << >> => ~isConnected
      /\ Terminal!OneTerminal
      /\ Terminal!StatusIsOfTheSocket
  BY DEF TerminalIInv
<1> DEFINE es == [j \in DOMAIN sockets |->
          IF j = i THEN [sockets[j] EXCEPT !.pc = "closed"]
          ELSE [sockets[j] EXCEPT !.endedLate = @ \/ j > i]]
<1>2. /\ sockets' = es
      /\ containerId' = containerId /\ cleanupRef' = cleanupRef /\ keyTo' = keyTo
      /\ containerId # "none" => isConnected' = FALSE /\ isReconnecting' = FALSE
      /\ containerId = "none" => isConnected' = isConnected /\ isReconnecting' = isReconnecting
  BY DEF Terminal!Ends, Terminal!Gone
<1>3. /\ sockets \in Seq(Terminal!Socket) /\ DOMAIN sockets = 1 .. Len(sockets)
      /\ Len(sockets) \in Nat
  BY <1>1 DEF Terminal!TerminalTypeOK
<1>4. \A j \in DOMAIN sockets : sockets[j] \in Terminal!Socket  BY <1>3
<1>5. \A j \in DOMAIN sockets :
        es[j] = IF j = i THEN [sockets[j] EXCEPT !.pc = "closed"]
                ELSE [sockets[j] EXCEPT !.endedLate = @ \/ j > i]
  OBVIOUS
<1>6. es = [j \in 1 .. Len(sockets) |-> es[j]]  BY <1>3
<1> HIDE DEF es
<1>7. ASSUME NEW j \in DOMAIN sockets, j # i
      PROVE  /\ es[j] \in Terminal!Socket
             /\ es[j].of = sockets[j].of /\ es[j].listening = sockets[j].listening
             /\ es[j].pc = sockets[j].pc
             /\ j > i => es[j].endedLate
  <2> DEFINE late == sockets[j].endedLate \/ j > i
  <2>1. es[j] = [sockets[j] EXCEPT !.endedLate = late]  BY <1>5, <1>7
  <2>2. late \in BOOLEAN  OBVIOUS
  <2>3. j > i => late  OBVIOUS
  <2> HIDE DEF late
  <2> QED  BY <1>4, <2>1, <2>2, <2>3, MarkedLate
<1>71. /\ es[i] \in Terminal!Socket
       /\ es[i].of = sockets[i].of /\ es[i].listening = sockets[i].listening
       /\ es[i].pc = "closed"
  BY <1>4, <1>5 DEF Terminal!Socket
<1>8. es \in [1 .. Len(sockets) -> Terminal!Socket]  BY <1>3, <1>6, <1>7, <1>71
<1>9. /\ sockets' \in Seq(Terminal!Socket)
      /\ Len(sockets') = Len(sockets) /\ DOMAIN sockets' = DOMAIN sockets
      /\ sockets' # << >>
  BY <1>2, <1>3, <1>8
<1>10. isConnected' \in BOOLEAN /\ isReconnecting' \in BOOLEAN
  <2>1. CASE containerId # "none"  BY <1>2, <2>1
  <2>2. CASE containerId = "none"  BY <1>1, <1>2, <2>2 DEF Terminal!TerminalTypeOK
  <2> QED  BY <2>1, <2>2
<1>11. Terminal!TerminalTypeOK'
  BY <1>1, <1>2, <1>9, <1>10 DEF Terminal!TerminalTypeOK
<1>12. Terminal!OneTerminal'
  BY <1>1, <1>2, <1>7, <1>71, <1>9 DEF Terminal!OneTerminal, Terminal!Alive
<1>13. Terminal!StatusIsOfTheSocket'
  <2> SUFFICES ASSUME containerId # "none"
               PROVE  es[cleanupRef].pc = "open" => es[cleanupRef].endedLate
    BY <1>2 DEF Terminal!StatusIsOfTheSocket, Terminal!Gone
  <2>1. cleanupRef \in DOMAIN sockets /\ (cleanupRef = i \/ cleanupRef > i)
    BY <1>1, <1>3
  <2> QED  BY <1>7, <1>71, <2>1
<1> QED
  BY <1>1, <1>2, <1>9, <1>11, <1>12, <1>13 DEF TerminalIInv

\* Every step of the terminal keeps its invariant.
LEMMA TerminalIsKept == TerminalIInv /\ [Next]_vars => TerminalIInv'
<1> SUFFICES ASSUME TerminalIInv, [Next]_vars PROVE TerminalIInv'
  OBVIOUS
<1>0. [Terminal!TerminalNext]_terminalVars  BY TerminalRun
<1>1. CASE Terminal!TypeKey
  <2>1. TerminalIInv /\ UNCHANGED <<containerId, isConnected, isReconnecting, sockets, cleanupRef>>
    BY <1>1 DEF Terminal!TypeKey
  <2>2. keyTo' \in DOMAIN sockets
    BY <1>1 DEF Terminal!TypeKey
  <2>3. Terminal!TerminalTypeOK'
    BY <2>1, <2>2 DEF TerminalIInv, Terminal!TerminalTypeOK
  <2> QED
    BY <2>1, <2>3 DEF TerminalIInv, Terminal!OneTerminal, Terminal!Alive,
                      Terminal!StatusIsOfTheSocket, Terminal!Gone
<1>2. CASE UNCHANGED terminalVars
  BY <1>2 DEF terminalVars, TerminalIInv, Terminal!TerminalTypeOK, Terminal!OneTerminal,
              Terminal!Alive, Terminal!StatusIsOfTheSocket, Terminal!Gone
<1> QED
  BY <1>0, <1>1, <1>2, MountKeeps, ReplacementKeeps, ReconnectKeeps, UnmountKeeps, OpensKeeps,
     EndsKeeps DEF Terminal!TerminalNext

\* The invariant of the terminal holds throughout.
LEMMA TerminalStays == Spec => []TerminalIInv
BY TerminalStarts, TerminalIsKept, PTL DEF Spec

-----------------------------------------------------------------------------
(* StatsPanel.                                                             *)

\* The two properties of the panel are inductive with its types.
StatsIInv ==
    /\ Stats!StatsTypeOK
    /\ Stats!StatsStayInReach
    /\ Stats!LiveIsOpen

\* The pages run the statistics by their own steps.
LEMMA StatsRun == [Next]_vars => [Stats!StatsNext]_statsVars
<1>1. CASE Next
  BY <1>1 DEF Next
<1>2. CASE UNCHANGED vars
  BY <1>2 DEF vars
<1> QED  BY <1>1, <1>2

\* The panel starts without a socket.
LEMMA StatsStarts == Init => StatsIInv
<1> SUFFICES ASSUME Stats!StatsInit PROVE StatsIInv
  BY DEF Init
<1>1. /\ statsSockets \in Seq(Stats!Socket) /\ DOMAIN statsSockets = {}
      /\ samples \in Seq(Containers) /\ Len(samples) <= HistoryLength
  BY BoundsAssumption DEF Stats!StatsInit
<1> QED
  BY <1>1 DEF Stats!StatsInit, StatsIInv, Stats!StatsTypeOK, Stats!StatsStayInReach,
       Stats!LiveIsOpen, Stats!Gone, Stats!None

\* What disconnect leaves: every socket but the one in wsRef as it is, and
\* that one neither connecting nor open.
LEMMA DisconnectedIsSeq ==
  ASSUME Stats!StatsTypeOK
  PROVE  /\ Stats!Disconnected \in Seq(Stats!Socket)
         /\ Len(Stats!Disconnected) = Len(statsSockets)
         /\ DOMAIN Stats!Disconnected = DOMAIN statsSockets
         /\ \A i \in DOMAIN statsSockets :
              /\ i # wsRef => Stats!Disconnected[i] = statsSockets[i]
              /\ i = wsRef => Stats!Disconnected[i].pc \notin Stats!Alive
<1> DEFINE d == Stats!Disconnected
<1>1. /\ statsSockets \in Seq(Stats!Socket)
      /\ wsRef = 0 \/ wsRef \in DOMAIN statsSockets
      /\ 0 \notin DOMAIN statsSockets
  BY DEF Stats!StatsTypeOK, Stats!None
<1>2. CASE wsRef = 0
  <2>1. d = statsSockets  BY <1>2 DEF Stats!Disconnected, Stats!None
  <2> QED  BY <1>1, <1>2, <2>1
<1>3. CASE wsRef # 0
  <2>1. PICK p : d = [statsSockets EXCEPT ![wsRef].pc = p]
                 /\ p \notin Stats!Alive /\ p \in {"aborting", "closing", "closed"}
    <3>1. statsSockets[wsRef].pc \in {"connecting", "open", "closing", "aborting", "closed"}
      <4>1. statsSockets[wsRef] \in Stats!Socket  BY <1>1, <1>3
      <4> QED  BY <4>1 DEF Stats!Socket
    <3>2. d = [statsSockets EXCEPT ![wsRef].pc =
                  CASE statsSockets[wsRef].pc = "connecting" -> "aborting"
                    [] statsSockets[wsRef].pc = "open" -> "closing"
                    [] OTHER -> statsSockets[wsRef].pc]
      BY <1>3 DEF Stats!Disconnected, Stats!None
    <3>3. CASE statsSockets[wsRef].pc = "connecting"
      <4>1. d = [statsSockets EXCEPT ![wsRef].pc = "aborting"]  BY <3>2, <3>3
      <4> QED  BY <4>1 DEF Stats!Alive
    <3>4. CASE statsSockets[wsRef].pc = "open"
      <4>1. d = [statsSockets EXCEPT ![wsRef].pc = "closing"]  BY <3>2, <3>4
      <4> QED  BY <4>1 DEF Stats!Alive
    <3>5. CASE statsSockets[wsRef].pc \in {"closing", "aborting", "closed"}
      <4>1. d = [statsSockets EXCEPT ![wsRef].pc = statsSockets[wsRef].pc]  BY <3>2, <3>5
      <4> QED  BY <3>5, <4>1 DEF Stats!Alive
    <3> QED  BY <3>1, <3>3, <3>4, <3>5
  <2>2. statsSockets[wsRef] \in Stats!Socket  BY <1>1, <1>3
  <2>3. [statsSockets[wsRef] EXCEPT !.pc = p] \in Stats!Socket
    BY <2>1, <2>2 DEF Stats!Socket
  <2> HIDE DEF d
  <2>4. /\ d \in Seq(Stats!Socket) /\ Len(d) = Len(statsSockets)
        /\ DOMAIN d = DOMAIN statsSockets
        /\ \A i \in DOMAIN statsSockets : i # wsRef => d[i] = statsSockets[i]
        /\ d[wsRef] = [statsSockets[wsRef] EXCEPT !.pc = p]
    BY <1>1, <1>3, <2>1, <2>3
  <2>5. d[wsRef].pc = p  BY <2>2, <2>4 DEF Stats!Socket
  <2> QED  BY <2>1, <2>4, <2>5 DEF d
<1> QED  BY <1>2, <1>3

\* A socket is made behind those of ss, of which the ones that run are
\* forgotten.
LEMMA NewOneIsInReach ==
  ASSUME NEW ss \in Seq(Stats!Socket), Len(ss) = Len(statsSockets), NEW c \in Containers,
         statsSockets \in Seq(Stats!Socket),
         \A i \in DOMAIN ss : ss[i].pc \in Stats!Alive => ss[i].forgotten,
         statsSockets' = Append(ss, Stats!New(c)), wsRef' = Len(statsSockets) + 1,
         shown' = c
  PROVE  /\ statsSockets' \in Seq(Stats!Socket)
         /\ wsRef' \in DOMAIN statsSockets'
         /\ Stats!StatsStayInReach'
<1>1. Stats!New(c) \in Stats!Socket /\ Stats!New(c).of = c
  BY DEF Stats!New, Stats!Socket
<1> DEFINE new == Stats!New(c)
<1> HIDE DEF new
<1>2. /\ statsSockets' \in Seq(Stats!Socket)
      /\ DOMAIN statsSockets' = 1 .. (Len(ss) + 1)
      /\ DOMAIN ss = 1 .. Len(ss) /\ Len(ss) \in Nat
      /\ \A i \in DOMAIN ss : statsSockets'[i] = ss[i]
      /\ statsSockets'[Len(ss) + 1] = new
  BY <1>1 DEF new
<1>3. wsRef' = Len(ss) + 1  OBVIOUS
<1>4. wsRef' \in DOMAIN statsSockets'  BY <1>2, <1>3
<1>5. Stats!StatsStayInReach'
  <2> SUFFICES ASSUME NEW i \in DOMAIN statsSockets', statsSockets'[i].pc \in Stats!Alive
               PROVE  statsSockets'[i].forgotten \/ (i = wsRef' /\ statsSockets'[i].of = shown')
    BY DEF Stats!StatsStayInReach, Stats!Alive
  <2>1. CASE i \in DOMAIN ss  BY <1>2, <2>1
  <2>2. CASE i = Len(ss) + 1  BY <1>1, <1>2, <1>3, <2>2 DEF new
  <2> QED  BY <1>2, <2>1, <2>2
<1> QED  BY <1>2, <1>4, <1>5

\* The effect of useContainerStats on a change of what it depends on.
LEMMA EffectKeeps ==
  ASSUME StatsIInv, NEW c \in Containers, NEW on \in BOOLEAN, Stats!Effect(on, c), shown' = c,
         enabled' \in BOOLEAN, statsError' = statsError, samples' = samples
  PROVE  StatsIInv'
<1> DEFINE d == Stats!Disconnected
<1>1. Stats!StatsTypeOK /\ Stats!StatsStayInReach  BY DEF StatsIInv
<1>2. /\ d \in Seq(Stats!Socket)
      /\ Len(d) = Len(statsSockets)
      /\ DOMAIN d = DOMAIN statsSockets
      /\ \A i \in DOMAIN statsSockets :
           /\ i # wsRef => d[i] = statsSockets[i]
           /\ i = wsRef => d[i].pc \notin Stats!Alive
  BY <1>1, DisconnectedIsSeq
<1>3. /\ statsSockets' = IF on THEN Append(d, Stats!New(c)) ELSE d
      /\ wsRef' = IF on THEN Len(statsSockets) + 1 ELSE 0
      /\ isLive' = FALSE
  BY DEF Stats!Effect, Stats!None
<1> HIDE DEF d
<1>4. statsSockets \in Seq(Stats!Socket)  BY <1>1 DEF Stats!StatsTypeOK
<1>5. \A i \in DOMAIN d : d[i].pc \in Stats!Alive => d[i].forgotten
  BY <1>1, <1>2 DEF Stats!StatsStayInReach
<1>6. /\ statsSockets' \in Seq(Stats!Socket)
      /\ wsRef' = 0 \/ wsRef' \in DOMAIN statsSockets'
      /\ Stats!StatsStayInReach'
  <2>1. CASE on
    <3>1. statsSockets' = Append(d, Stats!New(c)) /\ wsRef' = Len(statsSockets) + 1
      BY <1>3, <2>1
    <3> QED  BY <1>2, <1>4, <1>5, <3>1, NewOneIsInReach
  <2>2. CASE ~on
    <3>1. statsSockets' = d /\ wsRef' = 0  BY <1>3, <2>2
    <3> QED  BY <1>2, <1>5, <3>1 DEF Stats!StatsStayInReach, Stats!Alive
  <2> QED  BY <2>1, <2>2
<1>7. Stats!StatsTypeOK'
  BY <1>1, <1>3, <1>6 DEF Stats!StatsTypeOK, Stats!None, Stats!Gone
<1>8. Stats!LiveIsOpen'
  BY <1>3 DEF Stats!LiveIsOpen
<1> QED  BY <1>6, <1>7, <1>8 DEF StatsIInv

\* The panel is mounted.
LEMMA StatsMountKeeps ==
  ASSUME StatsIInv, NEW c \in Containers, Stats!Mount(c) PROVE StatsIInv'
<1>1. Stats!Effect(TRUE, c) /\ shown' = c /\ enabled' \in BOOLEAN /\ UNCHANGED <<statsError, samples>>
  BY DEF Stats!Mount
<1> QED  BY <1>1, EffectKeeps

\* The container is recreated under the panel.
LEMMA StatsReplacementKeeps ==
  ASSUME StatsIInv, NEW c \in Containers, Stats!ContainerReplaced(c) PROVE StatsIInv'
<1>1. Stats!Effect(enabled, c) /\ shown' = c /\ UNCHANGED <<enabled, statsError, samples>>
  BY DEF Stats!ContainerReplaced
<1>2. enabled \in BOOLEAN  BY DEF StatsIInv, Stats!StatsTypeOK
<1> QED  BY <1>1, <1>2, EffectKeeps

\* The tab of the statistics is selected or left.
LEMMA SelectTabKeeps ==
  ASSUME StatsIInv, Stats!SelectTab PROVE StatsIInv'
<1>1. Stats!Effect(~enabled, shown) /\ enabled' = ~enabled
      /\ UNCHANGED <<shown, statsError, samples>>
  BY DEF Stats!SelectTab
<1>2. (~enabled) \in BOOLEAN  OBVIOUS
<1>3. shown \in Containers  BY DEF StatsIInv, Stats!StatsTypeOK, Stats!SelectTab
<1> QED  BY <1>1, <1>2, <1>3, EffectKeeps

\* The panel is gone: its socket is closed.
LEMMA StatsUnmountKeeps ==
  ASSUME StatsIInv, Stats!Unmount PROVE StatsIInv'
<1>1. Stats!StatsTypeOK /\ Stats!StatsStayInReach  BY DEF StatsIInv
<1>2. /\ shown' = "none"
      /\ statsSockets' = Stats!Disconnected
      /\ wsRef' = 0
      /\ UNCHANGED <<enabled, isLive, statsError, samples>>
  BY DEF Stats!Unmount, Stats!Gone, Stats!None
<1>3. Stats!StatsTypeOK'
  BY <1>1, <1>2, DisconnectedIsSeq DEF Stats!StatsTypeOK, Stats!None, Stats!Gone
<1>4. Stats!StatsStayInReach'
  BY <1>1, <1>2, DisconnectedIsSeq DEF Stats!StatsStayInReach, Stats!Alive
<1> QED
  BY <1>2, <1>3, <1>4 DEF StatsIInv, Stats!LiveIsOpen, Stats!Gone

\* The button: it disconnects, or connects and forgets what still connects.
LEMMA ToggleKeeps ==
  ASSUME StatsIInv, Stats!HandleToggleStats PROVE StatsIInv'
<1>1. Stats!StatsTypeOK /\ Stats!StatsStayInReach /\ Stats!LiveIsOpen  BY DEF StatsIInv
<1>2. /\ shown # "none"
      /\ UNCHANGED <<shown, enabled, statsError>>
      /\ IF isLive
         THEN /\ statsSockets' = Stats!Disconnected
              /\ wsRef' = 0 /\ isLive' = FALSE
              /\ samples' = samples
         ELSE /\ samples' = << >>
              /\ Stats!Connect
              /\ isLive' = isLive
  BY DEF Stats!HandleToggleStats, Stats!Gone, Stats!None
<1>3. CASE isLive
  <2>1. /\ statsSockets' = Stats!Disconnected /\ wsRef' = 0 /\ isLive' = FALSE
        /\ samples' = samples
    BY <1>2, <1>3
  <2>2. Stats!StatsTypeOK'
    BY <1>1, <1>2, <2>1, DisconnectedIsSeq DEF Stats!StatsTypeOK, Stats!None, Stats!Gone
  <2>3. Stats!StatsStayInReach'
    BY <1>1, <1>2, <2>1, DisconnectedIsSeq DEF Stats!StatsStayInReach, Stats!Alive
  <2> QED  BY <2>1, <2>2, <2>3 DEF StatsIInv, Stats!LiveIsOpen
<1>4. CASE ~isLive
  <2>1. samples' = << >> /\ Stats!Connect /\ isLive' = FALSE
    BY <1>1, <1>2, <1>4 DEF Stats!StatsTypeOK
  <2>2. samples' \in Seq(Containers) /\ Len(samples') <= HistoryLength
    BY <2>1, BoundsAssumption
  <2>3. Stats!LiveIsOpen'  BY <2>1 DEF Stats!LiveIsOpen
  <2>4. CASE Stats!IsOpen
    <3>1. UNCHANGED <<statsSockets, wsRef>>  BY <2>1, <2>4 DEF Stats!Connect
    <3>2. Stats!StatsTypeOK'
      BY <1>1, <1>2, <2>1, <2>2, <3>1 DEF Stats!StatsTypeOK
    <3> QED  BY <1>1, <1>2, <2>3, <3>1, <3>2 DEF StatsIInv, Stats!StatsStayInReach, Stats!Alive
  <2>5. CASE ~Stats!IsOpen
    <3> DEFINE f == Stats!Forgotten
    <3>1. statsSockets' = Append(f, Stats!New(shown)) /\ wsRef' = Len(statsSockets) + 1
      BY <2>1, <2>5 DEF Stats!Connect
    <3>2. /\ statsSockets \in Seq(Stats!Socket) /\ DOMAIN statsSockets = 1 .. Len(statsSockets)
          /\ Len(statsSockets) \in Nat /\ shown \in Containers
          /\ wsRef = 0 \/ wsRef \in DOMAIN statsSockets
      BY <1>1, <1>2 DEF Stats!StatsTypeOK, Stats!Gone, Stats!None
    <3>3. \A i \in DOMAIN statsSockets : statsSockets[i] \in Stats!Socket  BY <3>2
    <3>4. \A i \in DOMAIN statsSockets :
            f[i] = [statsSockets[i] EXCEPT !.forgotten =
                      statsSockets[i].forgotten
                      \/ (i = wsRef /\ statsSockets[i].pc = "connecting")]
      BY DEF Stats!Forgotten
    <3>5. f = [i \in 1 .. Len(statsSockets) |-> f[i]]  BY <3>2 DEF Stats!Forgotten
    <3> HIDE DEF f
    <3>6. ASSUME NEW i \in DOMAIN statsSockets
          PROVE  /\ f[i] \in Stats!Socket
                 /\ f[i].pc \in Stats!Alive => f[i].forgotten
      <4> DEFINE b == statsSockets[i].forgotten
                      \/ (i = wsRef /\ statsSockets[i].pc = "connecting")
      <4>1. f[i] = [statsSockets[i] EXCEPT !.forgotten = b]  BY <3>4
      <4>2. b \in BOOLEAN  OBVIOUS
      <4>3. statsSockets[i].pc \in Stats!Alive => b
        <5>1. CASE statsSockets[i].forgotten  BY <5>1
        <5>2. CASE ~statsSockets[i].forgotten /\ statsSockets[i].pc \in Stats!Alive
          <6>1. i = wsRef  BY <1>1, <5>2 DEF Stats!StatsStayInReach
          <6>2. wsRef # 0  BY <3>2, <6>1
          <6>3. statsSockets[i].pc # "open"
            BY <2>5, <6>1, <6>2 DEF Stats!IsOpen, Stats!None
          <6> QED  BY <5>2, <6>1, <6>3 DEF Stats!Alive
        <5> QED  BY <5>1, <5>2
      <4> HIDE DEF b
      <4>4. f[i] \in Stats!Socket /\ f[i].forgotten = b /\ f[i].pc = statsSockets[i].pc
        BY <3>3, <4>1, <4>2 DEF Stats!Socket
      <4> QED  BY <4>3, <4>4
    <3>7. f \in [1 .. Len(statsSockets) -> Stats!Socket]  BY <3>2, <3>5, <3>6
    <3>8. f \in Seq(Stats!Socket) /\ Len(f) = Len(statsSockets)
          /\ DOMAIN f = DOMAIN statsSockets
      BY <3>2, <3>7
    <3>9. /\ statsSockets' \in Seq(Stats!Socket)
          /\ wsRef' \in DOMAIN statsSockets'
          /\ Stats!StatsStayInReach'
      BY <1>2, <3>1, <3>2, <3>6, <3>8, NewOneIsInReach
    <3>10. Stats!StatsTypeOK'
      BY <1>1, <1>2, <2>1, <2>2, <3>9 DEF Stats!StatsTypeOK
    <3> QED  BY <2>3, <3>9, <3>10 DEF StatsIInv
  <2> QED  BY <2>4, <2>5
<1> QED  BY <1>3, <1>4

\* A socket opens.
LEMMA StatsOpensKeeps ==
  ASSUME StatsIInv, NEW i \in DOMAIN statsSockets, Stats!Opens(i) PROVE StatsIInv'
<1>1. Stats!StatsTypeOK /\ Stats!StatsStayInReach  BY DEF StatsIInv
<1>2. /\ statsSockets[i].pc = "connecting"
      /\ statsSockets' = [statsSockets EXCEPT ![i].pc = "open"]
      /\ UNCHANGED <<shown, enabled, samples, wsRef>>
      /\ shown = "none" => UNCHANGED <<isLive, statsError>>
      /\ shown # "none" => isLive' = TRUE /\ statsError' = FALSE
  BY DEF Stats!Opens, Stats!Gone
<1>3. statsSockets \in Seq(Stats!Socket)  BY <1>1 DEF Stats!StatsTypeOK
<1>4. statsSockets[i] \in Stats!Socket  BY <1>3
<1>5. [statsSockets[i] EXCEPT !.pc = "open"] \in Stats!Socket  BY <1>4 DEF Stats!Socket
<1>6. /\ statsSockets' \in Seq(Stats!Socket)
      /\ DOMAIN statsSockets' = DOMAIN statsSockets
      /\ \A j \in DOMAIN statsSockets : j # i => statsSockets'[j] = statsSockets[j]
      /\ statsSockets'[i] = [statsSockets[i] EXCEPT !.pc = "open"]
  BY <1>2, <1>3, <1>4, <1>5
<1>7. /\ statsSockets'[i].pc = "open"
      /\ statsSockets'[i].of = statsSockets[i].of
      /\ statsSockets'[i].forgotten = statsSockets[i].forgotten
  BY <1>4, <1>6 DEF Stats!Socket
<1>8. isLive' \in BOOLEAN /\ statsError' \in BOOLEAN
  <2>1. CASE shown = "none"  BY <1>1, <1>2, <2>1 DEF Stats!StatsTypeOK
  <2>2. CASE shown # "none"  BY <1>2, <2>2
  <2> QED  BY <2>1, <2>2
<1>9. Stats!StatsTypeOK'
  BY <1>1, <1>2, <1>6, <1>8 DEF Stats!StatsTypeOK
<1>10. Stats!StatsStayInReach'
  BY <1>1, <1>2, <1>6, <1>7 DEF Stats!StatsStayInReach, Stats!Alive
<1>11. Stats!LiveIsOpen'
  BY <1>6, <1>7 DEF Stats!LiveIsOpen
<1> QED  BY <1>9, <1>10, <1>11 DEF StatsIInv

\* A socket ends.
LEMMA StatsEndsKeeps ==
  ASSUME StatsIInv, NEW i \in DOMAIN statsSockets, Stats!Ends(i) PROVE StatsIInv'
<1>1. Stats!StatsTypeOK /\ Stats!StatsStayInReach /\ Stats!LiveIsOpen  BY DEF StatsIInv
<1>2. /\ statsSockets' = [statsSockets EXCEPT ![i].pc = "closed"]
      /\ UNCHANGED <<shown, enabled, samples, wsRef>>
      /\ shown = "none" => UNCHANGED <<isLive, statsError>>
      /\ shown # "none" => isLive' = FALSE
      /\ statsError' = TRUE \/ statsError' = statsError
  BY DEF Stats!Ends, Stats!Gone
<1>3. statsSockets \in Seq(Stats!Socket)  BY <1>1 DEF Stats!StatsTypeOK
<1>4. statsSockets[i] \in Stats!Socket  BY <1>3
<1>5. [statsSockets[i] EXCEPT !.pc = "closed"] \in Stats!Socket  BY <1>4 DEF Stats!Socket
<1>6. /\ statsSockets' \in Seq(Stats!Socket)
      /\ DOMAIN statsSockets' = DOMAIN statsSockets
      /\ \A j \in DOMAIN statsSockets : j # i => statsSockets'[j] = statsSockets[j]
      /\ statsSockets'[i] = [statsSockets[i] EXCEPT !.pc = "closed"]
  BY <1>2, <1>3, <1>4, <1>5
<1>7. statsSockets'[i].pc = "closed"
  BY <1>4, <1>6 DEF Stats!Socket
<1>8. isLive' \in BOOLEAN
  <2>1. CASE shown = "none"  BY <1>1, <1>2, <2>1 DEF Stats!StatsTypeOK
  <2>2. CASE shown # "none"  BY <1>2, <2>2
  <2> QED  BY <2>1, <2>2
<1>81. statsError' \in BOOLEAN
  <2>1. statsError \in BOOLEAN  BY <1>1 DEF Stats!StatsTypeOK
  <2>2. CASE statsError' = TRUE  BY <2>2
  <2>3. CASE statsError' = statsError  BY <2>1, <2>3
  <2> QED  BY <1>2, <2>2, <2>3
<1>9. Stats!StatsTypeOK'
  BY <1>1, <1>2, <1>6, <1>8, <1>81 DEF Stats!StatsTypeOK
<1>10. Stats!StatsStayInReach'
  BY <1>1, <1>2, <1>6, <1>7 DEF Stats!StatsStayInReach, Stats!Alive
<1>11. Stats!LiveIsOpen'
  BY <1>1, <1>2 DEF Stats!LiveIsOpen, Stats!Gone
<1> QED  BY <1>9, <1>10, <1>11 DEF StatsIInv

\* A history that takes a sample is a sequence no longer than its bound.
LEMMA NewestIsSeq ==
  ASSUME NEW s \in Seq(Containers), Len(s) <= HistoryLength, NEW c \in Containers
  PROVE  /\ Stats!Newest(Append(s, c)) \in Seq(Containers)
         /\ Len(Stats!Newest(Append(s, c))) <= HistoryLength
<1> DEFINE a == Append(s, c)
<1>1. a \in Seq(Containers) /\ Len(a) = Len(s) + 1 /\ Len(s) \in Nat  OBVIOUS
<1> HIDE DEF a
<1>2. a # << >>  BY <1>1
<1>3. Tail(a) \in Seq(Containers) /\ Len(Tail(a)) = Len(a) - 1  BY <1>1, <1>2
<1> QED  BY <1>1, <1>3, BoundsAssumption DEF Stats!Newest, a

\* A sample arrives.
LEMMA SampleKeeps ==
  ASSUME StatsIInv, NEW i \in DOMAIN statsSockets, Stats!Sample(i) PROVE StatsIInv'
<1>1. Stats!StatsTypeOK  BY DEF StatsIInv
<1>2. /\ samples' = Stats!Newest(Append(samples, statsSockets[i].of))
      /\ UNCHANGED <<shown, enabled, isLive, statsError, wsRef, statsSockets>>
  BY DEF Stats!Sample
<1>3. statsSockets[i].of \in Containers
  <2>1. statsSockets[i] \in Stats!Socket  BY <1>1 DEF Stats!StatsTypeOK
  <2> QED  BY <2>1 DEF Stats!Socket
<1>4. samples' \in Seq(Containers) /\ Len(samples') <= HistoryLength
  BY <1>1, <1>2, <1>3, NewestIsSeq DEF Stats!StatsTypeOK
<1>5. Stats!StatsTypeOK'  BY <1>1, <1>2, <1>4 DEF Stats!StatsTypeOK
<1> QED
  BY <1>2, <1>5 DEF StatsIInv, Stats!StatsStayInReach, Stats!LiveIsOpen, Stats!Alive

\* Every step of the statistics keeps their invariant.
LEMMA StatsIsKept == StatsIInv /\ [Next]_vars => StatsIInv'
<1> SUFFICES ASSUME StatsIInv, [Next]_vars PROVE StatsIInv'
  OBVIOUS
<1>0. [Stats!StatsNext]_statsVars  BY StatsRun
<1>1. CASE UNCHANGED statsVars
  <2>1. UNCHANGED <<shown, enabled, isLive, statsError, samples, wsRef, statsSockets>>
    BY <1>1 DEF statsVars
  <2>2. Stats!StatsTypeOK'  BY <2>1 DEF StatsIInv, Stats!StatsTypeOK
  <2> QED
    BY <2>1, <2>2 DEF StatsIInv, Stats!StatsStayInReach, Stats!LiveIsOpen, Stats!Alive, Stats!Gone
<1> QED
  BY <1>0, <1>1, StatsMountKeeps, StatsReplacementKeeps, SelectTabKeeps, StatsUnmountKeeps,
     ToggleKeeps, StatsOpensKeeps, StatsEndsKeeps, SampleKeeps DEF Stats!StatsNext

\* The invariant of the statistics holds throughout.
LEMMA StatsStays == Spec => []StatsIInv
BY StatsStarts, StatsIsKept, PTL DEF Spec

-----------------------------------------------------------------------------
(* LogStreaming.                                                           *)

\* A stream that was alone when it started follows streams that have ended.
AloneFollowsEnded ==
    \A k \in DOMAIN streams : streams[k].alone =>
        \A j \in DOMAIN streams : j < k => streams[j].pc = "ended"

StreamsInv ==
    /\ controller = 0 \/ controller \in DOMAIN streams
    /\ streams \in Seq(Logs!Stream)
    /\ Len(streams) <= MaxStreams
    /\ isStreaming \in BOOLEAN
    /\ AloneFollowsEnded
    /\ Logs!StoppableUnlessOverlapped

LoadingInv ==
    /\ isLoadingLogs \in BOOLEAN
    /\ fetches \in Seq(Logs!Fetch)
    /\ Len(fetches) <= MaxFetches
    /\ Logs!LoadingIsAsked

PageInv ==
    /\ actual \in 1 .. MaxIncarnations
    /\ listed \in 0 .. MaxIncarnations
    /\ mounted \in BOOLEAN
    /\ logLines \in LineCounts
    /\ recreated \in [pc : {"no", "refetching", "waiting"}, of : 0 .. MaxIncarnations,
                      streaming : BOOLEAN]

LogsIInv ==
    /\ PageInv
    /\ StreamsInv
    /\ LoadingInv
    /\ logs \in Seq(Logs!Entries)

\* The pages run the logs page by its own steps.
LEMMA LogsRun == [Next]_vars => [Logs!Next]_logsVars
<1>1. CASE Next
  BY <1>1 DEF Next
<1>2. CASE UNCHANGED vars
  BY <1>2 DEF vars
<1> QED  BY <1>1, <1>2

\* The page starts without a stream or a fetch.
LEMMA LogsStarts == Init => LogsIInv
<1> SUFFICES ASSUME Logs!Init PROVE LogsIInv
  BY DEF Init
<1>1. /\ streams \in Seq(Logs!Stream) /\ DOMAIN streams = {} /\ Len(streams) = 0
      /\ fetches \in Seq(Logs!Fetch) /\ Len(fetches) = 0
      /\ logs \in Seq(Logs!Entries)
  BY DEF Logs!Init
<1>11. /\ controller = 0 /\ isStreaming = FALSE /\ isLoadingLogs = FALSE
       /\ 0 <= MaxStreams /\ 0 <= MaxFetches
  BY BoundsAssumption DEF Logs!Init, Logs!None
<1>2. StreamsInv
  BY <1>1, <1>11 DEF StreamsInv, AloneFollowsEnded, Logs!StoppableUnlessOverlapped
<1>3. LoadingInv
  BY <1>1, <1>11 DEF LoadingInv, Logs!LoadingIsAsked
<1>4. PageInv
  BY BoundsAssumption DEF Logs!Init, PageInv, Logs!NotRecreating, Logs!None
<1> QED  BY <1>1, <1>2, <1>3, <1>4 DEF LogsIInv

\* What an abort does to the streams: that of the reference is aborted, the
\* others stay.
LEMMA AbortedIsSeq ==
  ASSUME StreamsInv
  PROVE  /\ Logs!Aborted \in Seq(Logs!Stream)
         /\ Len(Logs!Aborted) = Len(streams)
         /\ DOMAIN Logs!Aborted = DOMAIN streams
         /\ \A i \in DOMAIN streams :
              /\ i # controller => Logs!Aborted[i] = streams[i]
              /\ i = controller => Logs!Aborted[i].aborted
              /\ Logs!Aborted[i].pc = streams[i].pc
              /\ Logs!Aborted[i].alone = streams[i].alone
<1> DEFINE a == Logs!Aborted
<1>1. /\ streams \in Seq(Logs!Stream)
      /\ controller = 0 \/ controller \in DOMAIN streams
      /\ 0 \notin DOMAIN streams
  BY DEF StreamsInv
<1>2. CASE controller = 0
  <2>1. a = streams  BY <1>2 DEF Logs!Aborted, Logs!None
  <2> QED  BY <1>1, <1>2, <2>1
<1>3. CASE controller # 0
  <2> DEFINE r == [streams[controller] EXCEPT !.aborted = TRUE]
  <2>1. a = [streams EXCEPT ![controller] = r]
    BY <1>3 DEF Logs!Aborted, Logs!None
  <2>2. streams[controller] \in Logs!Stream  BY <1>1, <1>3
  <2>3. r \in Logs!Stream
    BY <2>2 DEF Logs!Stream
  <2>4. r.aborted = TRUE
    BY <2>2 DEF Logs!Stream
  <2>5. r.pc = streams[controller].pc
    BY <2>2 DEF Logs!Stream
  <2>6. r.alone = streams[controller].alone
    BY <2>2 DEF Logs!Stream
  <2> HIDE DEF a, r
  <2>7. /\ a \in Seq(Logs!Stream) /\ Len(a) = Len(streams)
        /\ DOMAIN a = DOMAIN streams
        /\ \A i \in DOMAIN streams : i # controller => a[i] = streams[i]
        /\ a[controller] = r
    BY <1>1, <1>3, <2>1, <2>3
  <2> QED  BY <2>4, <2>5, <2>6, <2>7 DEF a
<1> QED  BY <1>2, <1>3

\* What another stream finds: the streams as they are, or as Stop leaves them.
LEMMA StartKeeps ==
  ASSUME StreamsInv, logs \in Seq(Logs!Entries), NEW of \in 0 .. MaxIncarnations,
         NEW before \in {streams, Logs!Aborted}, Logs!Start(of, before)
  PROVE  /\ StreamsInv'
         /\ isLoadingLogs' = FALSE \/ isLoadingLogs' = isLoadingLogs
         /\ logs' \in Seq(Logs!Entries)
<1>1. /\ controller = 0 \/ controller \in DOMAIN streams
      /\ streams \in Seq(Logs!Stream) /\ Len(streams) <= MaxStreams /\ Len(streams) \in Nat
      /\ DOMAIN streams = 1 .. Len(streams)
      /\ isStreaming \in BOOLEAN
      /\ AloneFollowsEnded
      /\ Logs!StoppableUnlessOverlapped
  BY DEF StreamsInv
<1>2. /\ before \in Seq(Logs!Stream)
      /\ Len(before) = Len(streams)
      /\ DOMAIN before = DOMAIN streams
      /\ \A i \in DOMAIN streams :
              /\ before[i].aborted \/ before[i] = streams[i]
              /\ before[i].pc = streams[i].pc
              /\ before[i].alone = streams[i].alone
  <2>1. CASE before = streams  BY <1>1, <2>1
  <2>2. CASE before = Logs!Aborted
    <3> HIDE DEF Logs!Aborted
    <3> QED  BY <2>2, AbortedIsSeq
  <2> QED  BY <2>1, <2>2
<1>3. CASE of = 0
  <2>1. streams' = before /\ UNCHANGED <<isStreaming, isLoadingLogs, logs, controller>>
    BY <1>3 DEF Logs!Start, Logs!None
  <2>2. AloneFollowsEnded'
    BY <1>1, <1>2, <2>1 DEF AloneFollowsEnded
  <2>3. Logs!StoppableUnlessOverlapped'
    <3> SUFFICES ASSUME NEW k \in DOMAIN streams, before[k].pc # "ended", ~before[k].aborted,
                        controller # k
                 PROVE  \E j \in DOMAIN streams : ~before[j].alone
      BY <1>2, <2>1 DEF Logs!StoppableUnlessOverlapped, Logs!Live
    <3>1. \E j \in DOMAIN streams : ~streams[j].alone
      BY <1>1, <1>2 DEF Logs!StoppableUnlessOverlapped, Logs!Live
    <3> QED  BY <1>2, <3>1
  <2> QED  BY <1>1, <1>2, <2>1, <2>2, <2>3 DEF StreamsInv
<1>4. CASE of # 0
  <2> DEFINE alone == \A j \in DOMAIN before : before[j].pc = "ended"
             new == [pc |-> "opening", of |-> of, aborted |-> FALSE, alone |-> alone]
  <2>1. /\ Len(before) < MaxStreams
        /\ streams' = Append(before, new)
        /\ controller' = Len(before) + 1
        /\ isStreaming' = TRUE /\ isLoadingLogs' = FALSE /\ logs' = << >>
    BY <1>4 DEF Logs!Start, Logs!None
  <2>2. alone \in BOOLEAN  OBVIOUS
  <2>3. alone => \A j \in DOMAIN streams : before[j].pc = "ended"  BY <1>2
  <2>4. ~alone => \E j \in DOMAIN streams : before[j].pc # "ended"  BY <1>2
  <2>41. (\E j \in DOMAIN streams : before[j].pc # "ended") => ~alone  BY <1>2
  <2> HIDE DEF alone
  <2>5. new \in Logs!Stream /\ new.alone = alone /\ new.pc = "opening"
    BY <1>4, <2>2 DEF Logs!Stream, Logs!Incarnations
  <2> HIDE DEF new
  <2>6. /\ streams' \in Seq(Logs!Stream)
        /\ Len(streams') = Len(streams) + 1
        /\ DOMAIN streams' = 1 .. (Len(streams) + 1)
        /\ \A i \in DOMAIN streams : streams'[i] = before[i]
        /\ streams'[Len(streams) + 1] = new
    BY <1>1, <1>2, <2>1, <2>5
  <2>7. controller' = Len(streams) + 1 /\ controller' \in DOMAIN streams'
    BY <1>1, <1>2, <2>1, <2>6
  <2>8. AloneFollowsEnded'
    <3> SUFFICES ASSUME NEW k \in DOMAIN streams', streams'[k].alone,
                        NEW j \in DOMAIN streams', j < k
                 PROVE  streams'[j].pc = "ended"
      BY DEF AloneFollowsEnded
    <3>1. j \in DOMAIN streams  BY <1>1, <2>6
    <3>2. CASE k \in DOMAIN streams
      BY <1>1, <1>2, <2>6, <3>1, <3>2 DEF AloneFollowsEnded
    <3>3. CASE k = Len(streams) + 1
      BY <2>3, <2>5, <2>6, <3>1, <3>3
    <3> QED  BY <1>1, <2>6, <3>2, <3>3
  <2>9. Logs!StoppableUnlessOverlapped'
    <3> SUFFICES ASSUME NEW k \in DOMAIN streams', streams'[k].pc # "ended", controller' # k
                 PROVE  \E j \in DOMAIN streams' : ~streams'[j].alone
      BY DEF Logs!StoppableUnlessOverlapped, Logs!Live
    <3>1. k \in DOMAIN streams  BY <1>1, <2>6, <2>7
    <3>2. ~alone  BY <2>41, <2>6, <3>1
    <3> QED  BY <2>5, <2>6, <2>7, <3>2
  <2>10. Len(streams') <= MaxStreams
    BY <1>1, <1>2, <2>1, <2>6, BoundsAssumption
  <2>11. logs' \in Seq(Logs!Entries)  BY <2>1
  <2> QED  BY <2>1, <2>6, <2>7, <2>8, <2>9, <2>10, <2>11 DEF StreamsInv
<1> QED  BY <1>3, <1>4

\* A stream is stopped.
LEMMA StopKeeps ==
  ASSUME StreamsInv, Logs!Stop
  PROVE  StreamsInv' /\ UNCHANGED <<isLoadingLogs, logs>>
<1> DEFINE a == Logs!Aborted
<1>1. /\ streams \in Seq(Logs!Stream) /\ Len(streams) <= MaxStreams
      /\ AloneFollowsEnded
      /\ Logs!StoppableUnlessOverlapped
  BY DEF StreamsInv
<1>2. /\ a \in Seq(Logs!Stream)
      /\ Len(a) = Len(streams)
      /\ DOMAIN a = DOMAIN streams
      /\ \A i \in DOMAIN streams :
              /\ i # controller => a[i] = streams[i]
              /\ i = controller => a[i].aborted
              /\ a[i].pc = streams[i].pc
              /\ a[i].alone = streams[i].alone
  BY AbortedIsSeq
<1>3. streams' = a /\ controller' = 0 /\ isStreaming' = FALSE
      /\ UNCHANGED <<isLoadingLogs, logs>>
  BY DEF Logs!Stop, Logs!None
<1> HIDE DEF a
<1>4. AloneFollowsEnded'
  BY <1>1, <1>2, <1>3 DEF AloneFollowsEnded
<1>5. Logs!StoppableUnlessOverlapped'
  <2> SUFFICES ASSUME NEW k \in DOMAIN streams, a[k].pc # "ended", ~a[k].aborted
               PROVE  \E j \in DOMAIN streams : ~a[j].alone
    BY <1>2, <1>3 DEF Logs!StoppableUnlessOverlapped, Logs!Live
  <2>1. k # controller /\ streams[k].pc # "ended" /\ ~streams[k].aborted
    BY <1>2
  <2>2. \E j \in DOMAIN streams : ~streams[j].alone
    BY <1>1, <2>1 DEF Logs!StoppableUnlessOverlapped, Logs!Live
  <2> QED  BY <1>2, <2>2
<1> QED  BY <1>1, <1>2, <1>3, <1>4, <1>5 DEF StreamsInv

\* The logs are fetched.
LEMMA AskLogsKeeps ==
  ASSUME LoadingInv, NEW of \in 0 .. MaxIncarnations, Logs!AskLogs(of)
  PROVE  LoadingInv'
<1>1. CASE of = 0
  <2>1. UNCHANGED <<isLoadingLogs, fetches>>  BY <1>1 DEF Logs!AskLogs, Logs!None
  <2> QED  BY <2>1 DEF LoadingInv, Logs!LoadingIsAsked
<1>2. CASE of # 0
  <2> DEFINE new == [pc |-> "asking", of |-> of]
  <2>1. Len(fetches) < MaxFetches /\ fetches' = Append(fetches, new) /\ isLoadingLogs' = TRUE
    BY <1>2 DEF Logs!AskLogs, Logs!None
  <2>2. fetches \in Seq(Logs!Fetch) /\ Len(fetches) \in Nat  BY DEF LoadingInv
  <2>3. new \in Logs!Fetch /\ new.pc = "asking"
    BY <1>2 DEF Logs!Fetch, Logs!Incarnations
  <2> HIDE DEF new
  <2>4. /\ fetches' \in Seq(Logs!Fetch)
        /\ Len(fetches') = Len(fetches) + 1
        /\ Len(fetches) + 1 \in DOMAIN fetches'
        /\ fetches'[Len(fetches) + 1] = new
    BY <2>1, <2>2, <2>3
  <2>5. Len(fetches') <= MaxFetches  BY <2>1, <2>2, <2>4, BoundsAssumption
  <2> QED  BY <2>1, <2>3, <2>4, <2>5 DEF LoadingInv, Logs!LoadingIsAsked
<1> QED  BY <1>1, <1>2

\* Loading that ends, or goes on as it was.
LEMMA LoadingKeeps ==
  ASSUME LoadingInv, fetches' = fetches,
         isLoadingLogs' = FALSE \/ isLoadingLogs' = isLoadingLogs
  PROVE  LoadingInv'
<1>1. CASE isLoadingLogs' = FALSE  BY <1>1 DEF LoadingInv, Logs!LoadingIsAsked
<1>2. CASE isLoadingLogs' = isLoadingLogs  BY <1>2 DEF LoadingInv, Logs!LoadingIsAsked
<1> QED  BY <1>1, <1>2

\* Streaming starts again on the container that took the place.
LEMMA RestartKeeps ==
  ASSUME StreamsInv, logs \in Seq(Logs!Entries), NEW of \in 0 .. MaxIncarnations,
         Logs!Restart(of)
  PROVE  /\ StreamsInv'
         /\ isLoadingLogs' = FALSE \/ isLoadingLogs' = isLoadingLogs
         /\ logs' \in Seq(Logs!Entries)
<1>1. CASE of = 0
  <2>1. Logs!Stop  BY <1>1 DEF Logs!Restart, Logs!None
  <2> QED  BY <2>1, StopKeeps
<1>2. CASE of # 0
  <2>1. Logs!Start(of, Logs!Aborted)  BY <1>2 DEF Logs!Restart, Logs!None
  <2> QED  BY <2>1, StartKeeps
<1> QED  BY <1>1, <1>2

\* A stream takes another pc, the rest stays: of every opening, and of every
\* end, which clears the reference.
LEMMA StreamStepKeeps ==
  ASSUME StreamsInv, NEW k \in DOMAIN streams, NEW p \in {"reading", "ended"},
         streams[k].pc # "ended",
         streams' = [streams EXCEPT ![k].pc = p], isStreaming' \in BOOLEAN,
         IF p = "ended" THEN controller' = 0 ELSE controller' = controller
  PROVE  StreamsInv'
<1>1. /\ controller = 0 \/ controller \in DOMAIN streams
      /\ streams \in Seq(Logs!Stream) /\ Len(streams) <= MaxStreams /\ Len(streams) \in Nat
      /\ DOMAIN streams = 1 .. Len(streams)
      /\ AloneFollowsEnded
      /\ Logs!StoppableUnlessOverlapped
  BY DEF StreamsInv
<1>2. streams[k] \in Logs!Stream  BY <1>1
<1>3. [streams[k] EXCEPT !.pc = p] \in Logs!Stream  BY <1>2 DEF Logs!Stream
<1>4. /\ streams' \in Seq(Logs!Stream) /\ Len(streams') = Len(streams)
      /\ DOMAIN streams' = DOMAIN streams
      /\ \A i \in DOMAIN streams : i # k => streams'[i] = streams[i]
      /\ streams'[k] = [streams[k] EXCEPT !.pc = p]
  BY <1>1, <1>3
<1>5. streams'[k].pc = p  BY <1>2, <1>4 DEF Logs!Stream
<1>6. streams'[k].alone = streams[k].alone  BY <1>2, <1>4 DEF Logs!Stream
<1>7. streams'[k].aborted = streams[k].aborted  BY <1>2, <1>4 DEF Logs!Stream
<1>8. controller' = 0 \/ controller' \in DOMAIN streams'
  BY <1>1, <1>4
<1>9. AloneFollowsEnded'
  <2> SUFFICES ASSUME NEW i \in DOMAIN streams, streams'[i].alone,
                      NEW j \in DOMAIN streams, j < i
               PROVE  streams'[j].pc = "ended"
    BY <1>4 DEF AloneFollowsEnded
  <2>1. streams[i].alone  BY <1>4, <1>6
  <2>2. streams[j].pc = "ended"  BY <1>1, <2>1 DEF AloneFollowsEnded
  <2> QED  BY <1>4, <2>2
<1>10. Logs!StoppableUnlessOverlapped'
  <2> SUFFICES ASSUME NEW i \in DOMAIN streams, streams'[i].pc # "ended", ~streams'[i].aborted,
                      controller' # i
               PROVE  \E j \in DOMAIN streams : ~streams'[j].alone
    BY <1>4 DEF Logs!StoppableUnlessOverlapped, Logs!Live
  <2>1. streams[i].pc # "ended" /\ ~streams[i].aborted
    BY <1>4, <1>7
  <2>2. \E j \in DOMAIN streams : ~streams[j].alone
    <3>1. CASE controller # i
      BY <1>1, <2>1, <3>1 DEF Logs!StoppableUnlessOverlapped, Logs!Live
    <3>2. CASE controller = i
      <4>1. p = "ended" /\ i # k  BY <3>2, <1>5
      <4>2. (i < k \/ k < i)  BY <1>1, <4>1
      <4> QED  BY <1>1, <2>1, <4>2 DEF AloneFollowsEnded
    <3> QED  BY <3>1, <3>2
  <2> QED  BY <1>4, <1>6, <2>2
<1> QED  BY <1>1, <1>4, <1>8, <1>9, <1>10 DEF StreamsInv

\* A fetch answers.
LEMMA FetchedKeeps ==
  ASSUME LogsIInv, NEW f \in DOMAIN fetches, NEW ok \in BOOLEAN, Logs!LogsFetched(f, ok)
  PROVE  LogsIInv'
<1>1. /\ fetches' = [fetches EXCEPT ![f].pc = "over"]
      /\ logs' = IF ok THEN <<<<"fetch", f>>>> ELSE << >>
      /\ isLoadingLogs' = FALSE
      /\ UNCHANGED <<actual, listed, mounted, logLines, isStreaming, controller, streams,
                     recreated>>
  BY DEF Logs!LogsFetched
<1>2. /\ fetches \in Seq(Logs!Fetch) /\ Len(fetches) <= MaxFetches
      /\ DOMAIN fetches = 1 .. Len(fetches) /\ Len(fetches) \in Nat
  BY DEF LogsIInv, LoadingInv
<1>3. fetches[f] \in Logs!Fetch  BY <1>2
<1>4. [fetches[f] EXCEPT !.pc = "over"] \in Logs!Fetch  BY <1>3 DEF Logs!Fetch
<1>5. fetches' \in Seq(Logs!Fetch) /\ Len(fetches') <= MaxFetches  BY <1>1, <1>2, <1>4
<1>6. LoadingInv'  BY <1>1, <1>5 DEF LoadingInv, Logs!LoadingIsAsked
<1>7. logs' \in Seq(Logs!Entries)
  <2>1. <<"fetch", f>> \in Logs!Entries
    BY <1>2, BoundsAssumption DEF Logs!Entries
  <2> QED  BY <1>1, <2>1
<1>8. StreamsInv'
  BY <1>1 DEF LogsIInv, StreamsInv, AloneFollowsEnded, Logs!StoppableUnlessOverlapped, Logs!Live
<1>9. PageInv'  BY <1>1 DEF LogsIInv, PageInv
<1> QED  BY <1>6, <1>7, <1>8, <1>9 DEF LogsIInv

\* A step that leaves the streams and their reference keeps what is said of them.
LEMMA SameStreams ==
  ASSUME StreamsInv, UNCHANGED <<isStreaming, controller, streams>> PROVE StreamsInv'
BY DEF StreamsInv, AloneFollowsEnded, Logs!StoppableUnlessOverlapped, Logs!Live

\* Every step of the logs page keeps its invariant.
LEMMA LogsIsKept == LogsIInv /\ [Next]_vars => LogsIInv'
<1> SUFFICES ASSUME LogsIInv, [Next]_vars PROVE LogsIInv'
  OBVIOUS
<1>0. [Logs!Next]_logsVars  BY LogsRun
<1>a. PageInv /\ StreamsInv /\ LoadingInv /\ logs \in Seq(Logs!Entries)
  BY DEF LogsIInv
<1>b. /\ actual \in 1 .. MaxIncarnations /\ listed \in 0 .. MaxIncarnations
      /\ logLines \in LineCounts /\ recreated.of \in 0 .. MaxIncarnations
      /\ isStreaming \in BOOLEAN
      /\ MaxIncarnations \in Nat
  BY <1>a, BoundsAssumption DEF PageInv, StreamsInv
<1>1. CASE Logs!Relist
  <2>1. /\ Logs!Restart(actual)
        /\ listed' = actual /\ UNCHANGED <<actual, mounted, logLines, fetches, recreated>>
    BY <1>1 DEF Logs!Relist
  <2>2. /\ actual' \in 1 .. MaxIncarnations /\ listed' \in 0 .. MaxIncarnations
        /\ UNCHANGED <<mounted, logLines, recreated>>
    BY <1>b, <2>1
  <2>3. PageInv'  BY <1>a, <2>2 DEF PageInv
  <2>4. actual \in 0 .. MaxIncarnations  BY <1>b
  <2> QED  BY <1>a, <2>1, <2>3, <2>4, RestartKeeps, LoadingKeeps DEF LogsIInv
<1>2. ASSUME NEW n \in LineCounts, Logs!ChangeLines(n) PROVE LogsIInv'
  <2>1. /\ Logs!Restart(listed)
        /\ logLines' = n /\ UNCHANGED <<actual, listed, mounted, fetches, recreated>>
    BY <1>2 DEF Logs!ChangeLines
  <2>2. PageInv'  BY <1>a, <1>b, <2>1 DEF PageInv
  <2> QED  BY <1>a, <1>b, <2>1, <2>2, RestartKeeps, LoadingKeeps DEF LogsIInv
<1>3. CASE Logs!ToggleStream
  <2>1. /\ Logs!Stop \/ Logs!Start(listed, streams)
        /\ UNCHANGED <<actual, listed, mounted, logLines, fetches, recreated>>
    BY <1>3 DEF Logs!ToggleStream
  <2>2. PageInv'  BY <1>a, <1>b, <2>1 DEF PageInv
  <2> QED  BY <1>a, <1>b, <2>1, <2>2, StopKeeps, StartKeeps, LoadingKeeps DEF LogsIInv
<1>4. CASE Logs!Refresh
  <2>1. /\ Logs!AskLogs(listed)
        /\ UNCHANGED <<actual, listed, mounted, logLines, isStreaming, logs, controller,
                       streams, recreated>>
    BY <1>4 DEF Logs!Refresh
  <2>2. PageInv' /\ StreamsInv'  BY <1>a, <1>b, <2>1, SameStreams DEF PageInv
  <2> QED  BY <1>a, <1>b, <2>1, <2>2, AskLogsKeeps DEF LogsIInv
<1>5. CASE Logs!Leave
  <2>1. /\ Logs!Stop /\ mounted' = FALSE
        /\ UNCHANGED <<actual, listed, logLines, fetches, recreated>>
    BY <1>5 DEF Logs!Leave
  <2>2. PageInv'  BY <1>a, <1>b, <2>1 DEF PageInv
  <2> QED  BY <1>a, <1>b, <2>1, <2>2, StopKeeps, LoadingKeeps DEF LogsIInv
<1>6. ASSUME NEW k \in DOMAIN streams, Logs!StreamOpens(k) PROVE LogsIInv'
  <2>1. /\ streams[k].pc = "opening"
        /\ streams' = [streams EXCEPT ![k].pc = "reading"]
        /\ UNCHANGED <<actual, listed, mounted, logLines, isStreaming, isLoadingLogs, logs,
                       controller, fetches, recreated>>
    BY <1>6 DEF Logs!StreamOpens
  <2>2. PageInv'  BY <1>a, <1>b, <2>1 DEF PageInv
  <2>3. StreamsInv'  BY <1>a, <1>b, <2>1, StreamStepKeeps
  <2> QED  BY <1>a, <2>1, <2>2, <2>3, LoadingKeeps DEF LogsIInv
<1>7. ASSUME NEW k \in DOMAIN streams, Logs!StreamEntry(k) PROVE LogsIInv'
  <2>1. /\ logs' = Append(logs, <<"stream", k>>)
        /\ UNCHANGED <<actual, listed, mounted, logLines, isStreaming, isLoadingLogs,
                       controller, streams, fetches, recreated>>
    BY <1>7 DEF Logs!StreamEntry
  <2>2. k \in 1 .. MaxStreams
    BY <1>a, BoundsAssumption DEF StreamsInv
  <2>3. logs' \in Seq(Logs!Entries)
    <3>1. <<"stream", k>> \in Logs!Entries  BY <2>2 DEF Logs!Entries
    <3> QED  BY <1>a, <2>1, <3>1
  <2>4. PageInv' /\ StreamsInv' /\ LoadingInv'
    BY <1>a, <1>b, <2>1, SameStreams, LoadingKeeps DEF PageInv
  <2> QED  BY <2>3, <2>4 DEF LogsIInv
<1>8. ASSUME NEW k \in DOMAIN streams, Logs!StreamCloses(k) \/ Logs!StreamFails(k)
      PROVE  LogsIInv'
  <2>1. /\ streams[k].pc # "ended"
        /\ streams' = [streams EXCEPT ![k].pc = "ended"]
        /\ isLoadingLogs' = FALSE /\ controller' = 0
        /\ isStreaming' = FALSE \/ isStreaming' = isStreaming
        /\ UNCHANGED <<actual, listed, mounted, logLines, logs, fetches, recreated>>
    BY <1>8 DEF Logs!StreamCloses, Logs!StreamFails, Logs!Finally, Logs!None
  <2>2. PageInv'  BY <1>a, <1>b, <2>1 DEF PageInv
  <2>3. isStreaming' \in BOOLEAN  BY <1>b, <2>1
  <2>4. StreamsInv'  BY <1>a, <2>1, <2>3, StreamStepKeeps
  <2> QED  BY <1>a, <2>1, <2>2, <2>4, LoadingKeeps DEF LogsIInv
<1>9. CASE Logs!Recreate
  <2>1. /\ actual < MaxIncarnations /\ actual' = actual + 1
        /\ UNCHANGED <<listed, mounted, logLines, isStreaming, isLoadingLogs, logs, controller,
                       streams, fetches, recreated>>
    BY <1>9 DEF Logs!Recreate
  <2>2. actual' \in 1 .. MaxIncarnations  BY <1>b, <2>1
  <2>3. PageInv'  BY <1>a, <2>1, <2>2 DEF PageInv
  <2> QED  BY <1>a, <2>1, <2>3, SameStreams, LoadingKeeps DEF LogsIInv
<1>10. CASE Logs!RecreatedNotice
  <2>1. /\ recreated' = [pc |-> "refetching", of |-> listed, streaming |-> isStreaming]
        /\ UNCHANGED <<actual, listed, mounted, logLines, isStreaming, isLoadingLogs, logs,
                       controller, streams, fetches>>
    BY <1>10 DEF Logs!RecreatedNotice
  <2>2. PageInv'  BY <1>a, <1>b, <2>1 DEF PageInv
  <2> QED  BY <1>a, <2>1, <2>2, SameStreams, LoadingKeeps DEF LogsIInv
<1>11. CASE Logs!RecreatedListed
  <2>1. UNCHANGED <<actual, listed, mounted, logLines>>  BY <1>11 DEF Logs!RecreatedListed
  <2>2. CASE recreated.streaming
    <3>1. Logs!Stop /\ fetches' = fetches /\ recreated' = [recreated EXCEPT !.pc = "waiting"]
      BY <1>11, <2>2 DEF Logs!RecreatedListed
    <3>2. PageInv'  BY <1>a, <2>1, <3>1 DEF PageInv
    <3> QED  BY <1>a, <3>1, <3>2, StopKeeps, LoadingKeeps DEF LogsIInv
  <2>3. CASE ~recreated.streaming
    <3>1. /\ Logs!AskLogs(recreated.of)
          /\ recreated' = [pc |-> "no", of |-> 0, streaming |-> FALSE]
          /\ UNCHANGED <<isStreaming, logs, controller, streams>>
      BY <1>11, <2>3 DEF Logs!RecreatedListed, Logs!NotRecreating, Logs!None
    <3>2. PageInv'  BY <1>a, <1>b, <2>1, <3>1 DEF PageInv
    <3> QED  BY <1>a, <1>b, <3>1, <3>2, SameStreams, AskLogsKeeps DEF LogsIInv
  <2> QED  BY <2>2, <2>3
<1>12. CASE Logs!RecreatedRestarts
  <2>1. /\ recreated' = [pc |-> "no", of |-> 0, streaming |-> FALSE]
        /\ Logs!Start(recreated.of, streams)
        /\ UNCHANGED <<actual, listed, mounted, logLines, fetches>>
    BY <1>12 DEF Logs!RecreatedRestarts, Logs!NotRecreating, Logs!None
  <2>2. PageInv'  BY <1>a, <1>b, <2>1 DEF PageInv
  <2> QED  BY <1>a, <1>b, <2>1, <2>2, StartKeeps, LoadingKeeps DEF LogsIInv
<1>13. CASE UNCHANGED logsVars
  <2>1. UNCHANGED <<actual, listed, mounted, logLines, isStreaming, isLoadingLogs, logs,
                    controller, streams, fetches, recreated>>
    BY <1>13 DEF logsVars
  <2>2. PageInv'  BY <1>a, <2>1 DEF PageInv
  <2> QED  BY <1>a, <2>1, <2>2, SameStreams, LoadingKeeps DEF LogsIInv
<1> QED
  BY <1>0, <1>1, <1>2, <1>3, <1>4, <1>5, <1>6, <1>7, <1>8, <1>9, <1>10, <1>11, <1>12, <1>13,
     FetchedKeeps DEF Logs!Next, Logs!StreamSteps

\* The invariant of the logs page holds throughout.
LEMMA LogsStay == Spec => []LogsIInv
BY LogsStarts, LogsIsKept, PTL DEF Spec

-----------------------------------------------------------------------------
(* LogsSheet.                                                              *)

\* As AloneFollowsEnded, of the streams of one sheet.
AloneInSheet ==
    \A k \in DOMAIN sheetStreams : sheetStreams[k].alone =>
        \A j \in DOMAIN sheetStreams :
            j < k /\ sheetStreams[j].sheet = sheetStreams[k].sheet => sheetStreams[j].pc = "ended"

\* SheetStoppable of the sheet that is open; the rest is left behind.
SheetReach ==
    \A k \in DOMAIN sheetStreams :
        /\ sheetStreams[k].pc # "ended" /\ ~sheetStreams[k].aborted
        /\ container # "closed" /\ sheetStreams[k].sheet = sheet
        /\ sheetController # k
        => \E j \in DOMAIN sheetStreams : sheetStreams[j].sheet = sheet /\ ~sheetStreams[j].alone

\* The reference is of a stream of the sheet that is open, and no stream is of
\* a sheet to come.
SheetIInv ==
    /\ sheet \in 0 .. MaxSheets
    /\ container \in Containers \cup {"closed"}
    /\ container # "closed" => sheet # 0
    /\ sheetStreams \in Seq(Sheet!SheetStream)
    /\ \A k \in DOMAIN sheetStreams : sheetStreams[k].sheet <= sheet
    /\ sheetController = 0 \/ sheetController \in DOMAIN sheetStreams
    /\ sheetController # 0 =>
          container # "closed" /\ sheetStreams[sheetController].sheet = sheet
    /\ AloneInSheet
    /\ SheetReach

\* The pages run the sheet of logs by its own steps.
LEMMA SheetRun == [Next]_vars => [Sheet!SheetNext]_sheetVars
<1>1. CASE Next
  BY <1>1 DEF Next
<1>2. CASE UNCHANGED vars
  BY <1>2 DEF vars
<1> QED  BY <1>1, <1>2

\* No sheet is open at first.
LEMMA SheetStarts == Init => SheetIInv
<1> SUFFICES ASSUME Sheet!SheetInit PROVE SheetIInv
  BY DEF Init
<1>1. sheetStreams \in Seq(Sheet!SheetStream) /\ DOMAIN sheetStreams = {}
  BY DEF Sheet!SheetInit
<1>2. 0 \in 0 .. MaxSheets  BY BoundsAssumption
<1>3. sheet = 0 /\ container = "closed" /\ sheetController = 0
  BY DEF Sheet!SheetInit, Sheet!None
<1> QED
  BY <1>1, <1>2, <1>3 DEF SheetIInv, AloneInSheet, SheetReach

\* The invariant of the sheet says of every running stream how it is stopped.
LEMMA SheetReachIsStoppable == SheetIInv => Sheet!SheetStoppable
<1> SUFFICES ASSUME SheetIInv, NEW k \in DOMAIN sheetStreams, Sheet!Running(k)
             PROVE  \/ k \in Sheet!LeftBehind /\ sheetController # k
                    \/ Sheet!Mine(sheetStreams[k]) /\ sheetController = k
                    \/ \E j \in DOMAIN sheetStreams :
                          sheetStreams[j].sheet = sheet /\ ~sheetStreams[j].alone
  BY DEF Sheet!SheetStoppable
<1>1. /\ sheetController # 0 =>
          container # "closed" /\ sheetStreams[sheetController].sheet = sheet
      /\ SheetReach
      /\ k # 0
  BY DEF SheetIInv
<1>2. CASE Sheet!Mine(sheetStreams[k])
  BY <1>1, <1>2 DEF SheetReach, Sheet!Mine, Sheet!IsOpen, Sheet!Running
<1>3. CASE ~Sheet!Mine(sheetStreams[k])
  <2>1. k \in Sheet!LeftBehind  BY <1>3 DEF Sheet!LeftBehind
  <2>2. sheetController # k  BY <1>1, <1>3 DEF Sheet!Mine, Sheet!IsOpen
  <2> QED  BY <2>1, <2>2
<1> QED  BY <1>2, <1>3

\* What an abort does to the streams of the sheets.
LEMMA SheetAbortedIsSeq ==
  ASSUME SheetIInv
  PROVE  /\ Sheet!SheetAborted \in Seq(Sheet!SheetStream)
         /\ Len(Sheet!SheetAborted) = Len(sheetStreams)
         /\ DOMAIN Sheet!SheetAborted = DOMAIN sheetStreams
         /\ \A i \in DOMAIN sheetStreams :
              /\ i # sheetController => Sheet!SheetAborted[i] = sheetStreams[i]
              /\ i = sheetController => Sheet!SheetAborted[i].aborted
              /\ Sheet!SheetAborted[i].pc = sheetStreams[i].pc
              /\ Sheet!SheetAborted[i].alone = sheetStreams[i].alone
              /\ Sheet!SheetAborted[i].sheet = sheetStreams[i].sheet
<1> DEFINE a == Sheet!SheetAborted
<1>1. /\ sheetStreams \in Seq(Sheet!SheetStream)
      /\ sheetController = 0 \/ sheetController \in DOMAIN sheetStreams
      /\ 0 \notin DOMAIN sheetStreams
  BY DEF SheetIInv
<1>2. CASE sheetController = 0
  <2>1. a = sheetStreams  BY <1>2 DEF Sheet!SheetAborted, Sheet!None
  <2> QED  BY <1>1, <1>2, <2>1
<1>3. CASE sheetController # 0
  <2> DEFINE r == [sheetStreams[sheetController] EXCEPT !.aborted = TRUE]
  <2>1. a = [sheetStreams EXCEPT ![sheetController] = r]
    BY <1>3 DEF Sheet!SheetAborted, Sheet!None
  <2>2. sheetStreams[sheetController] \in Sheet!SheetStream  BY <1>1, <1>3
  <2>3. r \in Sheet!SheetStream
    BY <2>2 DEF Sheet!SheetStream
  <2>4. r.aborted = TRUE
    BY <2>2 DEF Sheet!SheetStream
  <2>5. r.pc = sheetStreams[sheetController].pc
    BY <2>2 DEF Sheet!SheetStream
  <2>6. r.alone = sheetStreams[sheetController].alone
    BY <2>2 DEF Sheet!SheetStream
  <2>61. r.sheet = sheetStreams[sheetController].sheet
    BY <2>2 DEF Sheet!SheetStream
  <2> HIDE DEF a, r
  <2>7. /\ a \in Seq(Sheet!SheetStream) /\ Len(a) = Len(sheetStreams)
        /\ DOMAIN a = DOMAIN sheetStreams
        /\ \A i \in DOMAIN sheetStreams : i # sheetController => a[i] = sheetStreams[i]
        /\ a[sheetController] = r
    BY <1>1, <1>3, <2>1, <2>3
  <2> QED  BY <2>4, <2>5, <2>6, <2>61, <2>7 DEF a
<1> QED  BY <1>2, <1>3

\* A stream starts, of the sheet that is open or of the next one.
LEMMA SheetStartKeeps ==
  ASSUME SheetIInv, NEW number \in 1 .. MaxSheets, number >= sheet,
         NEW before \in {sheetStreams, Sheet!SheetAborted},
         Sheet!SheetStart(number, before), sheet' = number,
         container' \in Containers
  PROVE  SheetIInv'
<1>1. /\ sheet \in 0 .. MaxSheets
      /\ sheetStreams \in Seq(Sheet!SheetStream) /\ Len(sheetStreams) \in Nat
      /\ DOMAIN sheetStreams = 1 .. Len(sheetStreams)
      /\ \A k \in DOMAIN sheetStreams : sheetStreams[k].sheet <= sheet
      /\ AloneInSheet
  BY DEF SheetIInv
<1>2. /\ before \in Seq(Sheet!SheetStream)
      /\ Len(before) = Len(sheetStreams)
      /\ DOMAIN before = DOMAIN sheetStreams
      /\ \A i \in DOMAIN sheetStreams :
              /\ before[i].pc = sheetStreams[i].pc
              /\ before[i].alone = sheetStreams[i].alone
              /\ before[i].sheet = sheetStreams[i].sheet
  <2>1. CASE before = sheetStreams  BY <1>1, <2>1
  <2>2. CASE before = Sheet!SheetAborted
    <3> HIDE DEF Sheet!SheetAborted
    <3> QED  BY <2>2, SheetAbortedIsSeq
  <2> QED  BY <2>1, <2>2
<1> DEFINE alone == \A j \in DOMAIN before : before[j].sheet = number => before[j].pc = "ended"
           new == [pc |-> "opening", sheet |-> number, aborted |-> FALSE, alone |-> alone]
<1>3. /\ sheetStreams' = Append(before, new)
      /\ sheetController' = Len(before) + 1
  BY DEF Sheet!SheetStart
<1>4. alone \in BOOLEAN  OBVIOUS
<1>5. alone => \A j \in DOMAIN sheetStreams : before[j].sheet = number => before[j].pc = "ended"
  BY <1>2
<1>6. (\E j \in DOMAIN sheetStreams : before[j].sheet = number /\ before[j].pc # "ended") => ~alone
  BY <1>2
<1> HIDE DEF alone
<1>7. new \in Sheet!SheetStream /\ new.alone = alone /\ new.pc = "opening" /\ new.sheet = number
  BY <1>4 DEF Sheet!SheetStream
<1> HIDE DEF new
<1>8. /\ sheetStreams' \in Seq(Sheet!SheetStream)
      /\ DOMAIN sheetStreams' = 1 .. (Len(sheetStreams) + 1)
      /\ \A i \in DOMAIN sheetStreams : sheetStreams'[i] = before[i]
      /\ sheetStreams'[Len(sheetStreams) + 1] = new
  BY <1>1, <1>2, <1>3, <1>7
<1>9. sheetController' = Len(sheetStreams) + 1 /\ sheetController' \in DOMAIN sheetStreams'
  BY <1>1, <1>2, <1>3, <1>8
<1>10. container' # "closed"  BY ContainersAssumption
<1>11. \A k \in DOMAIN sheetStreams' : sheetStreams'[k].sheet <= sheet'
  <2> SUFFICES ASSUME NEW k \in DOMAIN sheetStreams' PROVE sheetStreams'[k].sheet <= number
    OBVIOUS
  <2>1. CASE k \in DOMAIN sheetStreams
    <3>1. sheetStreams'[k].sheet = sheetStreams[k].sheet /\ sheetStreams[k].sheet <= sheet
      BY <1>1, <1>2, <1>8, <2>1
    <3>2. sheetStreams[k].sheet \in 1 .. MaxSheets
      <4>1. sheetStreams[k] \in Sheet!SheetStream  BY <1>1, <2>1
      <4> QED  BY <4>1 DEF Sheet!SheetStream
    <3> QED  BY <1>1, <3>1, <3>2, BoundsAssumption
  <2>2. CASE k = Len(sheetStreams) + 1  BY <1>7, <1>8, <2>2
  <2> QED  BY <1>1, <1>8, <2>1, <2>2
<1>12. AloneInSheet'
  <2> SUFFICES ASSUME NEW k \in DOMAIN sheetStreams', sheetStreams'[k].alone,
                      NEW j \in DOMAIN sheetStreams', j < k,
                      sheetStreams'[j].sheet = sheetStreams'[k].sheet
               PROVE  sheetStreams'[j].pc = "ended"
    BY DEF AloneInSheet
  <2>1. j \in DOMAIN sheetStreams  BY <1>1, <1>8
  <2>2. CASE k \in DOMAIN sheetStreams
    BY <1>1, <1>2, <1>8, <2>1, <2>2 DEF AloneInSheet
  <2>3. CASE k = Len(sheetStreams) + 1
    BY <1>5, <1>7, <1>8, <2>1, <2>3
  <2> QED  BY <1>1, <1>8, <2>2, <2>3
<1>13. SheetReach'
  <2> SUFFICES ASSUME NEW k \in DOMAIN sheetStreams', sheetStreams'[k].pc # "ended",
                      sheetStreams'[k].sheet = number, sheetController' # k
               PROVE  \E j \in DOMAIN sheetStreams' :
                          sheetStreams'[j].sheet = number /\ ~sheetStreams'[j].alone
    BY DEF SheetReach
  <2>1. k \in DOMAIN sheetStreams  BY <1>1, <1>8, <1>9
  <2>2. ~alone  BY <1>6, <1>8, <2>1
  <2> QED  BY <1>7, <1>8, <1>9, <2>2
<1>14. number \in 0 .. MaxSheets /\ number # 0  BY BoundsAssumption
<1> QED
  BY <1>7, <1>8, <1>9, <1>10, <1>11, <1>12, <1>13, <1>14 DEF SheetIInv

\* A stream of the sheet is stopped.
LEMMA SheetStopKeeps ==
  ASSUME SheetIInv, Sheet!SheetStop, UNCHANGED <<sheet, container>>
  PROVE  SheetIInv'
<1> DEFINE a == Sheet!SheetAborted
<1>1. /\ sheet \in 0 .. MaxSheets
      /\ container \in Containers \cup {"closed"}
      /\ container # "closed" => sheet # 0
      /\ \A k \in DOMAIN sheetStreams : sheetStreams[k].sheet <= sheet
      /\ AloneInSheet
      /\ SheetReach
  BY DEF SheetIInv
<1>2. /\ a \in Seq(Sheet!SheetStream)
      /\ DOMAIN a = DOMAIN sheetStreams
      /\ \A i \in DOMAIN sheetStreams :
              /\ i # sheetController => a[i] = sheetStreams[i]
              /\ i = sheetController => a[i].aborted
              /\ a[i].pc = sheetStreams[i].pc
              /\ a[i].alone = sheetStreams[i].alone
              /\ a[i].sheet = sheetStreams[i].sheet
  BY SheetAbortedIsSeq
<1>3. sheetStreams' = a /\ sheetController' = 0
  BY DEF Sheet!SheetStop, Sheet!None
<1> HIDE DEF a
<1>4. AloneInSheet'
  BY <1>1, <1>2, <1>3 DEF AloneInSheet
<1>5. SheetReach'
  <2> SUFFICES ASSUME NEW k \in DOMAIN sheetStreams, a[k].pc # "ended", ~a[k].aborted,
                      container # "closed", a[k].sheet = sheet
               PROVE  \E j \in DOMAIN sheetStreams : a[j].sheet = sheet /\ ~a[j].alone
    BY <1>2, <1>3 DEF SheetReach
  <2>1. k # sheetController /\ sheetStreams[k].pc # "ended" /\ ~sheetStreams[k].aborted
        /\ sheetStreams[k].sheet = sheet
    BY <1>2
  <2>2. \E j \in DOMAIN sheetStreams : sheetStreams[j].sheet = sheet /\ ~sheetStreams[j].alone
    BY <1>1, <2>1 DEF SheetReach
  <2> QED  BY <1>2, <2>2
<1>6. \A k \in DOMAIN sheetStreams' : sheetStreams'[k].sheet <= sheet'
  BY <1>1, <1>2, <1>3
<1> QED  BY <1>1, <1>2, <1>3, <1>4, <1>5, <1>6 DEF SheetIInv

\* The sheet is closed.
LEMMA CloseKeeps ==
  ASSUME SheetIInv, Sheet!CloseSheet PROVE SheetIInv'
<1>1. container' = "closed" /\ sheetController' = 0 /\ UNCHANGED <<sheet, sheetStreams>>
  BY DEF Sheet!CloseSheet, Sheet!None
<1> QED  BY <1>1 DEF SheetIInv, AloneInSheet, SheetReach

\* A stream goes on to p, and if it is of the open sheet and ends, clears the
\* reference.
LEMMA SheetStreamStepKeeps ==
  ASSUME SheetIInv, NEW k \in DOMAIN sheetStreams, NEW p \in {"reading", "ended"},
         sheetStreams[k].pc # "ended",
         sheetStreams' = [sheetStreams EXCEPT ![k].pc = p],
         UNCHANGED <<sheet, container>>,
         IF p = "ended" /\ Sheet!Mine(sheetStreams[k])
         THEN sheetController' = 0 ELSE sheetController' = sheetController
  PROVE  SheetIInv'
<1>1. /\ sheet \in 0 .. MaxSheets
      /\ container \in Containers \cup {"closed"}
      /\ container # "closed" => sheet # 0
      /\ sheetStreams \in Seq(Sheet!SheetStream)
      /\ DOMAIN sheetStreams = 1 .. Len(sheetStreams) /\ Len(sheetStreams) \in Nat
      /\ \A i \in DOMAIN sheetStreams : sheetStreams[i].sheet <= sheet
      /\ sheetController = 0 \/ sheetController \in DOMAIN sheetStreams
      /\ sheetController # 0 =>
            container # "closed" /\ sheetStreams[sheetController].sheet = sheet
      /\ AloneInSheet
      /\ SheetReach
  BY DEF SheetIInv
<1> DEFINE r == [sheetStreams[k] EXCEPT !.pc = p]
<1>2. sheetStreams[k] \in Sheet!SheetStream  BY <1>1
<1>3. r \in Sheet!SheetStream  BY <1>2 DEF Sheet!SheetStream
<1>4. r.pc = p  BY <1>2 DEF Sheet!SheetStream
<1>5. r.alone = sheetStreams[k].alone  BY <1>2 DEF Sheet!SheetStream
<1>6. r.aborted = sheetStreams[k].aborted  BY <1>2 DEF Sheet!SheetStream
<1>7. r.sheet = sheetStreams[k].sheet  BY <1>2 DEF Sheet!SheetStream
<1>8. sheetStreams' = [sheetStreams EXCEPT ![k] = r]  OBVIOUS
<1> HIDE DEF r
<1>9. /\ sheetStreams' \in Seq(Sheet!SheetStream)
      /\ DOMAIN sheetStreams' = DOMAIN sheetStreams
      /\ \A i \in DOMAIN sheetStreams : i # k => sheetStreams'[i] = sheetStreams[i]
      /\ sheetStreams'[k] = r
  BY <1>1, <1>3, <1>8
<1>10. \A i \in DOMAIN sheetStreams :
          /\ sheetStreams'[i].alone = sheetStreams[i].alone
          /\ sheetStreams'[i].aborted = sheetStreams[i].aborted
          /\ sheetStreams'[i].sheet = sheetStreams[i].sheet
          /\ i # k => sheetStreams'[i].pc = sheetStreams[i].pc
          /\ i = k => sheetStreams'[i].pc = p
  BY <1>4, <1>5, <1>6, <1>7, <1>9
<1>11. AloneInSheet'
  <2> SUFFICES ASSUME NEW i \in DOMAIN sheetStreams, sheetStreams[i].alone,
                      NEW j \in DOMAIN sheetStreams, j < i,
                      sheetStreams[j].sheet = sheetStreams[i].sheet
               PROVE  sheetStreams'[j].pc = "ended"
    BY <1>9, <1>10 DEF AloneInSheet
  <2>1. sheetStreams[j].pc = "ended"  BY <1>1 DEF AloneInSheet
  <2> QED  BY <1>10, <2>1
<1>12. SheetReach'
  <2> SUFFICES ASSUME NEW i \in DOMAIN sheetStreams, sheetStreams'[i].pc # "ended",
                      ~sheetStreams[i].aborted,
                      container # "closed", sheetStreams[i].sheet = sheet, sheetController' # i
               PROVE  \E j \in DOMAIN sheetStreams :
                         sheetStreams[j].sheet = sheet /\ ~sheetStreams[j].alone
    BY <1>9, <1>10 DEF SheetReach
  <2>1. sheetStreams[i].pc # "ended"  BY <1>10
  <2>2. CASE sheetController # i
    BY <1>1, <2>1, <2>2 DEF SheetReach
  <2>3. CASE sheetController = i
    <3>1. p = "ended" /\ Sheet!Mine(sheetStreams[k])  BY <2>3
    <3>2. sheetStreams[k].sheet = sheet  BY <3>1 DEF Sheet!Mine
    <3>3. i # k  BY <1>10, <3>1
    <3>4. i < k \/ k < i  BY <1>1, <3>3
    <3> QED  BY <1>1, <2>1, <3>2, <3>4 DEF AloneInSheet
  <2> QED  BY <2>2, <2>3
<1>13. /\ sheetController' = 0 \/ sheetController' \in DOMAIN sheetStreams'
       /\ sheetController' # 0 =>
            container' # "closed" /\ sheetStreams'[sheetController'].sheet = sheet'
  <2>1. CASE sheetController' = 0  BY <2>1
  <2>2. CASE sheetController' = sheetController
    BY <1>1, <1>9, <1>10, <2>2
  <2> QED  BY <2>1, <2>2
<1>14. \A i \in DOMAIN sheetStreams' : sheetStreams'[i].sheet <= sheet'
  BY <1>1, <1>9, <1>10
<1> QED
  BY <1>1, <1>9, <1>11, <1>12, <1>13, <1>14 DEF SheetIInv

\* Every step of the sheet keeps its invariant.
LEMMA SheetIsKept == SheetIInv /\ [Next]_vars => SheetIInv'
<1> SUFFICES ASSUME SheetIInv, [Next]_vars PROVE SheetIInv'
  OBVIOUS
<1>0. [Sheet!SheetNext]_sheetVars  BY SheetRun
<1>a. /\ sheet \in 0 .. MaxSheets /\ MaxSheets \in Nat
      /\ container # "closed" => sheet \in 1 .. MaxSheets
      /\ container # "closed" => container \in Containers
  BY BoundsAssumption DEF SheetIInv
<1>b. ASSUME UNCHANGED <<sheet, container, sheetController, sheetStreams>> PROVE SheetIInv'
  BY <1>b DEF SheetIInv, AloneInSheet, SheetReach
<1>1. ASSUME NEW c \in Containers, Sheet!OpenSheet(c) PROVE SheetIInv'
  <2>1. /\ sheet < MaxSheets /\ sheet' = sheet + 1 /\ container' = c
        /\ Sheet!SheetStart(sheet + 1, sheetStreams)
    BY <1>1 DEF Sheet!OpenSheet
  <2>2. sheet + 1 \in 1 .. MaxSheets /\ sheet + 1 >= sheet  BY <1>a, <2>1
  <2> QED  BY <2>1, <2>2, SheetStartKeeps
<1>2. ASSUME NEW c \in Containers, Sheet!SheetContainerChanges(c) PROVE SheetIInv'
  <2>1. /\ container # "closed" /\ container' = c /\ sheet' = sheet
        /\ Sheet!SheetStart(sheet, Sheet!SheetAborted)
    BY <1>2 DEF Sheet!SheetContainerChanges, Sheet!IsOpen
  <2>2. sheet \in 1 .. MaxSheets /\ sheet >= sheet  BY <1>a, <2>1
  <2> QED  BY <2>1, <2>2, SheetStartKeeps
<1>3. ASSUME NEW n \in LineCounts, Sheet!SheetChangeLines(n) PROVE SheetIInv'
  <2>1. /\ container # "closed" /\ container' = container /\ sheet' = sheet
        /\ Sheet!SheetStart(sheet, Sheet!SheetAborted)
    BY <1>3 DEF Sheet!SheetChangeLines, Sheet!IsOpen
  <2>2. sheet \in 1 .. MaxSheets /\ sheet >= sheet /\ container' \in Containers
    BY <1>a, <2>1
  <2> QED  BY <2>1, <2>2, SheetStartKeeps
<1>4. CASE Sheet!SheetToggleStream
  <2>1. /\ container # "closed" /\ UNCHANGED <<sheet, container>>
        /\ Sheet!SheetStop \/ Sheet!SheetStart(sheet, sheetStreams)
    BY <1>4 DEF Sheet!SheetToggleStream, Sheet!IsOpen
  <2>2. sheet \in 1 .. MaxSheets /\ sheet >= sheet /\ container' \in Containers
    BY <1>a, <2>1
  <2> QED  BY <2>1, <2>2, SheetStartKeeps, SheetStopKeeps
<1>5. CASE Sheet!SheetRefresh
  BY <1>5, <1>b DEF Sheet!SheetRefresh
<1>6. ASSUME NEW f, NEW new, Sheet!SheetLogsFetched(f, new) PROVE SheetIInv'
  BY <1>6, <1>b DEF Sheet!SheetLogsFetched
<1>7. ASSUME NEW k \in DOMAIN sheetStreams, Sheet!SheetStreamOpens(k) PROVE SheetIInv'
  <2>1. /\ sheetStreams[k].pc # "ended"
        /\ sheetStreams' = [sheetStreams EXCEPT ![k].pc = "reading"]
        /\ UNCHANGED <<sheet, container, sheetController>>
    BY <1>7 DEF Sheet!SheetStreamOpens
  <2> QED  BY <2>1, SheetStreamStepKeeps
<1>8. ASSUME NEW k \in DOMAIN sheetStreams, NEW fails \in BOOLEAN,
             Sheet!SheetStreamEnds(k, fails)
      PROVE  SheetIInv'
  <2>1. /\ sheetStreams[k].pc # "ended"
        /\ sheetStreams' = [sheetStreams EXCEPT ![k].pc = "ended"]
        /\ UNCHANGED <<sheet, container>>
        /\ IF Sheet!Mine(sheetStreams[k])
           THEN sheetController' = 0 ELSE sheetController' = sheetController
    BY <1>8 DEF Sheet!SheetStreamEnds, Sheet!None
  <2> QED  BY <2>1, SheetStreamStepKeeps
<1>9. CASE Sheet!CloseSheet  BY <1>9, CloseKeeps
<1>10. ASSUME UNCHANGED Sheet!life PROVE SheetIInv'
  BY <1>10, <1>b DEF Sheet!life
<1>11. ASSUME NEW k, NEW line, Sheet!SheetEntry(k, line) PROVE SheetIInv'
  BY <1>11, <1>10 DEF Sheet!SheetEntry
<1>12. CASE \/ Sheet!SheetSearches \/ Sheet!SheetMatchMoves \/ Sheet!SheetFilters
            \/ Sheet!SheetSections \/ Sheet!SheetOptions
  BY <1>12, <1>10 DEF Sheet!SheetSearches, Sheet!SheetMatchMoves, Sheet!SheetFilters,
       Sheet!SheetSections, Sheet!SheetOptions
<1>13. CASE UNCHANGED sheetVars
  BY <1>13, <1>b DEF sheetVars
<1> HIDE DEF SheetIInv
<1>14. ASSUME NEW k \in DOMAIN sheetStreams,
              \/ Sheet!SheetStreamOpens(k)
              \/ \E line \in Sheet!View!Line : Sheet!SheetEntry(k, line)
              \/ \E fails \in BOOLEAN : Sheet!SheetStreamEnds(k, fails)
       PROVE  SheetIInv'
  BY <1>7, <1>8, <1>11, <1>14
<1> QED
  BY <1>0, <1>1, <1>2, <1>3, <1>4, <1>5, <1>6, <1>9, <1>12, <1>13, <1>14 DEF Sheet!SheetNext

\* The invariant of the sheet holds throughout.
LEMMA SheetStays == Spec => []SheetIInv
BY SheetStarts, SheetIsKept, PTL DEF Spec

-----------------------------------------------------------------------------
(* The four panels together.                                               *)

\* The streams and sockets a panel opens stay in its reach: what still runs is
\* what Stop, the cleanup or disconnect will end, unless streams overlapped, a
\* sheet was closed on it or connect forgot it while connecting; and spinner,
\* status and "Live" do not outlast what they tell of (LogStreaming, LogsSheet,
\* StatsPanel, TerminalPanel), for any containers and bounds.
THEOREM StreamsInReach == Spec => []StreamsStayInReach
<1>1. LogsIInv => Logs!StoppableUnlessOverlapped /\ Logs!LoadingIsAsked
  BY DEF LogsIInv, StreamsInv, LoadingInv
<1>2. StatsIInv => Stats!StatsStayInReach /\ Stats!LiveIsOpen  BY DEF StatsIInv
<1>3. TerminalIInv => Terminal!OneTerminal /\ Terminal!StatusIsOfTheSocket  BY DEF TerminalIInv
<1>4. LogsIInv /\ SheetIInv /\ StatsIInv /\ TerminalIInv => StreamsStayInReach
  BY <1>1, <1>2, <1>3, SheetReachIsStoppable DEF StreamsStayInReach
<1> QED  BY <1>4, LogsStay, SheetStays, StatsStays, TerminalStays, PTL

-----------------------------------------------------------------------------
(* LogView.                                                                *)

\* What an instance counts is what is counted here.
LEMMA ViewCounts == \A T : View!Cardinality(T) = Cardinality(T)
BY SMT DEF View!Cardinality, Cardinality

\* What a filter keeps, by its index: so many as it keeps, each of them kept.
LEMMA ViewKeeps ==
  ASSUME NEW S \in SUBSET Nat, IsFiniteSet(S)
  PROVE  /\ View!InOrder(S) \in [1 .. Cardinality(S) -> S]
         /\ Cardinality(S) \in Nat
<1>1. View!InOrder(S) = Ordered(S)
  <2>1. View!InOrder(S) =
          [n \in 1 .. View!Cardinality(S) |->
              CHOOSE i \in S : View!Cardinality({j \in S : j < i}) = n - 1]
    BY DEF View!InOrder
  <2> QED  BY <2>1, ViewCounts DEF Ordered
<1>2. Ordered(S) \in [1 .. Cardinality(S) -> S]  BY OrderedIsIn, Zenon
<1> QED  BY <1>1, <1>2, FS_CardinalityType

\* The rows that match are rows of what is filtered, with the text.
LEMMA ViewMatches ==
  ASSUME lines \in Seq(View!Line)
  PROVE  \E k \in Nat :
            /\ DOMAIN View!SearchMatches = 1 .. k
            /\ Len(View!SearchMatches) = k
            /\ k = 0 => View!SearchMatches = << >>
            /\ \A n \in 1 .. k :
                  View!HasText(View!FilteredLogs[View!SearchMatches[n]], searchText)
<1> DEFINE kept == {i \in DOMAIN lines : View!Passes(lines[i])}
           matching == {i \in DOMAIN View!FilteredLogs :
                           View!HasText(View!FilteredLogs[i], searchText)}
           m == Cardinality(matching)
<1>1. kept \in SUBSET Nat /\ IsFiniteSet(kept)
  <2>1. Len(lines) \in Nat /\ kept \subseteq 1 .. Len(lines)  OBVIOUS
  <2>2. IsFiniteSet(1 .. Len(lines))  BY <2>1, FS_Interval
  <2> HIDE DEF kept
  <2>3. IsFiniteSet(kept)  BY <2>1, <2>2, FS_Subset
  <2> QED  BY <2>1, <2>3
<1>2. /\ View!InOrder(kept) \in [1 .. Cardinality(kept) -> kept]
      /\ Cardinality(kept) \in Nat
  <2> HIDE DEF kept
  <2> QED  BY <1>1, ViewKeeps
<1>3. DOMAIN View!FilteredLogs = 1 .. Cardinality(kept)
  BY <1>2 DEF View!FilteredLogs
<1>4. matching \in SUBSET Nat /\ IsFiniteSet(matching)
  <2>1. matching \subseteq 1 .. Cardinality(kept)  BY <1>3
  <2>2. IsFiniteSet(1 .. Cardinality(kept))  BY <1>2, FS_Interval
  <2> HIDE DEF kept, matching
  <2>3. IsFiniteSet(matching)  BY <2>1, <2>2, FS_Subset
  <2> QED  BY <1>2, <2>1, <2>3
<1>5. View!InOrder(matching) \in [1 .. m -> matching] /\ m \in Nat
  <2> HIDE DEF matching
  <2> QED  BY <1>4, ViewKeeps
<1>6. CASE View!SearchMatches = << >>
  <2>1. DOMAIN << >> = 1 .. 0 /\ Len(<< >>) = 0  OBVIOUS
  <2> QED  BY <1>6, <2>1
<1>7. CASE View!SearchMatches = View!InOrder(matching)
  <2>1. Len(View!InOrder(matching)) = m
    <3> HIDE DEF matching, m
    <3> QED  BY <1>5
  <2>2. \A n \in 1 .. m : View!InOrder(matching)[n] \in matching
    <3> HIDE DEF matching, m
    <3> QED  BY <1>5
  <2>3. \A n \in 1 .. m :
           View!HasText(View!FilteredLogs[View!SearchMatches[n]], searchText)
    BY <1>7, <2>2
  <2>4. m = 0 => View!InOrder(matching) = << >>
    <3> HIDE DEF matching, m
    <3> SUFFICES ASSUME m = 0 PROVE View!InOrder(matching) = << >>
      OBVIOUS
    <3>1. View!InOrder(matching) \in [{} -> matching]  BY <1>5
    <3> QED  BY <3>1
  <2> HIDE DEF matching, m
  <2> QED  BY <1>5, <1>7, <2>1, <2>3, <2>4
<1> QED  BY <1>6, <1>7, Zenon DEF View!SearchMatches

\* However the rows moved under it, the arrow forward lands on a match.
LEMMA ViewLands ==
  ASSUME View!ViewTypeOK, View!GoToNextMatch
  PROVE  /\ currentMatchIndex' + 1 \in DOMAIN View!SearchMatches
         /\ View!HasText(View!FilteredLogs[View!SearchMatches[currentMatchIndex' + 1]], searchText)
         /\ currentMatchIndex' \in Nat
<1>1. PICK k \in Nat :
         /\ DOMAIN View!SearchMatches = 1 .. k /\ Len(View!SearchMatches) = k
         /\ k = 0 => View!SearchMatches = << >>
         /\ \A n \in 1 .. k :
               View!HasText(View!FilteredLogs[View!SearchMatches[n]], searchText)
  BY ViewMatches DEF View!ViewTypeOK
<1>2. /\ View!SearchMatches # << >> /\ currentMatchIndex \in Nat
      /\ currentMatchIndex' = IF currentMatchIndex < Len(View!SearchMatches) - 1 THEN currentMatchIndex + 1 ELSE 0
  BY DEF View!GoToNextMatch, View!ViewTypeOK
<1>3. k # 0  BY <1>1, <1>2
<1>4. currentMatchIndex' \in Nat /\ currentMatchIndex' + 1 \in 1 .. k  BY <1>1, <1>2, <1>3
<1> QED  BY <1>1, <1>4

\* The arrow back stays on an index.
LEMMA ViewReturns ==
  ASSUME View!ViewTypeOK, View!GoToPreviousMatch
  PROVE  currentMatchIndex' \in Nat
<1>1. PICK k \in Nat :
         /\ DOMAIN View!SearchMatches = 1 .. k /\ Len(View!SearchMatches) = k
         /\ k = 0 => View!SearchMatches = << >>
  BY ViewMatches DEF View!ViewTypeOK
<1>2. /\ View!SearchMatches # << >> /\ currentMatchIndex \in Nat
      /\ currentMatchIndex' = IF currentMatchIndex > 0 THEN currentMatchIndex - 1 ELSE Len(View!SearchMatches) - 1
  BY DEF View!GoToPreviousMatch, View!ViewTypeOK
<1>3. k # 0  BY <1>1, <1>2
<1> QED  BY <1>1, <1>2, <1>3

\* The pages run the view by its own steps.
LEMMA ViewRun == [Next]_vars => [View!ViewNext]_viewVars
<1>1. CASE Next
  BY <1>1 DEF Next
<1>2. CASE UNCHANGED vars
  BY <1>2 DEF vars
<1> QED  BY <1>1, <1>2

\* The view starts without lines.
LEMMA ViewStarts == Init => View!ViewTypeOK
<1> SUFFICES ASSUME View!ViewInit PROVE View!ViewTypeOK
  BY DEF Init
<1>1. << >> \in Seq(View!Line)  OBVIOUS
<1>2. Sections \cap {"timestamps", "autoScroll"} \subseteq Sections  OBVIOUS
<1> QED  BY <1>1, <1>2 DEF View!ViewInit, View!ViewTypeOK

\* Every step of the view keeps its types.
LEMMA ViewIsKept == View!ViewTypeOK /\ [Next]_vars => View!ViewTypeOK'
<1> SUFFICES ASSUME View!ViewTypeOK, [View!ViewNext]_viewVars PROVE View!ViewTypeOK'
  BY ViewRun
<1>1. CASE View!ContainerFound
  BY <1>1 DEF View!ContainerFound, View!ViewTypeOK
<1>2. ASSUME NEW line \in View!Line, View!LineArrives(line) PROVE View!ViewTypeOK'
  <2>1. Append(lines, line) \in Seq(View!Line)  BY DEF View!ViewTypeOK
  <2> QED  BY <1>2, <2>1 DEF View!LineArrives, View!ViewTypeOK
<1>3. ASSUME NEW new \in {<< >>} \cup {<<line>> : line \in View!Line}, View!LinesReplaced(new)
      PROVE  View!ViewTypeOK'
  <2>1. new \in Seq(View!Line)
    <3>1. \A line \in View!Line : <<line>> \in Seq(View!Line)  OBVIOUS
    <3>2. << >> \in Seq(View!Line)  OBVIOUS
    <3> QED  BY <3>1, <3>2
  <2> QED  BY <1>3, <2>1 DEF View!LinesReplaced, View!ViewTypeOK
<1>4. ASSUME NEW text \in Texts \cup {NoText}, View!Search(text) PROVE View!ViewTypeOK'
  BY <1>4 DEF View!Search, View!ViewTypeOK
<1>5. ASSUME NEW level \in LogLevels, View!ToggleLogLevel(level) PROVE View!ViewTypeOK'
  BY <1>5 DEF View!ToggleLogLevel, View!ViewTypeOK
<1>6. CASE View!ClearFilters
  BY <1>6 DEF View!ClearFilters, View!ViewTypeOK
<1>7. CASE View!GoToPreviousMatch
  <2>1. currentMatchIndex' \in Nat  BY <1>7, ViewReturns
  <2> QED  BY <1>7, <2>1 DEF View!GoToPreviousMatch, View!ViewTypeOK
<1>8. CASE View!GoToNextMatch
  <2>1. currentMatchIndex' \in Nat  BY <1>8, ViewLands
  <2> QED  BY <1>8, <2>1 DEF View!GoToNextMatch, View!ViewTypeOK
<1>9. ASSUME NEW s \in Sections, View!ToggleSection(s) \/ View!ToggleOption(s)
      PROVE  View!ViewTypeOK'
  BY <1>9 DEF View!ToggleSection, View!ToggleOption, View!ViewTypeOK
<1>10. CASE UNCHANGED viewVars
  BY <1>10 DEF viewVars, View!ViewTypeOK
<1> QED
  BY <1>1, <1>2, <1>3, <1>4, <1>5, <1>6, <1>7, <1>8, <1>9, <1>10 DEF View!ViewNext

\* The lines and the filter may move under the index: the next arrow lands on a
\* line that contains the text (goToNextMatch of the logs page).
THEOREM ArrowLands == Spec => []View!ViewTypeOK /\ View!NextLandsOnMatch
<1>1. Init => View!ViewTypeOK  BY ViewStarts
<1>2. View!ViewTypeOK /\ [Next]_vars => View!ViewTypeOK'  BY ViewIsKept
<1>3. View!ViewTypeOK /\ [Next]_vars =>
        [View!GoToNextMatch =>
           /\ currentMatchIndex' + 1 \in DOMAIN View!SearchMatches
           /\ View!HasText(View!FilteredLogs[View!SearchMatches[currentMatchIndex' + 1]],
                           searchText)]_View!viewVars
  <2> SUFFICES ASSUME View!ViewTypeOK, View!GoToNextMatch
               PROVE  /\ currentMatchIndex' + 1 \in DOMAIN View!SearchMatches
                      /\ View!HasText(
                            View!FilteredLogs[View!SearchMatches[currentMatchIndex' + 1]],
                            searchText)
    OBVIOUS
  <2> QED  BY ViewLands
<1> QED  BY <1>1, <1>2, <1>3, PTL DEF Spec, View!NextLandsOnMatch

-----------------------------------------------------------------------------
(* The view of LogsSheet.                                                  *)

\* What an instance counts is what is counted here.
LEMMA SheetViewCounts == \A T : Sheet!View!Cardinality(T) = Cardinality(T)
BY SMT DEF Sheet!View!Cardinality, Cardinality

\* What a filter keeps, by its index: so many as it keeps, each of them kept.
LEMMA SheetViewKeeps ==
  ASSUME NEW S \in SUBSET Nat, IsFiniteSet(S)
  PROVE  /\ Sheet!View!InOrder(S) \in [1 .. Cardinality(S) -> S]
         /\ Cardinality(S) \in Nat
<1>1. Sheet!View!InOrder(S) = Ordered(S)
  <2>1. Sheet!View!InOrder(S) =
          [n \in 1 .. Sheet!View!Cardinality(S) |->
              CHOOSE i \in S : Sheet!View!Cardinality({j \in S : j < i}) = n - 1]
    BY DEF Sheet!View!InOrder
  <2> QED  BY <2>1, SheetViewCounts DEF Ordered
<1>2. Ordered(S) \in [1 .. Cardinality(S) -> S]  BY OrderedIsIn, Zenon
<1> QED  BY <1>1, <1>2, FS_CardinalityType

\* The rows that match are rows of what is filtered, with the text.
LEMMA SheetViewMatches ==
  ASSUME sheetLines \in Seq(Sheet!View!Line)
  PROVE  \E k \in Nat :
            /\ DOMAIN Sheet!View!SearchMatches = 1 .. k
            /\ Len(Sheet!View!SearchMatches) = k
            /\ k = 0 => Sheet!View!SearchMatches = << >>
            /\ \A n \in 1 .. k :
                  Sheet!View!HasText(Sheet!View!FilteredLogs[Sheet!View!SearchMatches[n]], sheetSearch)
<1> DEFINE kept == {i \in DOMAIN sheetLines : Sheet!View!Passes(sheetLines[i])}
           matching == {i \in DOMAIN Sheet!View!FilteredLogs :
                           Sheet!View!HasText(Sheet!View!FilteredLogs[i], sheetSearch)}
           m == Cardinality(matching)
<1>1. kept \in SUBSET Nat /\ IsFiniteSet(kept)
  <2>1. Len(sheetLines) \in Nat /\ kept \subseteq 1 .. Len(sheetLines)  OBVIOUS
  <2>2. IsFiniteSet(1 .. Len(sheetLines))  BY <2>1, FS_Interval
  <2> HIDE DEF kept
  <2>3. IsFiniteSet(kept)  BY <2>1, <2>2, FS_Subset
  <2> QED  BY <2>1, <2>3
<1>2. /\ Sheet!View!InOrder(kept) \in [1 .. Cardinality(kept) -> kept]
      /\ Cardinality(kept) \in Nat
  <2> HIDE DEF kept
  <2> QED  BY <1>1, SheetViewKeeps
<1>3. DOMAIN Sheet!View!FilteredLogs = 1 .. Cardinality(kept)
  BY <1>2 DEF Sheet!View!FilteredLogs
<1>4. matching \in SUBSET Nat /\ IsFiniteSet(matching)
  <2>1. matching \subseteq 1 .. Cardinality(kept)  BY <1>3
  <2>2. IsFiniteSet(1 .. Cardinality(kept))  BY <1>2, FS_Interval
  <2> HIDE DEF kept, matching
  <2>3. IsFiniteSet(matching)  BY <2>1, <2>2, FS_Subset
  <2> QED  BY <1>2, <2>1, <2>3
<1>5. Sheet!View!InOrder(matching) \in [1 .. m -> matching] /\ m \in Nat
  <2> HIDE DEF matching
  <2> QED  BY <1>4, SheetViewKeeps
<1>6. CASE Sheet!View!SearchMatches = << >>
  <2>1. DOMAIN << >> = 1 .. 0 /\ Len(<< >>) = 0  OBVIOUS
  <2> QED  BY <1>6, <2>1
<1>7. CASE Sheet!View!SearchMatches = Sheet!View!InOrder(matching)
  <2>1. Len(Sheet!View!InOrder(matching)) = m
    <3> HIDE DEF matching, m
    <3> QED  BY <1>5
  <2>2. \A n \in 1 .. m : Sheet!View!InOrder(matching)[n] \in matching
    <3> HIDE DEF matching, m
    <3> QED  BY <1>5
  <2>3. \A n \in 1 .. m :
           Sheet!View!HasText(Sheet!View!FilteredLogs[Sheet!View!SearchMatches[n]], sheetSearch)
    BY <1>7, <2>2
  <2>4. m = 0 => Sheet!View!InOrder(matching) = << >>
    <3> HIDE DEF matching, m
    <3> SUFFICES ASSUME m = 0 PROVE Sheet!View!InOrder(matching) = << >>
      OBVIOUS
    <3>1. Sheet!View!InOrder(matching) \in [{} -> matching]  BY <1>5
    <3> QED  BY <3>1
  <2> HIDE DEF matching, m
  <2> QED  BY <1>5, <1>7, <2>1, <2>3, <2>4
<1> QED  BY <1>6, <1>7, Zenon DEF Sheet!View!SearchMatches

\* However the rows moved under it, the arrow forward lands on a match.
LEMMA SheetViewLands ==
  ASSUME Sheet!View!ViewTypeOK, Sheet!View!GoToNextMatch
  PROVE  /\ sheetMatch' + 1 \in DOMAIN Sheet!View!SearchMatches
         /\ Sheet!View!HasText(Sheet!View!FilteredLogs[Sheet!View!SearchMatches[sheetMatch' + 1]], sheetSearch)
         /\ sheetMatch' \in Nat
<1>1. PICK k \in Nat :
         /\ DOMAIN Sheet!View!SearchMatches = 1 .. k /\ Len(Sheet!View!SearchMatches) = k
         /\ k = 0 => Sheet!View!SearchMatches = << >>
         /\ \A n \in 1 .. k :
               Sheet!View!HasText(Sheet!View!FilteredLogs[Sheet!View!SearchMatches[n]], sheetSearch)
  BY SheetViewMatches DEF Sheet!View!ViewTypeOK
<1>2. /\ Sheet!View!SearchMatches # << >> /\ sheetMatch \in Nat
      /\ sheetMatch' = IF sheetMatch < Len(Sheet!View!SearchMatches) - 1 THEN sheetMatch + 1 ELSE 0
  BY DEF Sheet!View!GoToNextMatch, Sheet!View!ViewTypeOK
<1>3. k # 0  BY <1>1, <1>2
<1>4. sheetMatch' \in Nat /\ sheetMatch' + 1 \in 1 .. k  BY <1>1, <1>2, <1>3
<1> QED  BY <1>1, <1>4

\* The arrow back stays on an index.
LEMMA SheetViewReturns ==
  ASSUME Sheet!View!ViewTypeOK, Sheet!View!GoToPreviousMatch
  PROVE  sheetMatch' \in Nat
<1>1. PICK k \in Nat :
         /\ DOMAIN Sheet!View!SearchMatches = 1 .. k /\ Len(Sheet!View!SearchMatches) = k
         /\ k = 0 => Sheet!View!SearchMatches = << >>
  BY SheetViewMatches DEF Sheet!View!ViewTypeOK
<1>2. /\ Sheet!View!SearchMatches # << >> /\ sheetMatch \in Nat
      /\ sheetMatch' = IF sheetMatch > 0 THEN sheetMatch - 1 ELSE Len(Sheet!View!SearchMatches) - 1
  BY DEF Sheet!View!GoToPreviousMatch, Sheet!View!ViewTypeOK
<1>3. k # 0  BY <1>1, <1>2
<1> QED  BY <1>1, <1>2, <1>3

\* What a sheet shows keeps its types.
LEMMA SheetViewStarts == Init => Sheet!View!ViewTypeOK
<1> SUFFICES ASSUME Sheet!SheetInit PROVE Sheet!View!ViewTypeOK
  BY DEF Init
<1> QED  BY DEF Sheet!SheetInit, Sheet!View!ViewTypeOK

\* Every step of a sheet keeps the types of what it shows.
LEMMA SheetViewIsKept == Sheet!View!ViewTypeOK /\ [Next]_vars => Sheet!View!ViewTypeOK'
<1> SUFFICES ASSUME Sheet!View!ViewTypeOK, [Sheet!SheetNext]_sheetVars
             PROVE  Sheet!View!ViewTypeOK'
  BY SheetRun
<1>0. /\ sheetLines \in Seq(Sheet!View!Line) /\ sheetLevels \subseteq LogLevels
      /\ sheetSearch \in Texts \cup {NoText} /\ sheetMatch \in Nat
      /\ sheetOpen \subseteq Sections
  BY DEF Sheet!View!ViewTypeOK
<1>s. ASSUME sheetLines' \in Seq(Sheet!View!Line), sheetLevels' \subseteq LogLevels,
             sheetSearch' \in Texts \cup {NoText}, sheetMatch' \in Nat,
             sheetOpen' \subseteq Sections
      PROVE  Sheet!View!ViewTypeOK'
  BY <1>s DEF Sheet!View!ViewTypeOK
<1>e. << >> \in Seq(Sheet!View!Line)  OBVIOUS
<1>1. ASSUME NEW c \in Containers, Sheet!OpenSheet(c) PROVE Sheet!View!ViewTypeOK'
  <2>1. /\ sheetLines' = << >> /\ sheetLevels' = {} /\ sheetSearch' = NoText /\ sheetMatch' = 0
        /\ sheetOpen' = {}
    BY <1>1 DEF Sheet!OpenSheet, Sheet!SheetStart
  <2> QED  BY <1>e, <1>s, <2>1
<1>2. ASSUME NEW c \in Containers, Sheet!SheetContainerChanges(c) PROVE Sheet!View!ViewTypeOK'
  <2>1. /\ sheetLines' = << >> /\ sheetOpen' \subseteq sheetOpen
        /\ UNCHANGED <<sheetLevels, sheetSearch, sheetMatch>>
    BY <1>2 DEF Sheet!SheetContainerChanges, Sheet!SheetStart, Sheet!reading
  <2> QED  BY <1>0, <1>e, <1>s, <2>1
<1>3. ASSUME NEW n \in LineCounts, Sheet!SheetChangeLines(n) PROVE Sheet!View!ViewTypeOK'
  <2>1. /\ sheetLines' = << >> /\ sheetOpen' \subseteq sheetOpen
        /\ UNCHANGED <<sheetLevels, sheetSearch, sheetMatch>>
    BY <1>3 DEF Sheet!SheetChangeLines, Sheet!SheetStart, Sheet!reading
  <2> QED  BY <1>0, <1>e, <1>s, <2>1
<1>4. CASE Sheet!CloseSheet
  <2>1. sheetLines' = << >> /\ UNCHANGED <<sheetLevels, sheetSearch, sheetMatch, sheetOpen>>
    BY <1>4 DEF Sheet!CloseSheet, Sheet!reading
  <2> QED  BY <1>0, <1>e, <1>s, <2>1
<1>5. CASE Sheet!SheetToggleStream
  <2>1. /\ sheetLines' = << >> \/ sheetLines' = sheetLines
        /\ UNCHANGED <<sheetLevels, sheetSearch, sheetMatch, sheetOpen>>
    BY <1>5 DEF Sheet!SheetToggleStream, Sheet!SheetStart, Sheet!SheetStop, Sheet!reading
  <2> QED  BY <1>0, <1>e, <1>s, <2>1
<1>6. CASE Sheet!SheetRefresh
  <2>1. UNCHANGED <<sheetLines, sheetLevels, sheetSearch, sheetMatch, sheetOpen>>
    BY <1>6 DEF Sheet!SheetRefresh, Sheet!reading
  <2> QED  BY <1>0, <1>s, <2>1
<1>7. ASSUME NEW f \in DOMAIN sheetFetches, NEW new \in Seq(Sheet!View!Line),
             Sheet!SheetLogsFetched(f, new)
      PROVE  Sheet!View!ViewTypeOK'
  <2>1. /\ sheetLines' = new \/ sheetLines' = sheetLines
        /\ UNCHANGED <<sheetLevels, sheetSearch, sheetMatch, sheetOpen>>
    BY <1>7 DEF Sheet!SheetLogsFetched, Sheet!reading
  <2> QED  BY <1>0, <1>s, <2>1
<1>8. ASSUME NEW k \in DOMAIN sheetStreams,
             Sheet!SheetStreamOpens(k) \/ \E fails \in BOOLEAN : Sheet!SheetStreamEnds(k, fails)
      PROVE  Sheet!View!ViewTypeOK'
  <2>1. UNCHANGED <<sheetLines, sheetLevels, sheetSearch, sheetMatch, sheetOpen>>
    BY <1>8 DEF Sheet!SheetStreamOpens, Sheet!SheetStreamEnds, Sheet!reading
  <2> QED  BY <1>0, <1>s, <2>1
<1>9. ASSUME NEW k \in DOMAIN sheetStreams, NEW line \in Sheet!View!Line,
             Sheet!SheetEntry(k, line)
      PROVE  Sheet!View!ViewTypeOK'
  <2>1. /\ sheetLines' = Append(sheetLines, line)
        /\ UNCHANGED <<sheetLevels, sheetSearch, sheetMatch, sheetOpen>>
    BY <1>9 DEF Sheet!SheetEntry, Sheet!View!LineArrives
  <2>2. sheetLines' \in Seq(Sheet!View!Line)  BY <1>0, <2>1
  <2> QED  BY <1>0, <1>s, <2>1, <2>2
<1>10. CASE Sheet!SheetSearches
  <2>1. /\ sheetSearch' \in Texts \cup {NoText} /\ sheetMatch' = 0
        /\ UNCHANGED <<sheetLines, sheetLevels, sheetOpen>>
    BY <1>10 DEF Sheet!SheetSearches, Sheet!View!Search
  <2> QED  BY <1>0, <1>s, <2>1
<1>11. CASE Sheet!SheetMatchMoves
  <2>1. CASE Sheet!View!GoToPreviousMatch
    <3>1. UNCHANGED <<sheetLines, sheetLevels, sheetSearch, sheetOpen>>
      BY <2>1 DEF Sheet!View!GoToPreviousMatch
    <3>2. sheetMatch' \in Nat  BY <2>1, SheetViewReturns
    <3> QED  BY <1>0, <1>s, <3>1, <3>2
  <2>2. CASE Sheet!View!GoToNextMatch
    <3>1. UNCHANGED <<sheetLines, sheetLevels, sheetSearch, sheetOpen>>
      BY <2>2 DEF Sheet!View!GoToNextMatch
    <3>2. sheetMatch' \in Nat  BY <2>2, SheetViewLands
    <3> QED  BY <1>0, <1>s, <3>1, <3>2
  <2> QED  BY <1>11, <2>1, <2>2 DEF Sheet!SheetMatchMoves
<1>12. CASE Sheet!SheetFilters
  <2>1. sheetLevels' \subseteq LogLevels
        /\ UNCHANGED <<sheetLines, sheetSearch, sheetMatch, sheetOpen>>
    BY <1>0, <1>12 DEF Sheet!SheetFilters, Sheet!View!ClearFilters, Sheet!View!ToggleLogLevel
  <2> QED  BY <1>0, <1>s, <2>1
<1>13. CASE Sheet!SheetSections \/ Sheet!SheetOptions
  <2>1. sheetOpen' \subseteq Sections
        /\ UNCHANGED <<sheetLines, sheetLevels, sheetSearch, sheetMatch>>
    BY <1>0, <1>13 DEF Sheet!SheetSections, Sheet!SheetOptions, Sheet!View!ToggleSection,
                       Sheet!View!ToggleOption
  <2> QED  BY <1>0, <1>s, <2>1
<1>14. CASE UNCHANGED sheetVars
  <2>1. UNCHANGED <<sheetLines, sheetLevels, sheetSearch, sheetMatch, sheetOpen>>
    BY <1>14 DEF sheetVars
  <2> QED  BY <1>0, <1>s, <2>1
<1>15. \A line \in Sheet!View!Line : <<line>> \in Seq(Sheet!View!Line)  OBVIOUS
<1> QED
  BY <1>e, <1>1, <1>2, <1>3, <1>4, <1>5, <1>6, <1>7, <1>8, <1>9, <1>10, <1>11, <1>12, <1>13,
     <1>14, <1>15 DEF Sheet!SheetNext

\* So does the arrow of a sheet land on a match.
THEOREM SheetArrowLands == Spec => []Sheet!View!ViewTypeOK /\ Sheet!View!NextLandsOnMatch
<1>1. Init => Sheet!View!ViewTypeOK  BY SheetViewStarts
<1>2. Sheet!View!ViewTypeOK /\ [Next]_vars => Sheet!View!ViewTypeOK'  BY SheetViewIsKept
<1>3. Sheet!View!ViewTypeOK /\ [Next]_vars =>
        [Sheet!View!GoToNextMatch =>
           /\ sheetMatch' + 1 \in DOMAIN Sheet!View!SearchMatches
           /\ Sheet!View!HasText(
                 Sheet!View!FilteredLogs[Sheet!View!SearchMatches[sheetMatch' + 1]],
                 sheetSearch)]_Sheet!View!viewVars
  <2> SUFFICES ASSUME Sheet!View!ViewTypeOK, Sheet!View!GoToNextMatch
               PROVE  /\ sheetMatch' + 1 \in DOMAIN Sheet!View!SearchMatches
                      /\ Sheet!View!HasText(
                            Sheet!View!FilteredLogs[Sheet!View!SearchMatches[sheetMatch' + 1]],
                            sheetSearch)
    OBVIOUS
  <2> QED  BY SheetViewLands
<1> QED  BY <1>1, <1>2, <1>3, PTL DEF Spec, Sheet!View!NextLandsOnMatch

-----------------------------------------------------------------------------
(* The types of the sheet of logs.                                         *)

\* What the invariants of the sheet do not say of its types.
SheetRest ==
    /\ sheetLogLines \in LineCounts
    /\ sheetStreaming \in BOOLEAN /\ sheetLoading \in BOOLEAN
    /\ sheetFetches \in Seq(Sheet!SheetFetch)

\* The sheet starts with the default number of lines.
LEMMA SheetRestStarts == Init => SheetRest
<1> SUFFICES ASSUME Sheet!SheetInit PROVE SheetRest
  BY DEF Init
<1>1. sheetLogLines \in LineCounts  BY ChoicesAssumption DEF Sheet!SheetInit
<1>2. sheetFetches \in Seq(Sheet!SheetFetch)  BY DEF Sheet!SheetInit
<1> QED  BY <1>1, <1>2 DEF Sheet!SheetInit, SheetRest

\* Every step of the sheet keeps the rest of its types.
LEMMA SheetRestIsKept == SheetIInv /\ SheetRest /\ [Next]_vars => SheetRest'
<1> SUFFICES ASSUME SheetIInv, SheetRest, [Sheet!SheetNext]_sheetVars PROVE SheetRest'
  BY SheetRun
<1>0. /\ sheetLogLines \in LineCounts
      /\ sheetStreaming \in BOOLEAN /\ sheetLoading \in BOOLEAN
      /\ sheetFetches \in Seq(Sheet!SheetFetch)
  BY DEF SheetRest
<1>a. ASSUME sheetLogLines' \in LineCounts, sheetStreaming' \in BOOLEAN,
             sheetLoading' \in BOOLEAN, sheetFetches' = sheetFetches
      PROVE  SheetRest'
  BY <1>0, <1>a DEF SheetRest
<1>1. ASSUME NEW c, Sheet!OpenSheet(c) PROVE SheetRest'
  BY <1>0, <1>1, <1>a, ChoicesAssumption DEF Sheet!OpenSheet, Sheet!SheetStart
<1>2. ASSUME NEW c, Sheet!SheetContainerChanges(c) PROVE SheetRest'
  BY <1>0, <1>2, <1>a DEF Sheet!SheetContainerChanges, Sheet!SheetStart
<1>3. ASSUME NEW n \in LineCounts, Sheet!SheetChangeLines(n) PROVE SheetRest'
  BY <1>0, <1>3, <1>a DEF Sheet!SheetChangeLines, Sheet!SheetStart
<1>4. CASE Sheet!CloseSheet  BY <1>0, <1>4, <1>a DEF Sheet!CloseSheet
<1>5. CASE Sheet!SheetToggleStream
  BY <1>0, <1>5, <1>a DEF Sheet!SheetToggleStream, Sheet!SheetStart, Sheet!SheetStop
<1>6. CASE Sheet!SheetRefresh
  <2>1. sheet \in 1 .. MaxSheets
    BY <1>6, BoundsAssumption DEF Sheet!SheetRefresh, Sheet!IsOpen, SheetIInv
  <2>2. [pc |-> "asking", sheet |-> sheet] \in Sheet!SheetFetch
    BY <2>1 DEF Sheet!SheetFetch
  <2>3. sheetFetches' = Append(sheetFetches, [pc |-> "asking", sheet |-> sheet])
    BY <1>6 DEF Sheet!SheetRefresh
  <2>4. sheetFetches' \in Seq(Sheet!SheetFetch)  BY <1>0, <2>2, <2>3
  <2> QED  BY <1>0, <1>6, <2>4 DEF Sheet!SheetRefresh, SheetRest
<1>7. ASSUME NEW f \in DOMAIN sheetFetches, NEW new, Sheet!SheetLogsFetched(f, new)
      PROVE  SheetRest'
  <2>1. sheetFetches' = [sheetFetches EXCEPT ![f].pc = "over"]
    BY <1>7 DEF Sheet!SheetLogsFetched
  <2>2. sheetFetches[f] \in Sheet!SheetFetch  BY <1>0
  <2>3. [sheetFetches[f] EXCEPT !.pc = "over"] \in Sheet!SheetFetch
    BY <2>2 DEF Sheet!SheetFetch
  <2>4. sheetFetches' \in Seq(Sheet!SheetFetch)  BY <1>0, <2>1, <2>3
  <2> QED  BY <1>0, <1>7, <2>4 DEF Sheet!SheetLogsFetched, SheetRest
<1>8. ASSUME NEW k \in DOMAIN sheetStreams, Sheet!SheetStreamOpens(k) PROVE SheetRest'
  BY <1>0, <1>8, <1>a DEF Sheet!SheetStreamOpens
<1>9. ASSUME NEW k \in DOMAIN sheetStreams, NEW line, Sheet!SheetEntry(k, line)
      PROVE  SheetRest'
  BY <1>0, <1>9, <1>a DEF Sheet!SheetEntry, Sheet!life
<1>10. ASSUME NEW k \in DOMAIN sheetStreams, NEW fails \in BOOLEAN,
              Sheet!SheetStreamEnds(k, fails)
       PROVE  SheetRest'
  BY <1>0, <1>10, <1>a DEF Sheet!SheetStreamEnds
<1>11. ASSUME UNCHANGED Sheet!life PROVE SheetRest'
  BY <1>0, <1>11, <1>a DEF Sheet!life
<1>12. CASE UNCHANGED sheetVars  BY <1>0, <1>12, <1>a DEF sheetVars
<1> QED
  BY <1>1, <1>2, <1>3, <1>4, <1>5, <1>6, <1>7, <1>8, <1>9, <1>10, <1>11, <1>12
  DEF Sheet!SheetNext, Sheet!SheetSearches, Sheet!SheetMatchMoves, Sheet!SheetFilters,
      Sheet!SheetSections, Sheet!SheetOptions

\* The sheet of logs keeps its types.
THEOREM SheetTypes == Spec => []Sheet!SheetTypeOK
<1>1. SheetIInv /\ SheetRest /\ Sheet!View!ViewTypeOK => Sheet!SheetTypeOK
  BY DEF SheetIInv, SheetRest, Sheet!SheetTypeOK, Sheet!None
<1>2. Init => SheetIInv /\ SheetRest  BY SheetStarts, SheetRestStarts
<1>3. SheetIInv /\ SheetRest /\ [Next]_vars => (SheetIInv /\ SheetRest)'
  BY SheetIsKept, SheetRestIsKept
<1>4. Spec => [](SheetIInv /\ SheetRest)  BY <1>2, <1>3, PTL DEF Spec
<1> QED  BY <1>1, <1>4, SheetArrowLands, PTL

-----------------------------------------------------------------------------
(* The types of the form of the environment.                               *)

\* An environment gives values to some of the keys.
LEMMA EnvironmentIs ==
  ASSUME NEW env, NEW keys \in SUBSET EnvKeys, env \in [keys -> EnvValues]
  PROVE  env \in Env!Environments
BY DEF Env!Environments

\* What an environment is.
LEMMA IsEnvironment ==
  ASSUME NEW env \in Env!Environments
  PROVE  DOMAIN env \subseteq EnvKeys /\ env \in [DOMAIN env -> EnvValues]
<1>1. PICK keys \in SUBSET EnvKeys : env \in [keys -> EnvValues]  BY DEF Env!Environments
<1>2. DOMAIN env = keys  BY <1>1
<1> QED  BY <1>1, <1>2

\* An environment with more variables, and one without some, is one.
LEMMA MoreAndFewer ==
  ASSUME NEW env \in Env!Environments
  PROVE  /\ \A more \in Env!Environments : Env!With(env, more) \in Env!Environments
         /\ \A keys : Env!Without(env, keys) \in Env!Environments
<1>1. DOMAIN env \subseteq EnvKeys /\ env \in [DOMAIN env -> EnvValues]  BY IsEnvironment
<1>2. ASSUME NEW more \in Env!Environments PROVE Env!With(env, more) \in Env!Environments
  <2>1. DOMAIN more \subseteq EnvKeys /\ more \in [DOMAIN more -> EnvValues]
    BY <1>2, IsEnvironment
  <2> DEFINE keys == DOMAIN env \cup DOMAIN more
  <2>2. keys \in SUBSET EnvKeys  BY <1>1, <2>1
  <2>3. Env!With(env, more) \in [keys -> EnvValues]  BY <1>1, <2>1 DEF Env!With
  <2> HIDE DEF keys
  <2> QED  BY <2>2, <2>3, EnvironmentIs
<1>3. ASSUME NEW keys PROVE Env!Without(env, keys) \in Env!Environments
  <2> DEFINE kept == DOMAIN env \ keys
  <2>1. kept \in SUBSET EnvKeys  BY <1>1
  <2>2. Env!Without(env, keys) \in [kept -> EnvValues]
    BY <1>1 DEF Env!Without, Env!Restrict
  <2> HIDE DEF kept
  <2> QED  BY <2>1, <2>2, EnvironmentIs
<1> QED  BY <1>2, <1>3

SentRecord ==
    [container : 1 .. MaxContainers, env : Env!Environments, base : Env!Environments,
     touched : SUBSET EnvKeys, deleted : SUBSET EnvKeys]

\* The form starts with nothing edited.
LEMMA FormTyped == Init => Env!FormTypeOK
<1> SUFFICES ASSUME Env!FormInit PROVE Env!FormTypeOK
  BY DEF Init
<1>1. << >> \in Env!Environments
  <2>1. << >> \in [{} -> EnvValues]  OBVIOUS
  <2> QED  BY <2>1, EnvironmentIs
<1>2. Env!NoVariables \in Env!Environments /\ EnvFiles \subseteq Env!Environments
  BY <1>1, ChoicesAssumption DEF Env!NoVariables
<1>3. envServer \in [1 .. MaxContainers -> Env!Environments]
  BY <1>2 DEF Env!FormInit
<1>4. 1 \in 1 .. MaxContainers /\ 0 \in 0 .. MaxChanges  BY BoundsAssumption
<1> QED  BY <1>2, <1>3, <1>4 DEF Env!FormInit, Env!FormTypeOK

\* Every step of the form keeps its types.
LEMMA FormTypesKept == Env!FormTypeOK /\ [Next]_vars => Env!FormTypeOK'
<1> SUFFICES ASSUME Env!FormTypeOK, [Env!FormNext]_formVars PROVE Env!FormTypeOK'
  BY FormRun
<1>0. /\ envContainer \in 1 .. MaxContainers
      /\ envServer \in [1 .. MaxContainers -> Env!Environments]
      /\ cache = Absent \/ cache \in Env!Environments
      /\ isEditing \in BOOLEAN /\ showAddNew \in BOOLEAN /\ asking \in BOOLEAN
      /\ editedEnv \in Env!Environments /\ base \in Env!Environments
      /\ deletedKeys \subseteq EnvKeys /\ touched \subseteq EnvKeys
      /\ file = Absent \/ file \in EnvFiles
      /\ parsedEnvFile = Absent \/ parsedEnvFile \in EnvFiles
      /\ sent = Absent \/ sent \in SentRecord
      /\ changes \in 0 .. MaxChanges
  BY DEF Env!FormTypeOK, SentRecord
<1>s. ASSUME envContainer' \in 1 .. MaxContainers,
             envServer' \in [1 .. MaxContainers -> Env!Environments],
             cache' = Absent \/ cache' \in Env!Environments,
             isEditing' \in BOOLEAN, showAddNew' \in BOOLEAN, asking' \in BOOLEAN,
             editedEnv' \in Env!Environments, base' \in Env!Environments,
             deletedKeys' \subseteq EnvKeys, touched' \subseteq EnvKeys,
             file' = Absent \/ file' \in EnvFiles,
             parsedEnvFile' = Absent \/ parsedEnvFile' \in EnvFiles,
             sent' = Absent \/ sent' \in SentRecord,
             changes' \in 0 .. MaxChanges
      PROVE  Env!FormTypeOK'
  BY <1>s DEF Env!FormTypeOK, SentRecord
<1>f. EnvFiles \subseteq Env!Environments  BY ChoicesAssumption
<1>n. Env!NoVariables \in Env!Environments
  <2>1. << >> \in [{} -> EnvValues]  OBVIOUS
  <2> QED  BY <2>1, EnvironmentIs DEF Env!NoVariables
<1>1. CASE Env!EnvFetched
  <2>1. envServer[envContainer] \in Env!Environments  BY <1>0
  <2> QED  BY <1>0, <1>1, <1>s, <2>1 DEF Env!EnvFetched
<1>2. ASSUME NEW env \in EnvFiles, Env!ChangedElsewhere(env) PROVE Env!FormTypeOK'
  <2>1. envServer' \in [1 .. MaxContainers -> Env!Environments] /\ changes' \in 0 .. MaxChanges
    BY <1>0, <1>2, <1>f, BoundsAssumption DEF Env!ChangedElsewhere
  <2> QED  BY <1>0, <1>2, <1>s, <2>1 DEF Env!ChangedElsewhere
<1>3. ASSUME NEW env \in EnvFiles, Env!HandleFileUpload(env) PROVE Env!FormTypeOK'
  BY <1>0, <1>3, <1>s DEF Env!HandleFileUpload
<1>4. CASE Env!HandleEdit
  BY <1>0, <1>4, <1>s DEF Env!HandleEdit, Env!FormFree, Env!FormShown
<1>5. CASE Env!HandleCancel  BY <1>0, <1>5, <1>n, <1>s DEF Env!HandleCancel
<1>6. CASE Env!ToggleAddNew  BY <1>0, <1>6, <1>s DEF Env!ToggleAddNew
<1>7. ASSUME NEW k \in EnvKeys, Env!HandleDelete(k) PROVE Env!FormTypeOK'
  BY <1>0, <1>7, <1>s DEF Env!HandleDelete
<1>8. ASSUME NEW k \in EnvKeys, NEW value \in EnvValues, Env!HandleValueChange(k, value)
      PROVE  Env!FormTypeOK'
  <2>1. DOMAIN editedEnv \in SUBSET EnvKeys /\ editedEnv \in [DOMAIN editedEnv -> EnvValues]
    BY <1>0, IsEnvironment
  <2>2. editedEnv' \in [DOMAIN editedEnv -> EnvValues]
    BY <1>8, <2>1 DEF Env!HandleValueChange
  <2>3. editedEnv' \in Env!Environments  BY <2>1, <2>2, EnvironmentIs
  <2> QED  BY <1>0, <1>8, <1>s, <2>3 DEF Env!HandleValueChange
<1>9. ASSUME NEW k \in EnvKeys, NEW value \in EnvValues, Env!HandleAddNew(k, value)
      PROVE  Env!FormTypeOK'
  <2> DEFINE added == [key \in {k} |-> value]
  <2>1. added \in [{k} -> EnvValues] /\ {k} \in SUBSET EnvKeys  OBVIOUS
  <2>2. editedEnv' = Env!With(editedEnv, added)  BY <1>9 DEF Env!HandleAddNew
  <2> HIDE DEF added
  <2>3. added \in Env!Environments  BY <2>1, EnvironmentIs
  <2>4. editedEnv' \in Env!Environments  BY <1>0, <2>2, <2>3, MoreAndFewer
  <2> QED  BY <1>0, <1>9, <1>s, <2>4 DEF Env!HandleAddNew
<1>10. CASE Env!FileRead  BY <1>0, <1>10, <1>s DEF Env!FileRead
<1>11. CASE Env!HandleConfirmUpload
  <2>1. parsedEnvFile \in Env!Environments
    BY <1>0, <1>11, <1>f DEF Env!HandleConfirmUpload
  <2>2. editedEnv' \in Env!Environments
    BY <1>0, <1>11, <2>1, MoreAndFewer DEF Env!HandleConfirmUpload
  <2>3. DOMAIN parsedEnvFile \subseteq EnvKeys  BY <2>1, IsEnvironment
  <2> QED  BY <1>0, <1>11, <1>s, <2>2, <2>3 DEF Env!HandleConfirmUpload
<1>12. CASE Env!HandleCancelUpload  BY <1>0, <1>12, <1>s DEF Env!HandleCancelUpload
<1>13. CASE Env!HandleSave  BY <1>0, <1>13, <1>s DEF Env!HandleSave
<1>14. CASE Env!HandleConfirmUpdate
  <2>1. Env!FinalEnv \in Env!Environments  BY <1>0, MoreAndFewer DEF Env!FinalEnv
  <2>2. sent' \in SentRecord  BY <1>0, <1>14, <2>1 DEF Env!HandleConfirmUpdate, SentRecord
  <2> QED  BY <1>0, <1>14, <1>s, <2>2 DEF Env!HandleConfirmUpdate
<1>15. CASE Env!CancelUpdate  BY <1>0, <1>15, <1>s DEF Env!CancelUpdate
<1>16. CASE Env!Updated
  <2>1. sent.env \in Env!Environments  BY <1>0, <1>16 DEF Env!Updated, SentRecord
  <2>2. envServer' \in [1 .. MaxContainers -> Env!Environments]
        /\ envContainer' \in 1 .. MaxContainers
    BY <1>0, <1>16, <2>1, BoundsAssumption DEF Env!Updated
  <2> QED  BY <1>0, <1>16, <1>n, <1>s, <2>2 DEF Env!Updated
<1>17. CASE Env!UpdateFailed  BY <1>0, <1>17, <1>s DEF Env!UpdateFailed
<1>18. CASE UNCHANGED formVars  BY <1>0, <1>18, <1>s DEF formVars
<1> QED
  BY <1>1, <1>2, <1>3, <1>4, <1>5, <1>6, <1>7, <1>8, <1>9, <1>10, <1>11, <1>12,
     <1>13, <1>14, <1>15, <1>16, <1>17, <1>18 DEF Env!FormNext

-----------------------------------------------------------------------------
(* ScanDialogs.                                                            *)

ScanRecord == [key : 0 .. MaxOpenings, image : Images \cup {"all images"}, jobId : 0 .. MaxJobs,
               started : BOOLEAN, blocked : BOOLEAN]
BulkRecord == [open : BOOLEAN, jobId : 0 .. MaxJobs, started : BOOLEAN,
               selected : Images \cup {"all images"}]
SeenRecord == [status : {"unknown", "scanning"} \cup Scans!Terminal, scanned : SUBSET Images]

\* A request under way is of an image whose dialog there has been, of its
\* dialog's image, and of its job's; one of the bulk dialog is under way only
\* before that has a job.
RequestInv(r) ==
    /\ r.key <= openings
    /\ r.key # 0 /\ r.key = scan.key => r.of = scan.image
    /\ r.key = 0 => ~bulk.started
    /\ r.answer = "job" => r.job \in DOMAIN jobs /\ jobs[r.job].of = r.of

\* The job the dialog of an image shows is of that image.
ScanInv ==
    /\ scan.key <= openings
    /\ scan.jobId # 0 => scan.jobId \in DOMAIN jobs /\ jobs[scan.jobId].of = scan.image

\* What the bulk dialog has seen is of its job.
BulkInv ==
    /\ bulk.started => bulk.jobId # 0
    /\ bulk.jobId # 0 => /\ bulk.jobId \in DOMAIN jobs
                         /\ seen["bulk"].scanned \subseteq jobs[bulk.jobId].scanned
    /\ ~bulk.started => seen["bulk"].scanned = {}
    /\ bulk.selected # "all images" => bulk.started /\ bulk.selected \in seen["bulk"].scanned

\* The bulk dialog asks once at a time, however often it is closed and opened.
OneBulkRequest == \A r, q \in asked : r.key = 0 /\ q.key = 0 => r = q

DialogTyped ==
    /\ jobs \in Seq(Scans!Job)
    /\ asked \subseteq Scans!Request
    /\ openings \in 0 .. MaxOpenings
    /\ scan \in ScanRecord
    /\ bulk \in BulkRecord
    /\ seen \in [{"scan", "bulk"} -> SeenRecord]

DialogIInv ==
    /\ DialogTyped
    /\ \A r \in asked : RequestInv(r)
    /\ OneBulkRequest
    /\ ScanInv
    /\ BulkInv

\* The pages run the dialogs of scans by their own steps.
LEMMA DialogRun == [Next]_vars => [Scans!DialogNext]_dialogVars
<1>1. CASE Next
  BY <1>1 DEF Next
<1>2. CASE UNCHANGED vars
  BY <1>2 DEF vars
<1> QED  BY <1>1, <1>2

\* No job and no dialog are numbers too.
LEMMA ZeroIsAllowed == 0 \in 0 .. MaxJobs /\ 0 \in 0 .. MaxOpenings
BY BoundsAssumption

\* No dialog is open at first.
LEMMA DialogStarts == Init => DialogIInv
<1> SUFFICES ASSUME Scans!DialogInit PROVE DialogIInv
  BY DEF Init
<1>1. /\ jobs = << >> /\ asked = {} /\ openings = 0
      /\ scan = [key |-> 0, image |-> "all images", jobId |-> 0, started |-> FALSE,
                 blocked |-> FALSE]
      /\ bulk = [open |-> FALSE, jobId |-> 0, started |-> FALSE, selected |-> "all images"]
      /\ seen = [d \in {"scan", "bulk"} |-> [status |-> "unknown", scanned |-> {}]]
  BY Zenon DEF Scans!DialogInit, Scans!NoDialog, Scans!Unseen, Scans!None, Scans!AllImages
<1>2. 0 \in 0 .. MaxOpenings /\ 0 \in 0 .. MaxJobs  BY BoundsAssumption
<1>3. scan \in ScanRecord /\ bulk \in BulkRecord
  BY Zenon, <1>1, <1>2 DEF ScanRecord, BulkRecord
<1>4. seen \in [{"scan", "bulk"} -> SeenRecord]
  BY Zenon, <1>1 DEF SeenRecord
<1>41. jobs \in Seq(Scans!Job)
  <2>1. jobs = << >>  BY Zenon, <1>1
  <2> QED  BY <2>1
<1>5. DialogTyped  BY Zenon, <1>1, <1>2, <1>3, <1>4, <1>41 DEF DialogTyped
<1>6. ScanInv
  <2>1. scan.key = 0 /\ scan.jobId = 0 /\ openings = 0  BY Zenon, <1>1
  <2> QED  BY <2>1 DEF ScanInv
<1>7. BulkInv
  <2>1. ~bulk.started /\ bulk.jobId = 0 /\ bulk.selected = "all images"  BY Zenon, <1>1
  <2>2. seen["bulk"].scanned = {}  BY Zenon, <1>1
  <2> QED  BY Zenon, <2>1, <2>2 DEF BulkInv
<1> QED  BY Zenon, <1>1, <1>5, <1>6, <1>7 DEF DialogIInv, OneBulkRequest

\* The invariant says what the dialogs show.
LEMMA DialogOwns == DialogIInv => Scans!DialogsShowTheirOwn
BY Zenon DEF DialogIInv, ScanInv, BulkInv, Scans!DialogsShowTheirOwn, Scans!None, Scans!AllImages

\* Jobs only gain: their images stay, their results grow.
Grown ==
    /\ jobs' \in Seq(Scans!Job)
    /\ DOMAIN jobs \subseteq DOMAIN jobs'
    /\ \A id \in DOMAIN jobs : jobs'[id].of = jobs[id].of /\ jobs[id].scanned \subseteq jobs'[id].scanned

\* What was said of the dialogs and requests stays true as jobs gain.
LEMMA GrownKeeps ==
  ASSUME DialogIInv, Grown, UNCHANGED <<openings, scan, bulk, seen>>
  PROVE  /\ ScanInv' /\ BulkInv'
         /\ \A r \in asked : r.key <= openings'
                             /\ (r.key # 0 /\ r.key = scan'.key => r.of = scan'.image)
                             /\ (r.key = 0 => ~bulk'.started)
                             /\ (r.answer = "job" => r.job \in DOMAIN jobs' /\ jobs'[r.job].of = r.of)
<1>1. ScanInv'  BY DEF DialogIInv, ScanInv, Grown
<1>2. BulkInv'  BY Zenon DEF DialogIInv, BulkInv, Grown
<1>3. \A r \in asked : RequestInv(r)  BY DEF DialogIInv
<1>4. ASSUME NEW r \in asked
      PROVE  /\ r.key <= openings'
             /\ (r.key # 0 /\ r.key = scan'.key => r.of = scan'.image)
             /\ (r.key = 0 => ~bulk'.started)
             /\ (r.answer = "job" => r.job \in DOMAIN jobs' /\ jobs'[r.job].of = r.of)
  <2>1. RequestInv(r)  BY <1>3
  <2> QED  BY <2>1 DEF RequestInv, Grown
<1> QED  BY <1>1, <1>2, <1>4

\* A step that only lets jobs gain.
LEMMA GrownOnlyKeeps ==
  ASSUME DialogIInv, Grown, UNCHANGED <<asked, openings, scan, bulk, seen>>
  PROVE  DialogIInv'
<1>1. /\ ScanInv' /\ BulkInv'
      /\ \A r \in asked : r.key <= openings'
                             /\ (r.key # 0 /\ r.key = scan'.key => r.of = scan'.image)
                             /\ (r.key = 0 => ~bulk'.started)
                             /\ (r.answer = "job" => r.job \in DOMAIN jobs' /\ jobs'[r.job].of = r.of)
  BY GrownKeeps
<1>2. \A r \in asked' : RequestInv(r)'  BY <1>1 DEF RequestInv
<1>3. DialogTyped'  BY DEF DialogIInv, DialogTyped, Grown
<1>4. OneBulkRequest'  BY DEF DialogIInv, OneBulkRequest
<1> QED  BY <1>1, <1>2, <1>3, <1>4 DEF DialogIInv

\* One job is changed.
LEMMA ChangedJobGrows ==
  ASSUME DialogIInv, NEW id \in DOMAIN jobs, NEW j \in Scans!Job,
         jobs' = [jobs EXCEPT ![id] = j], j.of = jobs[id].of, jobs[id].scanned \subseteq j.scanned
  PROVE  Grown
<1>1. jobs \in Seq(Scans!Job)  BY DEF DialogIInv, DialogTyped
<1>2. /\ jobs' \in Seq(Scans!Job) /\ DOMAIN jobs' = DOMAIN jobs
      /\ jobs'[id] = j
      /\ \A i \in DOMAIN jobs : i # id => jobs'[i] = jobs[i]
  BY <1>1
<1> QED  BY <1>2 DEF Grown

\* A job ends.
LEMMA StatusGrows ==
  ASSUME DialogIInv, NEW id \in DOMAIN jobs, NEW s \in Scans!Terminal,
         jobs' = [jobs EXCEPT ![id].status = s]
  PROVE  Grown
<1> DEFINE j == [jobs[id] EXCEPT !.status = s]
<1>1. jobs[id] \in Scans!Job  BY DEF DialogIInv, DialogTyped
<1>2. j \in Scans!Job /\ j.of = jobs[id].of /\ j.scanned = jobs[id].scanned
  BY <1>1 DEF Scans!Job
<1>3. jobs' = [jobs EXCEPT ![id] = j]  OBVIOUS
<1> HIDE DEF j
<1> QED  BY <1>2, <1>3, ChangedJobGrows

\* A job gains the result of an image.
LEMMA ScannedGrows ==
  ASSUME DialogIInv, NEW id \in DOMAIN jobs, NEW i \in Images,
         jobs' = [jobs EXCEPT ![id].scanned = @ \cup {i}]
  PROVE  Grown
<1> DEFINE more == jobs[id].scanned \cup {i}
           j == [jobs[id] EXCEPT !.scanned = more]
<1>1. jobs[id] \in Scans!Job  BY DEF DialogIInv, DialogTyped
<1>2. more \in SUBSET Images /\ jobs[id].scanned \subseteq more
  BY <1>1 DEF Scans!Job
<1>3. jobs' = [jobs EXCEPT ![id] = j]  OBVIOUS
<1> HIDE DEF more
<1>4. j \in Scans!Job /\ j.of = jobs[id].of /\ j.scanned = more
  BY <1>1, <1>2 DEF Scans!Job
<1> HIDE DEF j
<1> QED  BY <1>2, <1>3, <1>4, ChangedJobGrows

\* The server restarts and forgets the jobs.
LEMMA RestartGrows ==
  ASSUME DialogIInv, jobs' = [id \in DOMAIN jobs |-> [jobs[id] EXCEPT !.known = FALSE]]
  PROVE  Grown
<1>1. /\ jobs \in Seq(Scans!Job) /\ DOMAIN jobs = 1 .. Len(jobs) /\ Len(jobs) \in Nat
  BY DEF DialogIInv, DialogTyped
<1>2. \A id \in DOMAIN jobs : jobs[id] \in Scans!Job  BY <1>1
<1>3. ASSUME NEW id \in DOMAIN jobs
      PROVE  /\ jobs'[id] \in Scans!Job
             /\ jobs'[id].of = jobs[id].of
             /\ jobs'[id].scanned = jobs[id].scanned
  <2>1. jobs[id] \in Scans!Job  BY <1>2
  <2>2. jobs'[id] = [jobs[id] EXCEPT !.known = FALSE]  OBVIOUS
  <2> QED  BY <2>1, <2>2 DEF Scans!Job
<1>4. jobs' \in [1 .. Len(jobs) -> Scans!Job]  BY <1>1, <1>3
<1>5. jobs' \in Seq(Scans!Job) /\ DOMAIN jobs' = DOMAIN jobs  BY <1>1, <1>4
<1> QED  BY <1>3, <1>5 DEF Grown

\* A dialog opens: it is of a key no request under way has.
LEMMA OpenScanKeeps ==
  ASSUME DialogIInv, NEW i \in Images, Scans!OpenScan(i) PROVE DialogIInv'
<1>1. DialogTyped /\ (\A r \in asked : RequestInv(r)) /\ BulkInv /\ OneBulkRequest
  BY DEF DialogIInv
<1>2. /\ openings < MaxOpenings /\ openings' = openings + 1
      /\ scan' = [[key |-> 0, image |-> "all images", jobId |-> 0, started |-> FALSE,
                   blocked |-> FALSE] EXCEPT !.key = openings + 1, !.image = i]
      /\ UNCHANGED <<jobs, asked, bulk, seen>>
  BY DEF Scans!OpenScan, Scans!NoDialog, Scans!None, Scans!AllImages
<1>3. openings \in 0 .. MaxOpenings /\ asked \subseteq Scans!Request  BY <1>1 DEF DialogTyped
<1>4. openings' \in 1 .. MaxOpenings /\ openings' \in 0 .. MaxOpenings
  BY <1>2, <1>3, BoundsAssumption
<1>5. scan' = [key |-> openings', image |-> i, jobId |-> 0, started |-> FALSE, blocked |-> FALSE]
  BY <1>2
<1>6. scan'.key = openings' /\ scan'.jobId = 0  BY <1>5
<1>7. scan' \in ScanRecord
  <2>1. 0 \in 0 .. MaxJobs  BY BoundsAssumption
  <2> QED  BY Zenon, <1>4, <1>5, <2>1 DEF ScanRecord
<1>8. DialogTyped'  BY <1>1, <1>2, <1>4, <1>7 DEF DialogTyped
<1>9. ASSUME NEW r \in asked PROVE RequestInv(r)'
  <2>1. RequestInv(r)  BY <1>1
  <2>2. r.key \in 0 .. MaxOpenings  BY <1>3 DEF Scans!Request
  <2>3. r.key < openings' /\ r.key <= openings'
    BY <1>2, <1>3, <2>1, <2>2, BoundsAssumption DEF RequestInv
  <2>4. r.key # scan'.key  BY <1>4, <1>6, <2>2, <2>3
  <2> QED  BY <1>2, <2>1, <2>3, <2>4 DEF RequestInv
<1>10. ScanInv'  BY <1>4, <1>6, BoundsAssumption DEF ScanInv
<1>11. BulkInv' /\ OneBulkRequest'  BY Zenon, <1>1, <1>2 DEF BulkInv, OneBulkRequest
<1> QED  BY <1>2, <1>8, <1>9, <1>10, <1>11 DEF DialogIInv

\* What the scan dialog has seen is dropped, what the bulk one has stays.
LEMMA UnseenScan ==
  ASSUME DialogIInv, seen' = [seen EXCEPT !["scan"] = Scans!Unseen]
  PROVE  seen' \in [{"scan", "bulk"} -> SeenRecord] /\ seen'["bulk"] = seen["bulk"]
<1>1. Scans!Unseen \in SeenRecord  BY DEF Scans!Unseen, SeenRecord
<1>2. seen \in [{"scan", "bulk"} -> SeenRecord]  BY DEF DialogIInv, DialogTyped
<1> QED  BY <1>1, <1>2

\* The dialog of an image is closed.
LEMMA CloseScanKeeps ==
  ASSUME DialogIInv, Scans!CloseScan PROVE DialogIInv'
<1>1. DialogTyped /\ (\A r \in asked : RequestInv(r)) /\ BulkInv /\ OneBulkRequest
  BY DEF DialogIInv
<1>2. /\ scan' = [key |-> 0, image |-> "all images", jobId |-> 0, started |-> FALSE,
                  blocked |-> FALSE]
      /\ seen' = [seen EXCEPT !["scan"] = Scans!Unseen]
      /\ UNCHANGED <<jobs, asked, openings, bulk>>
  BY Zenon DEF Scans!CloseScan, Scans!NoDialog, Scans!None, Scans!AllImages
<1>3. openings \in 0 .. MaxOpenings  BY <1>1 DEF DialogTyped
<1>4. 0 \in 0 .. MaxJobs /\ 0 \in 0 .. MaxOpenings  BY BoundsAssumption
<1>5. scan' \in ScanRecord /\ scan'.key = 0 /\ scan'.jobId = 0
  BY Zenon, <1>2, <1>4 DEF ScanRecord
<1>6. seen' \in [{"scan", "bulk"} -> SeenRecord] /\ seen'["bulk"] = seen["bulk"]
  BY Zenon, <1>2, UnseenScan
<1>7. DialogTyped'  BY Zenon, <1>1, <1>2, <1>5, <1>6 DEF DialogTyped
<1>8. \A r \in asked : RequestInv(r)'  BY Zenon, <1>1, <1>2, <1>5 DEF RequestInv
<1>9. ScanInv'
  <2>1. 0 <= openings  BY <1>3
  <2>2. openings' = openings  BY Zenon, <1>2
  <2> QED  BY <1>5, <2>1, <2>2 DEF ScanInv
<1>10. BulkInv' /\ OneBulkRequest'  BY Zenon, <1>1, <1>2, <1>6 DEF BulkInv, OneBulkRequest
<1> QED  BY Zenon, <1>2, <1>7, <1>8, <1>9, <1>10 DEF DialogIInv

\* The dialog of an image goes back to its start.
LEMMA RetryScanKeeps ==
  ASSUME DialogIInv, Scans!RetryScan PROVE DialogIInv'
<1>1. DialogTyped /\ (\A r \in asked : RequestInv(r)) /\ ScanInv /\ BulkInv /\ OneBulkRequest
  BY DEF DialogIInv
<1>2. /\ scan' = [scan EXCEPT !.started = FALSE, !.jobId = 0]
      /\ seen' = [seen EXCEPT !["scan"] = Scans!Unseen]
      /\ UNCHANGED <<jobs, asked, openings, bulk>>
  BY DEF Scans!RetryScan, Scans!None
<1>3. scan \in ScanRecord  BY <1>1 DEF DialogTyped
<1>4. 0 \in 0 .. MaxJobs  BY BoundsAssumption
<1>5. scan' \in ScanRecord /\ scan'.key = scan.key /\ scan'.image = scan.image /\ scan'.jobId = 0
  BY Zenon, <1>2, <1>3, <1>4 DEF ScanRecord
<1>6. seen' \in [{"scan", "bulk"} -> SeenRecord] /\ seen'["bulk"] = seen["bulk"]
  BY <1>2, UnseenScan
<1>7. DialogTyped'  BY <1>1, <1>2, <1>5, <1>6 DEF DialogTyped
<1>8. \A r \in asked : RequestInv(r)'  BY <1>1, <1>2, <1>5 DEF RequestInv
<1>9. ScanInv'  BY <1>1, <1>2, <1>5 DEF ScanInv
<1>10. BulkInv' /\ OneBulkRequest'  BY Zenon, <1>1, <1>2, <1>6 DEF BulkInv, OneBulkRequest
<1> QED  BY <1>2, <1>7, <1>8, <1>9, <1>10 DEF DialogIInv

\* A request is made by either dialog.
LEMMA AskedKeeps ==
  ASSUME DialogIInv, NEW key \in 0 .. MaxOpenings, NEW of \in Images \cup {"all images"},
         asked' = asked \cup {[key |-> key, of |-> of, answer |-> "none", job |-> 0]},
         UNCHANGED <<jobs, openings, scan, bulk, seen>>,
         key <= openings,
         key # 0 => key = scan.key /\ of = scan.image,
         key = 0 => ~bulk.started /\ \A r \in asked : r.key # 0
  PROVE  DialogIInv'
<1>1. DialogTyped /\ (\A r \in asked : RequestInv(r)) /\ ScanInv /\ BulkInv /\ OneBulkRequest
  BY Zenon DEF DialogIInv
<1> DEFINE new == [key |-> key, of |-> of, answer |-> "none", job |-> 0]
<1>2. 0 \in 0 .. MaxJobs  BY Zenon, ZeroIsAllowed
<1>3. /\ new \in Scans!Request /\ new.key = key /\ new.of = of /\ new.answer = "none"
  BY Zenon, <1>2 DEF Scans!Request, Scans!Answers, Scans!AllImages
<1>4. asked' = asked \cup {new}  BY Zenon
<1> HIDE DEF new
<1>5. DialogTyped'
  <2>1. asked' \subseteq Scans!Request  BY Zenon, <1>1, <1>3, <1>4 DEF DialogTyped
  <2> QED  BY Zenon, <1>1, <2>1 DEF DialogTyped
<1>6. RequestInv(new)  BY Zenon, <1>3 DEF RequestInv
<1>7. \A r \in asked' : RequestInv(r)  BY Zenon, <1>1, <1>4, <1>6
<1>8. \A r \in asked' : RequestInv(r)'  BY Zenon, <1>7 DEF RequestInv
<1>9. OneBulkRequest'  BY Zenon, <1>1, <1>3, <1>4 DEF OneBulkRequest
<1>10. ScanInv' /\ BulkInv'  BY Zenon, <1>1 DEF ScanInv, BulkInv
<1> QED  BY Zenon, <1>5, <1>8, <1>9, <1>10 DEF DialogIInv

\* A scan of the image is asked for.
LEMMA StartScanKeeps ==
  ASSUME DialogIInv, Scans!StartScan PROVE DialogIInv'
<1>1. scan \in ScanRecord /\ ScanInv  BY DEF DialogIInv, DialogTyped
<1>2. scan.key \in 0 .. MaxOpenings /\ scan.image \in Images \cup {"all images"}
      /\ scan.key <= openings
  BY Zenon, <1>1 DEF ScanRecord, ScanInv
<1>3. /\ scan.key # 0
      /\ asked' = asked \cup {[key |-> scan.key, of |-> scan.image, answer |-> "none", job |-> 0]}
      /\ UNCHANGED <<jobs, openings, scan, bulk, seen>>
  BY DEF Scans!StartScan, Scans!None
<1> QED  BY Zenon, <1>2, <1>3, AskedKeeps

\* A scan of all images is asked for.
LEMMA StartBulkKeeps ==
  ASSUME DialogIInv, Scans!StartBulk PROVE DialogIInv'
<1>1. openings \in 0 .. MaxOpenings  BY DEF DialogIInv, DialogTyped
<1>2. /\ ~bulk.started
      /\ \A r \in asked : r.key # 0
      /\ asked' = asked \cup {[key |-> 0, of |-> "all images", answer |-> "none", job |-> 0]}
      /\ UNCHANGED <<jobs, openings, scan, bulk, seen>>
  BY Zenon DEF Scans!StartBulk, Scans!None, Scans!AllImages, Scans!Pending, Scans!BulkPanel
<1>3. 0 \in 0 .. MaxOpenings /\ 0 <= openings  BY <1>1, BoundsAssumption
<1> QED  BY Zenon, <1>2, <1>3, AskedKeeps

\* A request leaves, the rest of them and the jobs stay.
LEMMA FewerRequests ==
  ASSUME DialogIInv, asked' \subseteq asked, UNCHANGED <<jobs, openings>>,
         scan'.key = scan.key, scan'.image = scan.image,
         NEW b \in BOOLEAN, b => bulk.started \/ \A r \in asked' : r.key # 0,
         bulk'.started = b
  PROVE  (\A r \in asked' : RequestInv(r)') /\ OneBulkRequest' /\ asked' \subseteq Scans!Request
<1>1. DialogTyped /\ (\A r \in asked : RequestInv(r)) /\ OneBulkRequest
  BY DEF DialogIInv
<1>2. ASSUME NEW r \in asked' PROVE RequestInv(r)'
  <2>1. RequestInv(r)  BY <1>1
  <2>2. r.key = 0 => ~bulk'.started  BY <2>1 DEF RequestInv
  <2> QED  BY <2>1, <2>2 DEF RequestInv
<1>3. OneBulkRequest'  BY <1>1 DEF OneBulkRequest
<1> QED  BY <1>1, <1>2, <1>3 DEF DialogTyped

\* A request for the scan of an image resumes, its dialog being there or gone.
LEMMA ScanStartsKeeps ==
  ASSUME DialogIInv, NEW r \in asked, Scans!ScanStarts(r) PROVE DialogIInv'
<1>1. DialogTyped /\ RequestInv(r) /\ ScanInv /\ BulkInv
  BY DEF DialogIInv
<1>2. /\ r.key # 0
      /\ asked' = asked \ {r}
      /\ UNCHANGED <<jobs, openings, bulk, seen>>
      /\ IF r.key # scan.key
         THEN scan' = scan
         ELSE scan' = [scan EXCEPT !.jobId = IF r.answer = "job" THEN r.job ELSE @,
                                   !.started = @ \/ r.answer = "job",
                                   !.blocked = @ \/ r.answer = "blocked"]
  BY DEF Scans!ScanStarts
<1>3. scan \in ScanRecord /\ r \in Scans!Request  BY <1>1 DEF DialogTyped
<1>4. r.job \in 0 .. MaxJobs /\ scan.jobId \in 0 .. MaxJobs
  BY Zenon, <1>3 DEF Scans!Request, ScanRecord
<1>5. /\ scan' \in ScanRecord
      /\ scan'.key = scan.key /\ scan'.image = scan.image
      /\ scan'.jobId = scan.jobId
         \/ (r.key = scan.key /\ r.answer = "job" /\ scan'.jobId = r.job)
  <2>1. CASE r.key # scan.key  BY <1>2, <1>3, <2>1
  <2>2. CASE r.key = scan.key
    <3> DEFINE id == IF r.answer = "job" THEN r.job ELSE scan.jobId
               s == scan.started \/ r.answer = "job"
               b == scan.blocked \/ r.answer = "blocked"
    <3>1. scan' = [scan EXCEPT !.jobId = id, !.started = s, !.blocked = b]
      BY <1>2, <2>2
    <3>2. id \in 0 .. MaxJobs /\ (id = scan.jobId \/ (r.answer = "job" /\ id = r.job))
      BY <1>4
    <3>3. s \in BOOLEAN /\ b \in BOOLEAN  OBVIOUS
    <3> HIDE DEF id, s, b
    <3>4. scan' \in ScanRecord /\ scan'.key = scan.key /\ scan'.image = scan.image
          /\ scan'.jobId = id
      BY Zenon, <1>3, <3>1, <3>2, <3>3 DEF ScanRecord
    <3> QED  BY <2>2, <3>2, <3>4
  <2> QED  BY <2>1, <2>2
<1>6. (\A q \in asked' : RequestInv(q)') /\ OneBulkRequest' /\ asked' \subseteq Scans!Request
  <2>1. asked' \subseteq asked  BY <1>2
  <2>2. bulk.started \in BOOLEAN  BY Zenon, <1>1 DEF DialogTyped, BulkRecord
  <2> QED  BY <1>2, <1>5, <2>1, <2>2, FewerRequests
<1>7. ScanInv'
  <2>1. scan'.key <= openings'  BY <1>1, <1>2, <1>5 DEF ScanInv
  <2>2. ASSUME scan'.jobId # 0
        PROVE  scan'.jobId \in DOMAIN jobs /\ jobs[scan'.jobId].of = scan.image
    <3>1. CASE scan'.jobId = scan.jobId  BY <1>1, <2>2, <3>1 DEF ScanInv
    <3>2. CASE r.key = scan.key /\ r.answer = "job" /\ scan'.jobId = r.job
      BY <1>1, <1>2, <3>2 DEF RequestInv
    <3> QED  BY <1>5, <3>1, <3>2
  <2> QED  BY <1>2, <1>5, <2>1, <2>2 DEF ScanInv
<1>8. BulkInv'  BY Zenon, <1>1, <1>2 DEF BulkInv
<1>9. DialogTyped'  BY <1>1, <1>2, <1>5, <1>6 DEF DialogTyped
<1> QED  BY <1>6, <1>7, <1>8, <1>9 DEF DialogIInv

\* A request for the scan of all images resumes.
LEMMA BulkStartsKeeps ==
  ASSUME DialogIInv, NEW r \in asked, Scans!BulkStarts(r) PROVE DialogIInv'
<1>1. DialogTyped /\ RequestInv(r) /\ ScanInv /\ BulkInv /\ OneBulkRequest
  BY DEF DialogIInv
<1>2. /\ r.key = 0
      /\ asked' = asked \ {r}
      /\ UNCHANGED <<jobs, openings, scan, seen>>
      /\ IF r.answer = "job"
         THEN bulk' = [bulk EXCEPT !.jobId = r.job, !.started = TRUE, !.selected = "all images"]
         ELSE bulk' = bulk
  BY DEF Scans!BulkStarts, Scans!AllImages
<1>3. bulk \in BulkRecord /\ r \in Scans!Request /\ jobs \in Seq(Scans!Job)
      /\ 0 \notin DOMAIN jobs
  BY <1>1 DEF DialogTyped
<1>4. r.job \in 0 .. MaxJobs  BY <1>3 DEF Scans!Request
<1>41. asked' \subseteq asked  BY <1>2
<1>5. CASE r.answer = "job"
  <2>1. bulk' = [bulk EXCEPT !.jobId = r.job, !.started = TRUE, !.selected = "all images"]
    BY <1>2, <1>5
  <2>2. bulk' \in BulkRecord /\ bulk'.jobId = r.job /\ bulk'.selected = "all images"
    BY Zenon, <1>3, <1>4, <2>1 DEF BulkRecord
  <2>3. bulk'.started = TRUE
    BY Zenon, <1>3, <1>4, <2>1 DEF BulkRecord
  <2>4. \A q \in asked' : q.key # 0  BY <1>1, <1>2 DEF OneBulkRequest
  <2>5. (\A q \in asked' : RequestInv(q)') /\ OneBulkRequest' /\ asked' \subseteq Scans!Request
    BY <1>2, <1>41, <2>3, <2>4, FewerRequests
  <2>6. r.job \in DOMAIN jobs /\ r.job # 0 /\ ~bulk.started
    BY <1>1, <1>2, <1>3, <1>5 DEF RequestInv
  <2>7. seen["bulk"].scanned = {}  BY Zenon, <1>1, <2>6 DEF BulkInv
  <2>8. BulkInv'  BY Zenon, <1>2, <2>2, <2>3, <2>6, <2>7 DEF BulkInv
  <2>9. ScanInv'  BY <1>1, <1>2 DEF ScanInv
  <2>10. DialogTyped'  BY Zenon, <1>1, <1>2, <2>2, <2>5 DEF DialogTyped
  <2> QED  BY <2>5, <2>8, <2>9, <2>10 DEF DialogIInv
<1>6. CASE r.answer # "job"
  <2>1. bulk' = bulk  BY <1>2, <1>6
  <2>2. bulk.started \in BOOLEAN  BY Zenon, <1>3 DEF BulkRecord
  <2>3. (\A q \in asked' : RequestInv(q)') /\ OneBulkRequest' /\ asked' \subseteq Scans!Request
    BY <1>2, <1>41, <2>1, <2>2, FewerRequests
  <2>4. BulkInv' /\ ScanInv'  BY Zenon, <1>1, <1>2, <2>1 DEF BulkInv, ScanInv
  <2>5. DialogTyped'  BY <1>1, <1>2, <2>1, <2>3 DEF DialogTyped
  <2> QED  BY <2>3, <2>4, <2>5 DEF DialogIInv
<1> QED  BY <1>5, <1>6

\* A step of the bulk dialog that does not start it.
LEMMA BulkChangesKeep ==
  ASSUME DialogIInv, UNCHANGED <<jobs, asked, openings, scan>>,
         bulk' \in BulkRecord, seen' \in [{"scan", "bulk"} -> SeenRecord],
         bulk'.started => bulk.started, BulkInv'
  PROVE  DialogIInv'
<1>1. DialogTyped /\ (\A r \in asked : RequestInv(r)) /\ ScanInv /\ OneBulkRequest
  BY DEF DialogIInv
<1>2. DialogTyped'  BY <1>1 DEF DialogTyped
<1>3. \A r \in asked : RequestInv(r)'  BY <1>1 DEF RequestInv
<1>4. ScanInv' /\ OneBulkRequest'  BY <1>1 DEF ScanInv, OneBulkRequest
<1> QED  BY <1>2, <1>3, <1>4 DEF DialogIInv

\* The bulk dialog opens.
LEMMA OpenBulkKeeps ==
  ASSUME DialogIInv, Scans!OpenBulk PROVE DialogIInv'
<1>1. DialogTyped /\ BulkInv  BY DEF DialogIInv
<1>2. bulk' = [bulk EXCEPT !.open = TRUE] /\ UNCHANGED <<jobs, asked, openings, scan, seen>>
  BY DEF Scans!OpenBulk
<1>3. bulk \in BulkRecord  BY <1>1 DEF DialogTyped
<1>4. bulk' \in BulkRecord /\ bulk'.jobId = bulk.jobId /\ bulk'.selected = bulk.selected
  BY Zenon, <1>2, <1>3 DEF BulkRecord
<1>5. bulk'.started = bulk.started  BY Zenon, <1>2, <1>3 DEF BulkRecord
<1>6. BulkInv'  BY Zenon, <1>1, <1>2, <1>4, <1>5 DEF BulkInv
<1>7. seen' \in [{"scan", "bulk"} -> SeenRecord]  BY <1>1, <1>2 DEF DialogTyped
<1> QED  BY <1>2, <1>4, <1>5, <1>6, <1>7, BulkChangesKeep

\* The bulk dialog closes.
LEMMA CloseBulkKeeps ==
  ASSUME DialogIInv, Scans!CloseBulk PROVE DialogIInv'
<1>1. DialogTyped /\ BulkInv  BY DEF DialogIInv
<1>2. /\ bulk' = [open |-> FALSE, jobId |-> 0, started |-> FALSE, selected |-> "all images"]
      /\ seen' = [seen EXCEPT !["bulk"] = Scans!Unseen]
      /\ UNCHANGED <<jobs, asked, openings, scan>>
  BY Zenon DEF Scans!CloseBulk, Scans!None, Scans!AllImages
<1>3. 0 \in 0 .. MaxJobs  BY BoundsAssumption
<1>4. /\ bulk' \in BulkRecord /\ bulk'.jobId = 0 /\ bulk'.selected = "all images"
      /\ ~bulk'.started
  BY Zenon, <1>2, <1>3 DEF BulkRecord
<1>5. Scans!Unseen \in SeenRecord /\ Scans!Unseen.scanned = {}  BY DEF Scans!Unseen, SeenRecord
<1>6. seen \in [{"scan", "bulk"} -> SeenRecord]  BY <1>1 DEF DialogTyped
<1>7. seen' \in [{"scan", "bulk"} -> SeenRecord] /\ seen'["bulk"].scanned = {}
  BY Zenon, <1>2, <1>5, <1>6
<1>8. BulkInv'  BY Zenon, <1>4, <1>7 DEF BulkInv
<1> QED  BY Zenon, <1>2, <1>4, <1>7, <1>8, BulkChangesKeep

\* One image's result of a bulk scan is viewed.
LEMMA ViewResultKeeps ==
  ASSUME DialogIInv, NEW i \in Images, Scans!ViewResult(i) PROVE DialogIInv'
<1>1. DialogTyped /\ BulkInv  BY DEF DialogIInv
<1>2. bulk' = [bulk EXCEPT !.selected = i] /\ UNCHANGED <<jobs, asked, openings, scan, seen>>
  BY DEF Scans!ViewResult
<1>3. bulk \in BulkRecord  BY <1>1 DEF DialogTyped
<1>4. bulk.started /\ i \in seen["bulk"].scanned
  BY DEF Scans!ViewResult, Scans!Viewable
<1>5. bulk' \in BulkRecord /\ bulk'.jobId = bulk.jobId /\ bulk'.selected = i
  BY Zenon, <1>2, <1>3 DEF BulkRecord
<1>6. bulk'.started = bulk.started  BY Zenon, <1>2, <1>3 DEF BulkRecord
<1>7. BulkInv'  BY Zenon, <1>1, <1>2, <1>4, <1>5, <1>6 DEF BulkInv
<1>8. seen' \in [{"scan", "bulk"} -> SeenRecord]  BY <1>1, <1>2 DEF DialogTyped
<1> QED  BY <1>2, <1>5, <1>6, <1>7, <1>8, BulkChangesKeep

\* The answer of a poll is what the server knows of the job.
LEMMA PollKeeps ==
  ASSUME DialogIInv, NEW d \in {"scan", "bulk"}, Scans!Poll(d) PROVE DialogIInv'
<1>1. DialogTyped /\ BulkInv /\ ScanInv  BY DEF DialogIInv
<1> DEFINE id == Scans!Shown(d)
           answer == [status |-> jobs[id].status, scanned |-> jobs[id].scanned]
<1>2. /\ seen' = [seen EXCEPT ![d] = answer]
      /\ UNCHANGED <<jobs, asked, openings, scan, bulk>>
      /\ id # 0
      /\ d = "bulk" => bulk.started
  BY DEF Scans!Poll, Scans!Enabled, Scans!None
<1>3. (d = "scan" /\ id = scan.jobId) \/ (d = "bulk" /\ id = bulk.jobId)
  BY DEF Scans!Shown
<1>4. id \in DOMAIN jobs  BY Zenon, <1>1, <1>2, <1>3 DEF ScanInv, BulkInv
<1> HIDE DEF id
<1>5. jobs[id] \in Scans!Job  BY <1>1, <1>4 DEF DialogTyped
<1>6. answer \in SeenRecord /\ answer.scanned = jobs[id].scanned
  BY <1>5 DEF SeenRecord, Scans!Job
<1> HIDE DEF answer
<1>7. seen \in [{"scan", "bulk"} -> SeenRecord]  BY <1>1 DEF DialogTyped
<1>8. /\ seen' \in [{"scan", "bulk"} -> SeenRecord]
      /\ seen'[d] = answer
      /\ d = "scan" => seen'["bulk"] = seen["bulk"]
  BY <1>2, <1>6, <1>7
<1>9. BulkInv'
  <2>1. CASE d = "scan"  BY Zenon, <1>1, <1>2, <1>8, <2>1 DEF BulkInv
  <2>2. CASE d = "bulk"
    <3>1. id = bulk.jobId /\ bulk.started /\ seen'["bulk"].scanned = jobs[bulk.jobId].scanned
      BY <1>2, <1>3, <1>6, <1>8, <2>2
    <3>2. seen["bulk"].scanned \subseteq seen'["bulk"].scanned
      BY Zenon, <1>1, <1>2, <3>1 DEF BulkInv
    <3> QED  BY Zenon, <1>1, <1>2, <3>1, <3>2 DEF BulkInv
  <2> QED  BY <2>1, <2>2
<1>10. bulk \in BulkRecord  BY <1>1 DEF DialogTyped
<1> QED  BY <1>2, <1>8, <1>9, <1>10, BulkChangesKeep

\* A request is answered: another takes its place, for the same dialog and
\* image, and what it says of its job is true.
LEMMA AnswerKeeps ==
  ASSUME DialogIInv, NEW r \in asked, NEW q \in Scans!Request,
         q.key = r.key, q.of = r.of,
         q.answer = "job" => q.job \in DOMAIN jobs' /\ jobs'[q.job].of = r.of,
         asked' = (asked \ {r}) \cup {q}, Grown, UNCHANGED <<openings, scan, bulk, seen>>
  PROVE  DialogIInv'
<1>1. DialogTyped /\ RequestInv(r) /\ OneBulkRequest  BY DEF DialogIInv
<1>2. /\ ScanInv' /\ BulkInv'
      /\ \A p \in asked : p.key <= openings'
                          /\ (p.key # 0 /\ p.key = scan'.key => p.of = scan'.image)
                          /\ (p.key = 0 => ~bulk'.started)
                          /\ (p.answer = "job" => p.job \in DOMAIN jobs' /\ jobs'[p.job].of = p.of)
  BY GrownKeeps
<1>3. \A p \in asked : RequestInv(p)'  BY <1>2 DEF RequestInv
<1>4. RequestInv(q)'
  <2>1. q.key <= openings'  BY <1>2
  <2>2. q.key # 0 /\ q.key = scan'.key => q.of = scan'.image  BY <1>2
  <2>3. q.key = 0 => ~bulk'.started  BY <1>2
  <2> QED  BY <2>1, <2>2, <2>3 DEF RequestInv
<1>5. \A p \in asked' : RequestInv(p)'  BY <1>3, <1>4
<1>6. OneBulkRequest'  BY <1>1 DEF OneBulkRequest
<1>7. DialogTyped'
  <2>1. asked' \subseteq Scans!Request  BY <1>1 DEF DialogTyped
  <2>2. jobs' \in Seq(Scans!Job)  BY DEF Grown
  <2> QED  BY <1>1, <2>1, <2>2 DEF DialogTyped
<1> QED  BY <1>2, <1>5, <1>6, <1>7 DEF DialogIInv

\* The server takes a request on.
LEMMA AcceptKeeps ==
  ASSUME DialogIInv, NEW r \in asked, Scans!Accept(r) PROVE DialogIInv'
<1>1. /\ jobs \in Seq(Scans!Job) /\ Len(jobs) \in Nat /\ DOMAIN jobs = 1 .. Len(jobs)
      /\ r \in Scans!Request
  BY DEF DialogIInv, DialogTyped
<1> DEFINE j == [of |-> r.of, status |-> "scanning", scanned |-> {}, known |-> TRUE]
           n == Len(jobs) + 1
           q == [r EXCEPT !.answer = "job", !.job = n]
<1>2. /\ Len(jobs) < MaxJobs
      /\ jobs' = Append(jobs, j)
      /\ asked' = (asked \ {r}) \cup {q}
      /\ UNCHANGED <<openings, scan, bulk, seen>>
  BY DEF Scans!Accept
<1>3. j \in Scans!Job /\ j.of = r.of
  BY <1>1 DEF Scans!Job, Scans!Request
<1>4. n \in 0 .. MaxJobs  BY <1>1, <1>2, BoundsAssumption
<1> HIDE DEF j
<1>5. /\ jobs' \in Seq(Scans!Job)
      /\ DOMAIN jobs \subseteq DOMAIN jobs'
      /\ \A id \in DOMAIN jobs : jobs'[id] = jobs[id]
      /\ n \in DOMAIN jobs' /\ jobs'[n] = j
  BY <1>1, <1>2, <1>3
<1> HIDE DEF n
<1>6. q \in Scans!Request /\ q.key = r.key /\ q.of = r.of /\ q.job = n
  BY <1>1, <1>4 DEF Scans!Request, Scans!Answers
<1> HIDE DEF q
<1>7. Grown  BY <1>5 DEF Grown
<1> QED  BY <1>2, <1>3, <1>5, <1>6, <1>7, AnswerKeeps

\* The server refuses a request.
LEMMA RefuseKeeps ==
  ASSUME DialogIInv, NEW r \in asked, Scans!Refuse(r) PROVE DialogIInv'
<1>1. jobs \in Seq(Scans!Job) /\ r \in Scans!Request
  BY DEF DialogIInv, DialogTyped
<1>2. PICK a \in {"error", "blocked"} : asked' = (asked \ {r}) \cup {[r EXCEPT !.answer = a]}
  BY DEF Scans!Refuse
<1>3. UNCHANGED <<jobs, openings, scan, bulk, seen>>
  BY DEF Scans!Refuse
<1> DEFINE q == [r EXCEPT !.answer = a]
<1>4. q \in Scans!Request /\ q.key = r.key /\ q.of = r.of /\ q.answer = a
  BY <1>1 DEF Scans!Request, Scans!Answers
<1>5. asked' = (asked \ {r}) \cup {q}  BY <1>2
<1> HIDE DEF q
<1>6. Grown  BY <1>1, <1>3 DEF Grown
<1> QED  BY <1>3, <1>4, <1>5, <1>6, AnswerKeeps

\* The server restarts: it knows no job, and requests under way fail.
LEMMA RestartsKeep ==
  ASSUME DialogIInv, Scans!Restarts PROVE DialogIInv'
<1>1. DialogTyped /\ OneBulkRequest  BY DEF DialogIInv
<1>2. /\ jobs' = [id \in DOMAIN jobs |-> [jobs[id] EXCEPT !.known = FALSE]]
      /\ asked' = {[r EXCEPT !.answer = IF r.answer = "none" THEN "error" ELSE r.answer] :
                      r \in asked}
      /\ UNCHANGED <<openings, scan, bulk, seen>>
  BY DEF Scans!Restarts
<1>3. Grown  BY <1>2, RestartGrows
<1>4. /\ ScanInv' /\ BulkInv'
      /\ \A p \in asked : p.key <= openings'
                          /\ (p.key # 0 /\ p.key = scan'.key => p.of = scan'.image)
                          /\ (p.key = 0 => ~bulk'.started)
                          /\ (p.answer = "job" => p.job \in DOMAIN jobs' /\ jobs'[p.job].of = p.of)
  BY <1>2, <1>3, GrownKeeps
<1>5. ASSUME NEW q \in asked'
      PROVE  \E r \in asked : q = [r EXCEPT !.answer = IF r.answer = "none" THEN "error" ELSE r.answer]
  BY <1>2
<1>6. ASSUME NEW r \in asked,
             NEW q, q = [r EXCEPT !.answer = IF r.answer = "none" THEN "error" ELSE r.answer]
      PROVE  /\ q \in Scans!Request
             /\ q.key = r.key /\ q.of = r.of /\ q.job = r.job
             /\ q.answer = "job" => r.answer = "job"
  <2> DEFINE a == IF r.answer = "none" THEN "error" ELSE r.answer
  <2>1. r \in Scans!Request  BY <1>1 DEF DialogTyped
  <2>2. q = [r EXCEPT !.answer = a]  BY <1>6
  <2>3. a \in Scans!Answers /\ (a = "job" => r.answer = "job")
    BY <2>1 DEF Scans!Request, Scans!Answers
  <2> HIDE DEF a
  <2>4. q \in Scans!Request /\ q.key = r.key /\ q.of = r.of /\ q.job = r.job /\ q.answer = a
    BY <2>1, <2>2, <2>3 DEF Scans!Request
  <2> QED  BY <2>3, <2>4
<1>7. ASSUME NEW q \in asked' PROVE RequestInv(q)'
  <2>1. PICK r \in asked : q = [r EXCEPT !.answer = IF r.answer = "none" THEN "error" ELSE r.answer]
    BY <1>5
  <2>2. /\ q.key = r.key /\ q.of = r.of /\ q.job = r.job
        /\ q.answer = "job" => r.answer = "job"
    BY <1>6, <2>1
  <2> QED  BY <1>4, <2>2 DEF RequestInv
<1>8. OneBulkRequest'
  <2> SUFFICES ASSUME NEW q \in asked', NEW p \in asked', q.key = 0, p.key = 0
               PROVE  q = p
    BY DEF OneBulkRequest
  <2>1. PICK r \in asked : q = [r EXCEPT !.answer = IF r.answer = "none" THEN "error" ELSE r.answer]
    BY <1>5
  <2>2. PICK s \in asked : p = [s EXCEPT !.answer = IF s.answer = "none" THEN "error" ELSE s.answer]
    BY <1>5
  <2>3. r.key = 0 /\ s.key = 0  BY <1>6, <2>1, <2>2
  <2>4. r = s  BY <1>1, <2>3 DEF OneBulkRequest
  <2> QED  BY <2>1, <2>2, <2>4
<1>9. DialogTyped'
  <2>1. asked' \subseteq Scans!Request  BY <1>5, <1>6
  <2>2. jobs' \in Seq(Scans!Job)  BY <1>3 DEF Grown
  <2> QED  BY <1>1, <1>2, <2>1, <2>2 DEF DialogTyped
<1> QED  BY <1>4, <1>7, <1>8, <1>9 DEF DialogIInv

\* Every step of the dialogs of scans keeps their invariant.
LEMMA DialogIsKept == DialogIInv /\ [Next]_vars => DialogIInv'
<1> SUFFICES ASSUME DialogIInv, [Next]_vars PROVE DialogIInv'
  OBVIOUS
<1>0. [Scans!DialogNext]_dialogVars  BY DialogRun
<1>1. ASSUME NEW id \in DOMAIN jobs, Scans!CancelShown(id) \/ Scans!Ends(id)
      PROVE  DialogIInv'
  <2>1. PICK s \in Scans!Terminal : jobs' = [jobs EXCEPT ![id].status = s]
    BY <1>1 DEF Scans!CancelShown, Scans!Ends, Scans!Terminal
  <2>2. UNCHANGED <<asked, openings, scan, bulk, seen>>
    BY <1>1 DEF Scans!CancelShown, Scans!Ends
  <2> QED  BY <2>1, <2>2, StatusGrows, GrownOnlyKeeps
<1>2. ASSUME NEW id \in DOMAIN jobs, NEW i \in Reached, Scans!Scanned(id, i)
      PROVE  DialogIInv'
  <2>1. /\ jobs' = [jobs EXCEPT ![id].scanned = @ \cup {i}]
        /\ UNCHANGED <<asked, openings, scan, bulk, seen>>
    BY <1>2 DEF Scans!Scanned
  <2>2. i \in Images  BY ReachedAssumption
  <2> QED  BY <2>1, <2>2, ScannedGrows, GrownOnlyKeeps
<1>3. CASE UNCHANGED dialogVars
  <2>1. UNCHANGED <<jobs, asked, openings, scan, bulk, seen>>  BY <1>3 DEF dialogVars
  <2>2. jobs \in Seq(Scans!Job)  BY DEF DialogIInv, DialogTyped
  <2>3. Grown  BY <2>1, <2>2 DEF Grown
  <2> QED  BY <2>1, <2>3, GrownOnlyKeeps
<1> QED
  BY <1>0, <1>1, <1>2, <1>3, OpenScanKeeps, ViewResultKeeps, CloseScanKeeps, StartScanKeeps,
     RetryScanKeeps, OpenBulkKeeps, CloseBulkKeeps, StartBulkKeeps, ScanStartsKeeps,
     BulkStartsKeeps, AcceptKeeps, RefuseKeeps, PollKeeps, RestartsKeep DEF Scans!DialogNext

\* The invariant of the dialogs of scans holds throughout.
LEMMA DialogsStay == Spec => []DialogIInv
BY DialogStarts, DialogIsKept, PTL DEF Spec

-----------------------------------------------------------------------------
(* SbomDialog.                                                             *)

\* The types of the dialog; where no dialog is, the words for none stand too.
SbomImages == Images \cup {"none"}
SbomFormats == Formats \cup {"none", "spdx-json"}
SbomStatus == {"unknown", "generating"} \cup Sboms!Terminal
SbomIds == 1 .. MaxJobs
SbomJobRecord == [image : SbomImages, format : SbomFormats, known : BOOLEAN, status : SbomStatus]
AskRecord == [key : 0 .. MaxOpenings, image : SbomImages, format : SbomFormats,
              job : 0 .. MaxJobs, answer : {"none", "job", "blocked", "error"}]
DownloadRecord == [key : 0 .. MaxOpenings, job : SbomIds, kind : {"view", "export"}]
SbomRecord == [key : 0 .. MaxOpenings, image : SbomImages, format : SbomFormats,
               jobId : 0 .. MaxJobs, started : BOOLEAN, downloading : BOOLEAN,
               data : 0 .. MaxJobs, blocked : BOOLEAN, changed : BOOLEAN]

SbomTyped ==
    /\ sbomJobs \in Seq(SbomJobRecord)
    /\ sbomAsked \subseteq AskRecord
    /\ downloads \subseteq DownloadRecord
    /\ sbomOpenings \in 0 .. MaxOpenings
    /\ dialog \in SbomRecord
    /\ sbomJob \in [SbomIds -> SbomStatus]
    /\ activeSBOMJobIds \subseteq SbomIds
    /\ announced \in [SbomIds -> 0 .. 1]

\* A request under way is of a dialog there has been, and of what that dialog
\* still shows; it is under way only before the dialog has a job.
AskInv(r) ==
    /\ r.key # 0 /\ r.key <= sbomOpenings
    /\ r.key = dialog.key => /\ r.image = dialog.image
                             /\ r.format = dialog.format \/ dialog.changed
                             /\ dialog.jobId = 0
    /\ r.answer = "job" => /\ r.job \in DOMAIN sbomJobs
                           /\ sbomJobs[r.job].image = r.image
                           /\ sbomJobs[r.job].format = r.format

\* A dialog asks once at a time.
OneAsk == \A r, q \in sbomAsked : r.key = q.key => r = q

\* The dialog shows its own job, and the document of it only once complete.
ShownInv ==
    /\ dialog.key <= sbomOpenings
    /\ dialog.key = 0 => dialog.jobId = 0
    /\ dialog.started => dialog.jobId # 0
    /\ dialog.jobId # 0 => dialog.started
    /\ dialog.jobId # 0 => /\ dialog.jobId \in DOMAIN sbomJobs
                           /\ sbomJobs[dialog.jobId].image = dialog.image
                           /\ sbomJobs[dialog.jobId].format = dialog.format \/ dialog.changed
    /\ dialog.data # 0 => dialog.data = dialog.jobId /\ sbomJob[dialog.jobId] = "complete"

\* A document is fetched for the dialog's own job, once that is complete.
DownInv(d) ==
    /\ d.key # 0 /\ d.key <= sbomOpenings
    /\ d.key = dialog.key /\ d.kind = "view" =>
          d.job = dialog.jobId /\ sbomJob[dialog.jobId] = "complete"

\* What was announced is over, and is not polled again.
AnnouncedInv == \A id \in SbomIds : announced[id] # 0 => sbomJob[id] \in Sboms!Terminal

SbomIInv ==
    /\ SbomTyped
    /\ \A r \in sbomAsked : AskInv(r)
    /\ OneAsk
    /\ ShownInv
    /\ \A d \in downloads : DownInv(d)
    /\ AnnouncedInv

\* The pages run the dialog of SBOMs by its own steps.
LEMMA SbomRun == [Next]_vars => [Sboms!SbomNext]_sbomVars
<1>1. CASE Next
  BY <1>1 DEF Next
<1>2. CASE UNCHANGED vars
  BY <1>2 DEF vars
<1> QED  BY <1>1, <1>2

\* The invariant says what the dialog shows.
LEMMA SbomOwns == SbomIInv => Sboms!DocumentIsOfThisImage
<1> SUFFICES ASSUME SbomIInv PROVE Sboms!DocumentIsOfThisImage
  OBVIOUS
<1>1. ShownInv /\ SbomTyped  BY DEF SbomIInv
<1>2. dialog.jobId # 0 => sbomJobs[dialog.jobId].image = dialog.image  BY <1>1 DEF ShownInv
<1>3. dialog.data # 0 => /\ dialog.data = dialog.jobId
                         /\ sbomJobs[dialog.data].format = dialog.format \/ dialog.changed
  <2>1. ASSUME dialog.data # 0
        PROVE  dialog.data = dialog.jobId /\ dialog.jobId # 0
    BY <1>1, <2>1 DEF ShownInv
  <2> QED  BY <1>1, <2>1 DEF ShownInv
<1>4. \A id \in 1 .. MaxJobs : announced[id] <= 1
  <2>1. announced \in [1 .. MaxJobs -> 0 .. 1]  BY <1>1 DEF SbomTyped, SbomIds
  <2> QED  BY <2>1
<1> QED
  BY <1>2, <1>3, <1>4 DEF Sboms!DocumentIsOfThisImage, Sboms!None, Sboms!ComponentsAreFound,
     Sboms!Ids

\* The record of no dialog.
LEMMA NoSbomDialog ==
    /\ Sboms!NoDialog \in SbomRecord
    /\ Sboms!NoDialog.key = 0 /\ Sboms!NoDialog.jobId = 0 /\ Sboms!NoDialog.data = 0
    /\ ~Sboms!NoDialog.started
<1>1. 0 \in 0 .. MaxJobs /\ 0 \in 0 .. MaxOpenings  BY BoundsAssumption
<1>2. Sboms!NoDialog = [key |-> 0, image |-> "none", format |-> "none", jobId |-> 0,
                        started |-> FALSE, downloading |-> FALSE, data |-> 0,
                        blocked |-> FALSE, changed |-> FALSE]
  BY DEF Sboms!NoDialog, Sboms!None
<1> QED  BY <1>1, <1>2 DEF SbomRecord, SbomImages, SbomFormats

\* No dialog is open at first.
LEMMA SbomStarts == Init => SbomIInv
<1> SUFFICES ASSUME Sboms!SbomInit PROVE SbomIInv
  BY DEF Init
<1>1. /\ sbomJobs = << >> /\ sbomAsked = {} /\ downloads = {} /\ sbomOpenings = 0
      /\ dialog = Sboms!NoDialog
      /\ sbomJob = [j \in SbomIds |-> "unknown"] /\ activeSBOMJobIds = {}
      /\ announced = [j \in SbomIds |-> 0]
  BY DEF Sboms!SbomInit, Sboms!Ids, SbomIds
<1>2. sbomJobs \in Seq(SbomJobRecord)
  <2>1. sbomJobs = << >>  BY <1>1
  <2> QED  BY <2>1
<1>3. sbomJob \in [SbomIds -> SbomStatus] /\ announced \in [SbomIds -> 0 .. 1]
  BY <1>1 DEF SbomStatus
<1>4. sbomOpenings \in 0 .. MaxOpenings  BY <1>1, BoundsAssumption
<1>5. dialog \in SbomRecord /\ dialog.key = 0 /\ dialog.jobId = 0 /\ dialog.data = 0
  BY <1>1, NoSbomDialog
<1>6. ~dialog.started  BY <1>1, NoSbomDialog
<1>7. SbomTyped  BY <1>1, <1>2, <1>3, <1>4, <1>5 DEF SbomTyped
<1>8. ShownInv  BY <1>1, <1>5, <1>6 DEF ShownInv
<1>9. AnnouncedInv  BY <1>1 DEF AnnouncedInv
<1> QED  BY <1>1, <1>7, <1>8, <1>9 DEF SbomIInv, OneAsk

\* What was asked stays true of a dialog that shows the same image and no
\* other job, and another format only if it is marked as changed.
LEMMA AsksStay ==
  ASSUME SbomIInv, sbomAsked' \subseteq sbomAsked, UNCHANGED <<sbomJobs, sbomOpenings>>,
         dialog'.key = dialog.key, dialog'.image = dialog.image,
         (\A r \in sbomAsked' : r.key # dialog.key) \/ dialog'.jobId = dialog.jobId,
         (dialog'.format = dialog.format /\ (dialog.changed => dialog'.changed))
            \/ dialog'.changed \/ \A r \in sbomAsked' : r.key # dialog.key
  PROVE  (\A r \in sbomAsked' : AskInv(r)') /\ OneAsk' /\ sbomAsked' \subseteq AskRecord
<1>1. SbomTyped /\ (\A r \in sbomAsked : AskInv(r)) /\ OneAsk  BY DEF SbomIInv
<1>2. ASSUME NEW r \in sbomAsked' PROVE AskInv(r)'
  <2>1. AskInv(r)  BY <1>1
  <2>2. r.key # 0 /\ r.key <= sbomOpenings'  BY <2>1 DEF AskInv
  <2>3. r.answer = "job" => /\ r.job \in DOMAIN sbomJobs'
                            /\ sbomJobs'[r.job].image = r.image
                            /\ sbomJobs'[r.job].format = r.format
    BY <2>1 DEF AskInv
  <2>4. ASSUME r.key = dialog'.key
        PROVE  /\ r.image = dialog'.image
               /\ r.format = dialog'.format \/ dialog'.changed
               /\ dialog'.jobId = 0
    <3>1. r.image = dialog.image /\ dialog.jobId = 0 /\ (r.format = dialog.format \/ dialog.changed)
      BY <2>1, <2>4 DEF AskInv
    <3>2. dialog'.jobId = 0  BY <2>4, <3>1
    <3>3. r.format = dialog'.format \/ dialog'.changed  BY <2>4, <3>1
    <3> QED  BY <3>1, <3>2, <3>3
  <2> QED  BY <2>2, <2>3, <2>4 DEF AskInv
<1>3. OneAsk'  BY <1>1 DEF OneAsk
<1> QED  BY <1>1, <1>2, <1>3 DEF SbomTyped

\* Nothing but an export is fetched in addition.
LEMMA DownloadsStay ==
  ASSUME SbomIInv, UNCHANGED <<sbomJob, sbomOpenings>>, dialog'.key = dialog.key,
         \A d \in downloads' : d \in downloads \/ (/\ d \in DownloadRecord /\ d.kind = "export"
                                                   /\ d.key = dialog.key /\ d.key # 0),
         (\A d \in downloads : d.key = dialog.key => d.kind # "view")
            \/ dialog'.jobId = dialog.jobId
  PROVE  (\A d \in downloads' : DownInv(d)') /\ downloads' \subseteq DownloadRecord
<1>1. SbomTyped /\ (\A d \in downloads : DownInv(d)) /\ ShownInv  BY DEF SbomIInv
<1>2. downloads' \subseteq DownloadRecord  BY <1>1 DEF SbomTyped
<1>3. ASSUME NEW d \in downloads' PROVE DownInv(d)'
  <2>1. CASE d \in downloads
    <3>1. DownInv(d)  BY <1>1, <2>1
    <3> QED  BY <2>1, <3>1 DEF DownInv
  <2>2. CASE d.kind = "export" /\ d.key = dialog.key /\ d.key # 0
    <3>1. d.key <= sbomOpenings'  BY <1>1, <2>2 DEF ShownInv
    <3> QED  BY <2>2, <3>1 DEF DownInv
  <2> QED  BY <2>1, <2>2
<1> QED  BY <1>2, <1>3

\* The view download of a dialog that has no job, or whose job failed, is not.
LEMMA NoViewYet ==
  ASSUME SbomIInv, dialog.jobId = 0 \/ sbomJob[dialog.jobId] # "complete"
  PROVE  /\ \A d \in downloads : d.key = dialog.key => d.kind # "view"
         /\ dialog.data = 0
<1>1. SbomTyped /\ (\A d \in downloads : DownInv(d)) /\ ShownInv  BY DEF SbomIInv
<1>2. ASSUME NEW d \in downloads, d.key = dialog.key, d.kind = "view" PROVE FALSE
  <2>1. d.job = dialog.jobId /\ sbomJob[dialog.jobId] = "complete"  BY <1>1, <1>2 DEF DownInv
  <2>2. d.job \in 1 .. MaxJobs
    <3>1. d \in DownloadRecord  BY <1>1 DEF SbomTyped
    <3> QED  BY <3>1 DEF DownloadRecord, SbomIds
  <2> QED  BY <2>1, <2>2
<1>3. dialog.data = 0
  <2> SUFFICES ASSUME dialog.data # 0 PROVE FALSE
    OBVIOUS
  <2>1. dialog.data = dialog.jobId /\ sbomJob[dialog.jobId] = "complete"  BY <1>1 DEF ShownInv
  <2> QED  BY <2>1
<1> QED  BY <1>2, <1>3

\* A dialog opens: it is of a key nothing under way has.
LEMMA OpenDialogKeeps ==
  ASSUME SbomIInv, NEW i \in Images, Sboms!OpenDialog(i) PROVE SbomIInv'
<1>1. SbomTyped /\ (\A r \in sbomAsked : AskInv(r)) /\ OneAsk
      /\ (\A d \in downloads : DownInv(d)) /\ AnnouncedInv
  BY DEF SbomIInv
<1>2. /\ sbomOpenings < MaxOpenings /\ sbomOpenings' = sbomOpenings + 1
      /\ dialog' = [Sboms!NoDialog EXCEPT !.key = sbomOpenings + 1, !.image = i,
                                          !.format = "spdx-json"]
      /\ UNCHANGED <<sbomJobs, sbomAsked, downloads, sbomJob, activeSBOMJobIds, announced>>
  BY DEF Sboms!OpenDialog
<1>3. sbomOpenings \in 0 .. MaxOpenings /\ sbomAsked \subseteq AskRecord
      /\ downloads \subseteq DownloadRecord
  BY <1>1 DEF SbomTyped
<1>4. sbomOpenings' \in 0 .. MaxOpenings /\ sbomOpenings < sbomOpenings'
  BY <1>2, <1>3, BoundsAssumption
<1>5. /\ dialog' \in SbomRecord /\ dialog'.key = sbomOpenings' /\ dialog'.jobId = 0
      /\ dialog'.data = 0
  BY <1>2, <1>4, NoSbomDialog DEF SbomRecord, SbomImages, SbomFormats
<1>6. ~dialog'.started  BY <1>2, <1>4, NoSbomDialog DEF SbomRecord
<1>7. SbomTyped'  BY <1>1, <1>2, <1>4, <1>5 DEF SbomTyped
<1>8. ASSUME NEW r \in sbomAsked PROVE AskInv(r)'
  <2>1. AskInv(r)  BY <1>1
  <2>2. r.key \in 0 .. MaxOpenings  BY <1>3 DEF AskRecord
  <2>3. r.key <= sbomOpenings' /\ r.key # dialog'.key
    BY <1>3, <1>4, <1>5, <2>1, <2>2 DEF AskInv
  <2> QED  BY <1>2, <2>1, <2>3 DEF AskInv
<1>9. ASSUME NEW d \in downloads PROVE DownInv(d)'
  <2>1. DownInv(d)  BY <1>1
  <2>2. d.key \in 0 .. MaxOpenings  BY <1>3 DEF DownloadRecord
  <2>3. d.key <= sbomOpenings' /\ d.key # dialog'.key
    BY <1>3, <1>4, <1>5, <2>1, <2>2 DEF DownInv
  <2> QED  BY <1>2, <2>1, <2>3 DEF DownInv
<1>10. ShownInv'  BY <1>4, <1>5, <1>6 DEF ShownInv
<1>11. OneAsk' /\ AnnouncedInv'  BY <1>1, <1>2 DEF OneAsk, AnnouncedInv
<1> QED  BY <1>2, <1>7, <1>8, <1>9, <1>10, <1>11 DEF SbomIInv

\* The dialog is closed.
LEMMA CloseDialogKeeps ==
  ASSUME SbomIInv, Sboms!CloseDialog PROVE SbomIInv'
<1>1. SbomTyped /\ (\A r \in sbomAsked : AskInv(r)) /\ OneAsk
      /\ (\A d \in downloads : DownInv(d)) /\ AnnouncedInv
  BY DEF SbomIInv
<1>2. /\ dialog' = Sboms!NoDialog
      /\ UNCHANGED <<sbomJobs, sbomAsked, downloads, sbomOpenings, sbomJob, activeSBOMJobIds,
                     announced>>
  BY DEF Sboms!CloseDialog
<1>3. dialog' \in SbomRecord /\ dialog'.key = 0 /\ dialog'.jobId = 0 /\ dialog'.data = 0
  BY <1>2, NoSbomDialog
<1>4. ~dialog'.started  BY <1>2, NoSbomDialog
<1>5. SbomTyped'  BY <1>1, <1>2, <1>3 DEF SbomTyped
<1>6. \A r \in sbomAsked : AskInv(r)'  BY <1>1, <1>2, <1>3 DEF AskInv
<1>7. \A d \in downloads : DownInv(d)'  BY <1>1, <1>2, <1>3 DEF DownInv
<1>8. ShownInv'
  <2>1. 0 <= sbomOpenings  BY <1>1 DEF SbomTyped
  <2>2. sbomOpenings' = sbomOpenings  BY <1>2
  <2> QED  BY <1>3, <1>4, <2>1, <2>2 DEF ShownInv
<1>9. OneAsk' /\ AnnouncedInv'  BY <1>1, <1>2 DEF OneAsk, AnnouncedInv
<1> QED  BY <1>2, <1>5, <1>6, <1>7, <1>8, <1>9 DEF SbomIInv

\* A step that leaves the server, the answers and the list alone.
LEMMA DialogStepKeeps ==
  ASSUME SbomIInv, UNCHANGED <<sbomJobs, sbomOpenings, sbomJob, announced>>,
         activeSBOMJobIds' \subseteq SbomIds, dialog' \in SbomRecord, ShownInv',
         (\A r \in sbomAsked' : AskInv(r)') /\ OneAsk' /\ sbomAsked' \subseteq AskRecord,
         (\A d \in downloads' : DownInv(d)') /\ downloads' \subseteq DownloadRecord
  PROVE  SbomIInv'
<1>1. SbomTyped /\ AnnouncedInv  BY DEF SbomIInv
<1>2. SbomTyped'  BY <1>1 DEF SbomTyped
<1>3. AnnouncedInv'  BY <1>1 DEF AnnouncedInv
<1> QED  BY <1>2, <1>3 DEF SbomIInv

\* Choosing a format is offered before a job is started.
LEMMA ChoosingHasNotStarted ==
  ASSUME SbomIInv, Sboms!Panel = "choose" PROVE ~dialog.started
<1> SUFFICES ASSUME dialog.started PROVE FALSE
  OBVIOUS
<1>1. SbomTyped /\ dialog.jobId # 0 /\ dialog \in SbomRecord
  BY DEF SbomIInv, SbomTyped, ShownInv
<1>2. dialog.jobId \in SbomIds  BY <1>1 DEF SbomRecord, SbomIds
<1>3. sbomJob[dialog.jobId] \in SbomStatus  BY <1>1, <1>2 DEF SbomTyped
<1>4. Sboms!Status # "choose"
  BY <1>1, <1>3 DEF Sboms!Status, Sboms!None, SbomStatus, Sboms!Terminal
<1> QED  BY <1>4 DEF Sboms!Panel

\* A format is selected, also while the server is asked.
LEMMA SelectFormatKeeps ==
  ASSUME SbomIInv, NEW f \in Formats, Sboms!SelectFormat(f) PROVE SbomIInv'
<1>1. SbomTyped /\ ShownInv /\ OneAsk /\ dialog \in SbomRecord  BY DEF SbomIInv, SbomTyped
<1> DEFINE c == dialog.changed \/ Sboms!Pending
<1>2. /\ dialog' = [dialog EXCEPT !.format = f, !.changed = c]
      /\ UNCHANGED <<sbomJobs, sbomAsked, downloads, sbomOpenings, sbomJob, activeSBOMJobIds,
                     announced>>
  BY DEF Sboms!SelectFormat
<1>3. ~dialog.started  BY ChoosingHasNotStarted DEF Sboms!SelectFormat
<1>4. c \in BOOLEAN  OBVIOUS
<1>5. c \/ \A r \in sbomAsked : r.key # dialog.key
  BY DEF Sboms!Pending
<1> HIDE DEF c
<1>6. /\ dialog' \in SbomRecord
      /\ dialog'.key = dialog.key /\ dialog'.image = dialog.image
      /\ dialog'.jobId = dialog.jobId /\ dialog'.data = dialog.data
  BY <1>1, <1>2, <1>4 DEF SbomRecord, SbomFormats
<1>7. dialog'.started = dialog.started
  BY <1>1, <1>2 DEF SbomRecord
<1>8. dialog'.changed = c
  BY <1>1, <1>2 DEF SbomRecord
<1>9. dialog'.changed \/ \A r \in sbomAsked' : r.key # dialog.key
  BY <1>2, <1>5, <1>8
<1>10. (\A r \in sbomAsked' : AskInv(r)') /\ OneAsk' /\ sbomAsked' \subseteq AskRecord
  <2>1. sbomAsked' \subseteq sbomAsked /\ UNCHANGED <<sbomJobs, sbomOpenings>>  BY <1>2
  <2> QED  BY <1>6, <1>9, <2>1, AsksStay
<1>11. (\A d \in downloads' : DownInv(d)') /\ downloads' \subseteq DownloadRecord
  BY <1>2, <1>6, DownloadsStay
<1>12. dialog.jobId = 0 /\ dialog.data = 0
  <2>1. dialog.jobId = 0  BY <1>1, <1>3 DEF ShownInv
  <2> QED  BY <2>1, NoViewYet
<1>13. ShownInv'
  <2>1. dialog'.key <= sbomOpenings'  BY <1>1, <1>2, <1>6 DEF ShownInv
  <2>2. ~dialog'.started  BY <1>3, <1>7
  <2> QED  BY <1>6, <1>12, <2>1, <2>2 DEF ShownInv
<1>14. activeSBOMJobIds' \subseteq SbomIds  BY <1>1, <1>2 DEF SbomTyped
<1> QED  BY <1>2, <1>6, <1>10, <1>11, <1>13, <1>14, DialogStepKeeps

\* A document is asked for.
LEMMA GenerateKeeps ==
  ASSUME SbomIInv, Sboms!Generate PROVE SbomIInv'
<1>1. /\ SbomTyped /\ ShownInv /\ OneAsk /\ (\A r \in sbomAsked : AskInv(r))
      /\ dialog \in SbomRecord
  BY DEF SbomIInv, SbomTyped
<1> DEFINE new == [key |-> dialog.key, image |-> dialog.image, job |-> 0,
                   format |-> dialog.format, answer |-> "none"]
<1>2. /\ dialog.key # 0
      /\ \A r \in sbomAsked : r.key # dialog.key
      /\ dialog' = [dialog EXCEPT !.changed = FALSE]
      /\ sbomAsked' = sbomAsked \cup {new}
      /\ UNCHANGED <<sbomJobs, downloads, sbomOpenings, sbomJob, activeSBOMJobIds, announced>>
  BY DEF Sboms!Generate, Sboms!Open, Sboms!Pending, Sboms!None
<1>3. ~dialog.started  BY ChoosingHasNotStarted DEF Sboms!Generate
<1>4. dialog.jobId = 0 /\ dialog.data = 0
  <2>1. dialog.jobId = 0  BY <1>1, <1>3 DEF ShownInv
  <2> QED  BY <2>1, NoViewYet
<1>5. /\ dialog' \in SbomRecord
      /\ dialog'.key = dialog.key /\ dialog'.image = dialog.image
      /\ dialog'.format = dialog.format
      /\ dialog'.jobId = dialog.jobId /\ dialog'.data = dialog.data
  BY <1>1, <1>2 DEF SbomRecord
<1>6. ~dialog'.started
  <2>1. dialog'.started = dialog.started  BY <1>1, <1>2 DEF SbomRecord
  <2> QED  BY <1>3, <2>1
<1>7. dialog.key <= sbomOpenings  BY <1>1 DEF ShownInv
<1>8. new \in AskRecord
  <2>1. 0 \in 0 .. MaxJobs  BY BoundsAssumption
  <2>2. dialog.key \in 0 .. MaxOpenings /\ dialog.image \in SbomImages
        /\ dialog.format \in SbomFormats
    BY <1>1 DEF SbomRecord
  <2> QED  BY <2>1, <2>2 DEF AskRecord
<1>9. /\ new.key = dialog.key /\ new.image = dialog.image /\ new.format = dialog.format
      /\ new.answer = "none"
  OBVIOUS
<1> HIDE DEF new
<1>10. ASSUME NEW q, q = new PROVE AskInv(q)'
  BY <1>2, <1>4, <1>5, <1>7, <1>9, <1>10 DEF AskInv
<1>11. \A r \in sbomAsked : AskInv(r)'  BY <1>1, <1>2, <1>5 DEF AskInv
<1>12. OneAsk'  BY <1>1, <1>2, <1>9 DEF OneAsk
<1>13. (\A r \in sbomAsked' : AskInv(r)') /\ OneAsk' /\ sbomAsked' \subseteq AskRecord
  BY <1>1, <1>2, <1>8, <1>10, <1>11, <1>12 DEF SbomTyped
<1>14. (\A d \in downloads' : DownInv(d)') /\ downloads' \subseteq DownloadRecord
  BY <1>2, <1>5, DownloadsStay
<1>15. ShownInv'  BY <1>2, <1>4, <1>5, <1>6, <1>7 DEF ShownInv
<1>16. activeSBOMJobIds' \subseteq SbomIds  BY <1>1, <1>2 DEF SbomTyped
<1> QED  BY <1>2, <1>5, <1>13, <1>14, <1>15, <1>16, DialogStepKeeps

\* The dialog of a failed job goes back to its start.
LEMMA RetryKeeps ==
  ASSUME SbomIInv, Sboms!Retry PROVE SbomIInv'
<1>1. SbomTyped /\ ShownInv /\ (\A r \in sbomAsked : AskInv(r)) /\ dialog \in SbomRecord
  BY DEF SbomIInv, SbomTyped
<1>2. /\ dialog' = [dialog EXCEPT !.started = FALSE, !.jobId = 0]
      /\ UNCHANGED <<sbomJobs, sbomAsked, downloads, sbomOpenings, sbomJob, activeSBOMJobIds,
                     announced>>
  BY DEF Sboms!Retry, Sboms!None
<1>3. Sboms!Panel = "failed"  BY DEF Sboms!Retry
<1>4. dialog.started /\ Sboms!Status = "failed"  BY <1>3 DEF Sboms!Panel
<1>5. dialog.jobId # 0 /\ sbomJob[dialog.jobId] = "failed"
  BY <1>4 DEF Sboms!Status, Sboms!None
<1>6. (\A d \in downloads : d.key = dialog.key => d.kind # "view") /\ dialog.data = 0
  BY <1>5, NoViewYet
<1>7. \A r \in sbomAsked : r.key # dialog.key  BY <1>1, <1>5 DEF AskInv
<1>8. /\ dialog' \in SbomRecord
      /\ dialog'.key = dialog.key /\ dialog'.image = dialog.image
      /\ dialog'.format = dialog.format
      /\ dialog'.jobId = 0 /\ dialog'.data = 0
  <2>1. 0 \in 0 .. MaxJobs  BY BoundsAssumption
  <2> QED  BY <1>1, <1>2, <1>6, <2>1 DEF SbomRecord
<1>9. ~dialog'.started  BY <1>1, <1>2 DEF SbomRecord
<1>10. (\A r \in sbomAsked' : AskInv(r)') /\ OneAsk' /\ sbomAsked' \subseteq AskRecord
  <2>1. \A r \in sbomAsked' : r.key # dialog.key  BY <1>2, <1>7
  <2> QED  BY <1>2, <1>8, <2>1, AsksStay
<1>11. (\A d \in downloads' : DownInv(d)') /\ downloads' \subseteq DownloadRecord
  BY <1>2, <1>6, <1>8, DownloadsStay
<1>12. ShownInv'
  <2>1. dialog'.key <= sbomOpenings'  BY <1>1, <1>2, <1>8 DEF ShownInv
  <2> QED  BY <1>8, <1>9, <2>1 DEF ShownInv
<1>13. activeSBOMJobIds' \subseteq SbomIds  BY <1>1, <1>2 DEF SbomTyped
<1> QED  BY <1>2, <1>8, <1>10, <1>11, <1>12, <1>13, DialogStepKeeps

\* The document is exported.
LEMMA ExportKeeps ==
  ASSUME SbomIInv, Sboms!Export PROVE SbomIInv'
<1>1. SbomTyped /\ ShownInv /\ dialog \in SbomRecord  BY DEF SbomIInv, SbomTyped
<1> DEFINE new == [key |-> dialog.key, job |-> dialog.jobId, kind |-> "export"]
<1>2. /\ dialog.key # 0
      /\ dialog' = [dialog EXCEPT !.downloading = TRUE]
      /\ downloads' = downloads \cup {new}
      /\ UNCHANGED <<sbomJobs, sbomAsked, sbomOpenings, sbomJob, activeSBOMJobIds, announced>>
  BY DEF Sboms!Export, Sboms!Open, Sboms!None
<1>3. Sboms!Panel = "complete"  BY DEF Sboms!Export
<1>4. dialog.started  BY <1>3 DEF Sboms!Panel
<1>5. dialog.jobId # 0  BY <1>1, <1>4 DEF ShownInv
<1>6. new \in DownloadRecord
  <2>1. dialog.key \in 0 .. MaxOpenings /\ dialog.jobId \in 1 .. MaxJobs
    BY <1>1, <1>5 DEF SbomRecord
  <2> QED  BY <2>1 DEF DownloadRecord, SbomIds
<1>7. new.kind = "export" /\ new.key = dialog.key  OBVIOUS
<1> HIDE DEF new
<1>8. /\ dialog' \in SbomRecord
      /\ dialog'.key = dialog.key /\ dialog'.image = dialog.image
      /\ dialog'.format = dialog.format
      /\ dialog'.jobId = dialog.jobId /\ dialog'.data = dialog.data
  BY <1>1, <1>2 DEF SbomRecord
<1>9. dialog'.started = dialog.started  BY <1>1, <1>2 DEF SbomRecord
<1>10. dialog'.changed = dialog.changed  BY <1>1, <1>2 DEF SbomRecord
<1>11. (\A r \in sbomAsked' : AskInv(r)') /\ OneAsk' /\ sbomAsked' \subseteq AskRecord
  BY <1>2, <1>8, <1>10, AsksStay
<1>12. (\A d \in downloads' : DownInv(d)') /\ downloads' \subseteq DownloadRecord
  BY <1>2, <1>6, <1>7, <1>8, DownloadsStay
<1>13. ShownInv'  BY <1>1, <1>2, <1>8, <1>9, <1>10 DEF ShownInv
<1>14. activeSBOMJobIds' \subseteq SbomIds  BY <1>1, <1>2 DEF SbomTyped
<1> QED  BY <1>2, <1>8, <1>11, <1>12, <1>13, <1>14, DialogStepKeeps

\* A request resumes, its dialog being there or gone.
LEMMA GeneratedKeeps ==
  ASSUME SbomIInv, NEW r \in sbomAsked, Sboms!Generated(r) PROVE SbomIInv'
<1>1. /\ SbomTyped /\ ShownInv /\ OneAsk /\ AskInv(r)
      /\ dialog \in SbomRecord /\ r \in AskRecord
  BY DEF SbomIInv, SbomTyped
<1>2. /\ sbomAsked' = sbomAsked \ {r}
      /\ activeSBOMJobIds' = IF r.answer = "job" THEN activeSBOMJobIds \cup {r.job}
                             ELSE activeSBOMJobIds
      /\ UNCHANGED <<sbomJobs, downloads, sbomOpenings, sbomJob, announced>>
  BY DEF Sboms!Generated
<1> DEFINE id == IF r.answer = "job" THEN r.job ELSE dialog.jobId
           s == dialog.started \/ r.answer = "job"
           b == dialog.blocked \/ r.answer = "blocked"
<1>3. IF r.key # dialog.key THEN dialog' = dialog
      ELSE dialog' = [dialog EXCEPT !.jobId = id, !.started = s, !.blocked = b]
  BY DEF Sboms!Generated
<1>4. r.job \in 0 .. MaxJobs /\ dialog.jobId \in 0 .. MaxJobs  BY <1>1 DEF AskRecord, SbomRecord
<1>5. 0 \notin DOMAIN sbomJobs
  <2>1. sbomJobs \in Seq(SbomJobRecord)  BY <1>1 DEF SbomTyped
  <2> QED  BY <2>1
<1>6. r.answer = "job" => r.job \in DOMAIN sbomJobs /\ r.job \in SbomIds
  <2>1. r.answer = "job" => r.job \in DOMAIN sbomJobs  BY <1>1 DEF AskInv
  <2> QED  BY <1>4, <1>5, <2>1 DEF SbomIds
<1>7. activeSBOMJobIds' \subseteq SbomIds  BY <1>1, <1>2, <1>6 DEF SbomTyped
<1>8. sbomAsked' \subseteq sbomAsked  BY <1>2
<1>9. CASE r.key # dialog.key
  <2>1. dialog' = dialog  BY <1>3, <1>9
  <2>2. (\A q \in sbomAsked' : AskInv(q)') /\ OneAsk' /\ sbomAsked' \subseteq AskRecord
    BY <1>2, <1>8, <2>1, AsksStay
  <2>3. (\A d \in downloads' : DownInv(d)') /\ downloads' \subseteq DownloadRecord
    BY <1>2, <2>1, DownloadsStay
  <2>4. ShownInv'  BY <1>1, <1>2, <2>1 DEF ShownInv
  <2> QED  BY <1>1, <1>2, <1>7, <2>1, <2>2, <2>3, <2>4, DialogStepKeeps
<1>10. CASE r.key = dialog.key
  <2>1. dialog' = [dialog EXCEPT !.jobId = id, !.started = s, !.blocked = b]
    BY <1>3, <1>10
  <2>2. id \in 0 .. MaxJobs  BY <1>4
  <2>3. s \in BOOLEAN /\ b \in BOOLEAN  OBVIOUS
  <2>4. /\ dialog.jobId = 0
        /\ r.image = dialog.image
        /\ r.format = dialog.format \/ dialog.changed
    BY <1>1, <1>10 DEF AskInv
  <2>5. ~dialog.started  BY <1>1, <2>4 DEF ShownInv
  <2>6. id # 0 => r.answer = "job" /\ id = r.job  BY <2>4
  <2>7. s => r.answer = "job"  BY <2>5
  <2>8. r.answer = "job" => s /\ id # 0  BY <1>5, <1>6
  <2> HIDE DEF id, s, b
  <2>9. /\ dialog' \in SbomRecord
        /\ dialog'.key = dialog.key /\ dialog'.image = dialog.image
        /\ dialog'.format = dialog.format /\ dialog'.jobId = id /\ dialog'.data = dialog.data
    BY <1>1, <2>1, <2>2, <2>3 DEF SbomRecord
  <2>10. dialog'.started = s  BY <1>1, <2>1 DEF SbomRecord
  <2>11. dialog'.changed = dialog.changed  BY <1>1, <2>1 DEF SbomRecord
  <2>12. (\A d \in downloads : d.key = dialog.key => d.kind # "view") /\ dialog.data = 0
    BY <2>4, NoViewYet
  <2>13. (\A q \in sbomAsked' : AskInv(q)') /\ OneAsk' /\ sbomAsked' \subseteq AskRecord
    <3>1. \A q \in sbomAsked' : q.key # dialog.key  BY <1>1, <1>2, <1>10 DEF OneAsk
    <3> QED  BY <1>2, <1>8, <2>9, <2>11, <3>1, AsksStay
  <2>14. (\A d \in downloads' : DownInv(d)') /\ downloads' \subseteq DownloadRecord
    BY <1>2, <2>9, <2>12, DownloadsStay
  <2>15. ShownInv'
    <3>1. dialog'.key <= sbomOpenings' /\ dialog'.key # 0
      BY <1>1, <1>2, <1>10, <2>9 DEF ShownInv, AskInv
    <3>2. (dialog'.started => dialog'.jobId # 0) /\ (dialog'.jobId # 0 => dialog'.started)
      BY <2>6, <2>7, <2>8, <2>9, <2>10
    <3>3. ASSUME dialog'.jobId # 0
          PROVE  /\ dialog'.jobId \in DOMAIN sbomJobs'
                 /\ sbomJobs'[dialog'.jobId].image = dialog'.image
                 /\ sbomJobs'[dialog'.jobId].format = dialog'.format \/ dialog'.changed
      <4>1. r.answer = "job" /\ dialog'.jobId = r.job  BY <2>6, <2>9, <3>3
      <4>2. /\ r.job \in DOMAIN sbomJobs
            /\ sbomJobs[r.job].image = r.image /\ sbomJobs[r.job].format = r.format
        BY <1>1, <4>1 DEF AskInv
      <4> QED  BY <1>2, <2>4, <2>9, <2>11, <4>1, <4>2
    <3>4. dialog'.data = 0  BY <2>9, <2>12
    <3> QED  BY <3>1, <3>2, <3>3, <3>4 DEF ShownInv
  <2> QED  BY <1>2, <1>7, <2>9, <2>13, <2>14, <2>15, DialogStepKeeps
<1> QED  BY <1>9, <1>10

\* A download answers, its dialog being there or gone.
LEMMA DownloadedKeeps ==
  ASSUME SbomIInv, NEW d \in downloads, Sboms!Downloaded(d) PROVE SbomIInv'
<1>1. /\ SbomTyped /\ ShownInv /\ DownInv(d)
      /\ dialog \in SbomRecord /\ d \in DownloadRecord
  BY DEF SbomIInv, SbomTyped
<1>2. /\ downloads' = downloads \ {d}
      /\ UNCHANGED <<sbomJobs, sbomAsked, sbomOpenings, sbomJob, activeSBOMJobIds, announced>>
  BY DEF Sboms!Downloaded
<1>3. \/ dialog' = dialog
      \/ dialog' = [dialog EXCEPT !.downloading = FALSE]
      \/ /\ d.key = dialog.key /\ d.kind = "view"
         /\ dialog' = [dialog EXCEPT !.data = d.job]
  BY DEF Sboms!Downloaded
<1>4. /\ dialog' \in SbomRecord
      /\ dialog'.key = dialog.key /\ dialog'.image = dialog.image
      /\ dialog'.format = dialog.format /\ dialog'.jobId = dialog.jobId
      /\ dialog'.data = dialog.data \/ (d.key = dialog.key /\ d.kind = "view" /\ dialog'.data = d.job)
  <2>1. d.job \in 0 .. MaxJobs  BY <1>1 DEF DownloadRecord, SbomIds
  <2> QED  BY <1>1, <1>3, <2>1 DEF SbomRecord
<1>5. dialog'.started = dialog.started  BY <1>1, <1>3 DEF SbomRecord
<1>6. dialog'.changed = dialog.changed  BY <1>1, <1>3 DEF SbomRecord
<1>7. (\A q \in sbomAsked' : AskInv(q)') /\ OneAsk' /\ sbomAsked' \subseteq AskRecord
  BY <1>2, <1>4, <1>6, AsksStay
<1>8. (\A e \in downloads' : DownInv(e)') /\ downloads' \subseteq DownloadRecord
  BY <1>2, <1>4, DownloadsStay
<1>9. ShownInv'
  <2>1. dialog'.data # 0 => dialog'.data = dialog.jobId /\ sbomJob[dialog.jobId] = "complete"
    BY <1>1, <1>4 DEF DownInv, ShownInv
  <2> QED  BY <1>1, <1>2, <1>4, <1>5, <1>6, <2>1 DEF ShownInv
<1>10. activeSBOMJobIds' \subseteq SbomIds  BY <1>1, <1>2 DEF SbomTyped
<1> QED  BY <1>2, <1>4, <1>7, <1>8, <1>9, <1>10, DialogStepKeeps

\* One poll of a job that is not over.
LEMMA SbomPollKeeps ==
  ASSUME SbomIInv, NEW id \in DOMAIN sbomJobs, Sboms!Poll(id) PROVE SbomIInv'
<1>1. /\ SbomTyped /\ ShownInv /\ OneAsk /\ (\A r \in sbomAsked : AskInv(r))
      /\ (\A d \in downloads : DownInv(d)) /\ AnnouncedInv
      /\ dialog \in SbomRecord /\ sbomJob \in [SbomIds -> SbomStatus]
      /\ announced \in [SbomIds -> 0 .. 1]
      /\ sbomJobs \in Seq(SbomJobRecord)
  BY DEF SbomIInv, SbomTyped
<1> DEFINE answer == sbomJobs[id].status
           over == id \in activeSBOMJobIds /\ answer \in Sboms!Terminal
           done == over /\ answer = "complete"
           new == [key |-> dialog.key, job |-> id, kind |-> "view"]
<1>2. /\ sbomJob[id] \notin Sboms!Terminal
      /\ sbomJob' = [sbomJob EXCEPT ![id] = answer]
      /\ UNCHANGED <<sbomJobs, sbomAsked, sbomOpenings, dialog>>
  BY DEF Sboms!Poll
<1>3. downloads' = IF answer = "complete" /\ dialog.jobId = id /\ dialog.data = 0
                   THEN downloads \cup {new} ELSE downloads
  BY DEF Sboms!Poll, Sboms!None
<1>4. /\ announced' = IF done THEN [announced EXCEPT ![id] = @ + 1] ELSE announced
      /\ activeSBOMJobIds' = IF over THEN activeSBOMJobIds \ {id} ELSE activeSBOMJobIds
  BY DEF Sboms!Poll
<1>5. id \in SbomIds
  <2>1. CASE id \in activeSBOMJobIds  BY <1>1, <2>1 DEF SbomTyped
  <2>2. CASE dialog.started /\ dialog.jobId = id
    <3>1. dialog.jobId # 0  BY <1>1, <2>2 DEF ShownInv
    <3>2. dialog.jobId \in 0 .. MaxJobs  BY <1>1 DEF SbomRecord
    <3> QED  BY <2>2, <3>1, <3>2 DEF SbomIds
  <2>3. id \in activeSBOMJobIds \/ (dialog.started /\ dialog.jobId = id)
    BY DEF Sboms!Poll, Sboms!Polled
  <2> QED  BY <2>1, <2>2, <2>3
<1>6. answer \in SbomStatus
  <2>1. sbomJobs[id] \in SbomJobRecord  BY <1>1
  <2> QED  BY <2>1 DEF SbomJobRecord
<1>7. done => answer \in Sboms!Terminal  OBVIOUS
<1> HIDE DEF answer, over, done
<1>8. /\ sbomJob' \in [SbomIds -> SbomStatus] /\ sbomJob'[id] = answer
      /\ \A i \in SbomIds : i # id => sbomJob'[i] = sbomJob[i]
  BY <1>1, <1>2, <1>5, <1>6
<1>9. sbomJob[id] # "complete"  BY <1>2 DEF Sboms!Terminal
<1>10. announced[id] = 0
  <2>1. announced[id] \in 0 .. 1  BY <1>1, <1>5
  <2>2. announced[id] # 0 => sbomJob[id] \in Sboms!Terminal  BY <1>1, <1>5 DEF AnnouncedInv
  <2> QED  BY <1>2, <2>2
<1>11. /\ announced' \in [SbomIds -> 0 .. 1]
       /\ done \/ announced'[id] = 0
       /\ \A i \in SbomIds : i # id => announced'[i] = announced[i]
  <2>1. CASE done
    <3>1. announced' = [announced EXCEPT ![id] = announced[id] + 1]  BY <1>4, <2>1
    <3>2. announced' = [announced EXCEPT ![id] = 1]  BY <1>10, <3>1
    <3> QED  BY <1>1, <1>5, <2>1, <3>2
  <2>2. CASE ~done
    <3>1. announced' = announced  BY <1>4, <2>2
    <3> QED  BY <1>1, <1>10, <3>1
  <2> QED  BY <2>1, <2>2
<1>12. AnnouncedInv'
  <2> SUFFICES ASSUME NEW i \in SbomIds, announced'[i] # 0
               PROVE  sbomJob'[i] \in Sboms!Terminal
    BY DEF AnnouncedInv
  <2>1. CASE i = id  BY <1>7, <1>8, <1>11, <2>1
  <2>2. CASE i # id
    <3>1. announced[i] # 0 /\ sbomJob'[i] = sbomJob[i]  BY <1>8, <1>11, <2>2
    <3> QED  BY <1>1, <3>1 DEF AnnouncedInv
  <2> QED  BY <2>1, <2>2
<1>13. dialog.jobId \in 0 .. MaxJobs  BY <1>1 DEF SbomRecord
<1>14. sbomJob[dialog.jobId] = "complete" /\ dialog.jobId # 0 => sbomJob'[dialog.jobId] = "complete"
  <2>1. ASSUME sbomJob[dialog.jobId] = "complete", dialog.jobId # 0
        PROVE  sbomJob'[dialog.jobId] = "complete"
    <3>1. dialog.jobId \in SbomIds  BY <1>13, <2>1 DEF SbomIds
    <3>2. dialog.jobId # id  BY <1>9, <2>1
    <3> QED  BY <1>8, <2>1, <3>1, <3>2
  <2> QED  BY <2>1
<1>15. ShownInv'
  <2>1. ASSUME dialog.data # 0
        PROVE  dialog.data = dialog.jobId /\ sbomJob'[dialog.jobId] = "complete"
    <3>1. dialog.data = dialog.jobId /\ sbomJob[dialog.jobId] = "complete"
      BY <1>1, <2>1 DEF ShownInv
    <3>2. dialog.jobId # 0  BY <2>1, <3>1
    <3> QED  BY <1>14, <3>1, <3>2
  <2> QED  BY <1>1, <1>2, <2>1 DEF ShownInv
<1>16. \A r \in sbomAsked' : AskInv(r)'  BY <1>1, <1>2 DEF AskInv
<1>17. ASSUME NEW d \in downloads PROVE DownInv(d)'
  <2>1. DownInv(d) /\ d \in DownloadRecord  BY <1>1 DEF SbomTyped
  <2>2. ASSUME d.key = dialog.key, d.kind = "view"
        PROVE  d.job = dialog.jobId /\ sbomJob'[dialog.jobId] = "complete"
    <3>1. d.job = dialog.jobId /\ sbomJob[dialog.jobId] = "complete"
      BY <2>1, <2>2 DEF DownInv
    <3>2. dialog.jobId # 0  BY <2>1, <3>1 DEF DownloadRecord, SbomIds
    <3> QED  BY <1>14, <3>1, <3>2
  <2> QED  BY <1>2, <2>1, <2>2 DEF DownInv
<1>18. \A d \in downloads' : d \in DownloadRecord /\ DownInv(d)'
  <2>1. \A d \in downloads : d \in DownloadRecord /\ DownInv(d)'
    BY <1>1, <1>17 DEF SbomTyped
  <2>2. CASE answer = "complete" /\ dialog.jobId = id /\ dialog.data = 0
    <3>1. downloads' = downloads \cup {new}  BY <1>3, <2>2
    <3>2. dialog.key \in 0 .. MaxOpenings  BY <1>1 DEF SbomRecord
    <3>3. new \in DownloadRecord  BY <1>5, <3>2 DEF DownloadRecord
    <3>4. id # 0  BY <1>5 DEF SbomIds
    <3>5. dialog.key # 0 /\ dialog.key <= sbomOpenings  BY <1>1, <2>2, <3>4 DEF ShownInv
    <3>6. ASSUME NEW d, d = new PROVE DownInv(d)'
      <4>1. d.key = dialog.key /\ d.job = id  BY <3>6
      <4> QED  BY <1>2, <1>8, <2>2, <3>5, <4>1 DEF DownInv
    <3> HIDE DEF new
    <3> QED  BY <2>1, <3>1, <3>3, <3>6
  <2>3. CASE ~(answer = "complete" /\ dialog.jobId = id /\ dialog.data = 0)
    <3>1. downloads' = downloads  BY <1>3, <2>3
    <3> QED  BY <2>1, <3>1
  <2> QED  BY <2>2, <2>3
<1>19. SbomTyped'
  <2>1. activeSBOMJobIds' \subseteq SbomIds  BY <1>1, <1>4 DEF SbomTyped
  <2>2. downloads' \subseteq DownloadRecord  BY <1>18
  <2> QED  BY <1>1, <1>2, <1>8, <1>11, <2>1, <2>2 DEF SbomTyped
<1>20. OneAsk'  BY <1>1, <1>2 DEF OneAsk
<1> QED  BY <1>12, <1>15, <1>16, <1>18, <1>19, <1>20 DEF SbomIInv

\* Jobs keep their image and format.
SbomsGrown ==
    /\ sbomJobs' \in Seq(SbomJobRecord)
    /\ DOMAIN sbomJobs \subseteq DOMAIN sbomJobs'
    /\ \A id \in DOMAIN sbomJobs : /\ sbomJobs'[id].image = sbomJobs[id].image
                                   /\ sbomJobs'[id].format = sbomJobs[id].format

\* A step of the server: jobs keep their image and format, and a request that
\* is answered stays that of its dialog.
LEMMA ServerStepKeeps ==
  ASSUME SbomIInv, SbomsGrown,
         UNCHANGED <<downloads, sbomOpenings, dialog, sbomJob, activeSBOMJobIds, announced>>,
         sbomAsked' \subseteq AskRecord, OneAsk',
         \A q \in sbomAsked' :
            \E r \in sbomAsked : /\ q.key = r.key /\ q.image = r.image /\ q.format = r.format
                                 /\ q.answer = "job"
                                      => \/ r.answer = "job" /\ q.job = r.job
                                         \/ /\ q.job \in DOMAIN sbomJobs'
                                            /\ sbomJobs'[q.job].image = q.image
                                            /\ sbomJobs'[q.job].format = q.format
  PROVE  SbomIInv'
<1>1. SbomTyped /\ ShownInv /\ (\A r \in sbomAsked : AskInv(r))
      /\ (\A d \in downloads : DownInv(d)) /\ AnnouncedInv
  BY DEF SbomIInv
<1>2. SbomTyped'  BY <1>1 DEF SbomTyped, SbomsGrown
<1>3. ShownInv'  BY <1>1 DEF ShownInv, SbomsGrown
<1>4. \A d \in downloads' : DownInv(d)'  BY <1>1 DEF DownInv
<1>5. AnnouncedInv'  BY <1>1 DEF AnnouncedInv
<1>6. ASSUME NEW q \in sbomAsked' PROVE AskInv(q)'
  <2>1. PICK r \in sbomAsked :
            /\ q.key = r.key /\ q.image = r.image /\ q.format = r.format
            /\ q.answer = "job" => \/ r.answer = "job" /\ q.job = r.job
                                   \/ /\ q.job \in DOMAIN sbomJobs'
                                      /\ sbomJobs'[q.job].image = q.image
                                      /\ sbomJobs'[q.job].format = q.format
    OBVIOUS
  <2>2. AskInv(r)  BY <1>1
  <2>3. /\ q.key # 0 /\ q.key <= sbomOpenings'
        /\ q.key = dialog'.key => q.image = dialog'.image /\ dialog'.jobId = 0
    BY <2>1, <2>2 DEF AskInv
  <2>4. q.key = dialog'.key => q.format = dialog'.format \/ dialog'.changed
    BY <2>1, <2>2 DEF AskInv
  <2>5. ASSUME q.answer = "job"
        PROVE  /\ q.job \in DOMAIN sbomJobs'
               /\ sbomJobs'[q.job].image = q.image
               /\ sbomJobs'[q.job].format = q.format
    <3>1. CASE r.answer = "job" /\ q.job = r.job
      BY <2>1, <2>2, <3>1 DEF AskInv, SbomsGrown
    <3> QED  BY <2>1, <2>5, <3>1
  <2> QED  BY <2>3, <2>4, <2>5 DEF AskInv
<1> QED  BY <1>2, <1>3, <1>4, <1>5, <1>6 DEF SbomIInv

\* The server takes a request on.
LEMMA SbomAcceptKeeps ==
  ASSUME SbomIInv, NEW r \in sbomAsked, Sboms!Accept(r) PROVE SbomIInv'
<1>1. /\ sbomJobs \in Seq(SbomJobRecord) /\ Len(sbomJobs) \in Nat
      /\ DOMAIN sbomJobs = 1 .. Len(sbomJobs)
      /\ r \in AskRecord /\ sbomAsked \subseteq AskRecord /\ OneAsk
  BY DEF SbomIInv, SbomTyped
<1> DEFINE j == [image |-> r.image, format |-> r.format, known |-> TRUE, status |-> "generating"]
           n == Len(sbomJobs) + 1
           q == [r EXCEPT !.answer = "job", !.job = n]
<1>2. /\ Len(sbomJobs) < MaxJobs
      /\ sbomJobs' = Append(sbomJobs, j)
      /\ sbomAsked' = (sbomAsked \ {r}) \cup {q}
      /\ UNCHANGED <<downloads, sbomOpenings, dialog, sbomJob, activeSBOMJobIds, announced>>
  BY DEF Sboms!Accept
<1>3. j \in SbomJobRecord /\ j.image = r.image /\ j.format = r.format
  BY <1>1 DEF SbomJobRecord, AskRecord, SbomStatus
<1>4. n \in 0 .. MaxJobs  BY <1>1, <1>2, BoundsAssumption
<1> HIDE DEF j
<1>5. /\ sbomJobs' \in Seq(SbomJobRecord)
      /\ DOMAIN sbomJobs \subseteq DOMAIN sbomJobs'
      /\ \A id \in DOMAIN sbomJobs : sbomJobs'[id] = sbomJobs[id]
      /\ n \in DOMAIN sbomJobs' /\ sbomJobs'[n] = j
  BY <1>1, <1>2, <1>3
<1> HIDE DEF n
<1>6. /\ q \in AskRecord /\ q.key = r.key /\ q.image = r.image /\ q.format = r.format
      /\ q.job = n
  BY <1>1, <1>4 DEF AskRecord
<1> HIDE DEF q
<1>7. SbomsGrown  BY <1>5 DEF SbomsGrown
<1>8. sbomAsked' \subseteq AskRecord  BY <1>1, <1>2, <1>6
<1>9. OneAsk'  BY <1>1, <1>2, <1>6 DEF OneAsk
<1>10. ASSUME NEW p \in sbomAsked'
       PROVE  \E s \in sbomAsked : /\ p.key = s.key /\ p.image = s.image /\ p.format = s.format
                                   /\ p.answer = "job"
                                        => \/ s.answer = "job" /\ p.job = s.job
                                           \/ /\ p.job \in DOMAIN sbomJobs'
                                              /\ sbomJobs'[p.job].image = p.image
                                              /\ sbomJobs'[p.job].format = p.format
  <2>1. CASE p \in sbomAsked  BY <2>1
  <2>2. CASE p = q
    <3>1. p.key = r.key /\ p.image = r.image /\ p.format = r.format /\ p.job = n
      BY <1>6, <2>2
    <3>2. /\ p.job \in DOMAIN sbomJobs' /\ sbomJobs'[p.job].image = p.image
          /\ sbomJobs'[p.job].format = p.format
      BY <1>3, <1>5, <3>1
    <3> QED  BY <3>1, <3>2
  <2> QED  BY <1>2, <2>1, <2>2
<1> QED  BY <1>2, <1>7, <1>8, <1>9, <1>10, ServerStepKeeps

\* The server refuses a request.
LEMMA SbomRefuseKeeps ==
  ASSUME SbomIInv, NEW r \in sbomAsked, Sboms!Refuse(r) PROVE SbomIInv'
<1>1. /\ sbomJobs \in Seq(SbomJobRecord)
      /\ r \in AskRecord /\ sbomAsked \subseteq AskRecord /\ OneAsk
  BY DEF SbomIInv, SbomTyped
<1>2. PICK a \in {"blocked", "error"} :
         sbomAsked' = (sbomAsked \ {r}) \cup {[r EXCEPT !.answer = a]}
  BY DEF Sboms!Refuse
<1>3. UNCHANGED <<sbomJobs, downloads, sbomOpenings, dialog, sbomJob, activeSBOMJobIds, announced>>
  BY DEF Sboms!Refuse
<1> DEFINE q == [r EXCEPT !.answer = a]
<1>4. /\ q \in AskRecord /\ q.key = r.key /\ q.image = r.image /\ q.format = r.format
      /\ q.answer # "job"
  BY <1>1 DEF AskRecord
<1>5. sbomAsked' = (sbomAsked \ {r}) \cup {q}  BY <1>2
<1> HIDE DEF q
<1>6. SbomsGrown  BY <1>1, <1>3 DEF SbomsGrown
<1>7. sbomAsked' \subseteq AskRecord  BY <1>1, <1>4, <1>5
<1>8. OneAsk'  BY <1>1, <1>4, <1>5 DEF OneAsk
<1>9. ASSUME NEW p \in sbomAsked'
      PROVE  \E s \in sbomAsked : /\ p.key = s.key /\ p.image = s.image /\ p.format = s.format
                                  /\ p.answer = "job"
                                       => \/ s.answer = "job" /\ p.job = s.job
                                          \/ /\ p.job \in DOMAIN sbomJobs'
                                             /\ sbomJobs'[p.job].image = p.image
                                             /\ sbomJobs'[p.job].format = p.format
  <2>1. CASE p \in sbomAsked  BY <2>1
  <2>2. CASE p = q  BY <1>4, <2>2
  <2> QED  BY <1>5, <2>1, <2>2
<1> QED  BY <1>3, <1>6, <1>7, <1>8, <1>9, ServerStepKeeps

\* A job ends.
LEMMA SbomEndsKeeps ==
  ASSUME SbomIInv, NEW id \in DOMAIN sbomJobs, Sboms!Ends(id) PROVE SbomIInv'
<1>1. /\ sbomJobs \in Seq(SbomJobRecord) /\ sbomAsked \subseteq AskRecord /\ OneAsk
      /\ sbomJobs[id] \in SbomJobRecord
  BY DEF SbomIInv, SbomTyped
<1>2. PICK s \in Sboms!Terminal : sbomJobs' = [sbomJobs EXCEPT ![id].status = s]
  BY DEF Sboms!Ends
<1>3. UNCHANGED <<sbomAsked, downloads, sbomOpenings, dialog, sbomJob, activeSBOMJobIds,
                  announced>>
  BY DEF Sboms!Ends
<1> DEFINE j == [sbomJobs[id] EXCEPT !.status = s]
<1>4. j \in SbomJobRecord /\ j.image = sbomJobs[id].image /\ j.format = sbomJobs[id].format
  BY <1>1 DEF SbomJobRecord, SbomStatus
<1>5. sbomJobs' = [sbomJobs EXCEPT ![id] = j]  BY <1>2
<1> HIDE DEF j
<1>6. /\ sbomJobs' \in Seq(SbomJobRecord) /\ DOMAIN sbomJobs' = DOMAIN sbomJobs
      /\ sbomJobs'[id] = j
      /\ \A i \in DOMAIN sbomJobs : i # id => sbomJobs'[i] = sbomJobs[i]
  BY <1>1, <1>4, <1>5
<1>7. SbomsGrown  BY <1>4, <1>6 DEF SbomsGrown
<1>8. OneAsk'  BY <1>1, <1>3 DEF OneAsk
<1> QED  BY <1>1, <1>3, <1>7, <1>8, ServerStepKeeps

\* The server restarts: it knows no job, and requests under way fail.
LEMMA SbomRestartsKeep ==
  ASSUME SbomIInv, Sboms!Restarts PROVE SbomIInv'
<1>1. /\ sbomJobs \in Seq(SbomJobRecord) /\ DOMAIN sbomJobs = 1 .. Len(sbomJobs)
      /\ Len(sbomJobs) \in Nat
      /\ sbomAsked \subseteq AskRecord /\ OneAsk
  BY DEF SbomIInv, SbomTyped
<1>2. /\ sbomJobs' = [id \in DOMAIN sbomJobs |-> [sbomJobs[id] EXCEPT !.known = FALSE]]
      /\ sbomAsked' = {[r EXCEPT !.answer = IF r.answer = "none" THEN "error" ELSE r.answer] :
                          r \in sbomAsked}
      /\ UNCHANGED <<downloads, sbomOpenings, dialog, sbomJob, activeSBOMJobIds, announced>>
  BY DEF Sboms!Restarts
<1>3. ASSUME NEW id \in DOMAIN sbomJobs
      PROVE  /\ sbomJobs'[id] \in SbomJobRecord
             /\ sbomJobs'[id].image = sbomJobs[id].image
             /\ sbomJobs'[id].format = sbomJobs[id].format
  <2>1. sbomJobs[id] \in SbomJobRecord  BY <1>1
  <2>2. sbomJobs'[id] = [sbomJobs[id] EXCEPT !.known = FALSE]  BY <1>2
  <2> QED  BY <2>1, <2>2 DEF SbomJobRecord
<1>4. sbomJobs' \in [1 .. Len(sbomJobs) -> SbomJobRecord]  BY <1>1, <1>2, <1>3
<1>5. sbomJobs' \in Seq(SbomJobRecord) /\ DOMAIN sbomJobs' = DOMAIN sbomJobs  BY <1>1, <1>4
<1>6. SbomsGrown  BY <1>3, <1>5 DEF SbomsGrown
<1>7. ASSUME NEW q \in sbomAsked'
      PROVE  \E r \in sbomAsked :
                q = [r EXCEPT !.answer = IF r.answer = "none" THEN "error" ELSE r.answer]
  BY <1>2
<1>8. ASSUME NEW r \in sbomAsked,
             NEW q, q = [r EXCEPT !.answer = IF r.answer = "none" THEN "error" ELSE r.answer]
      PROVE  /\ q \in AskRecord
             /\ q.key = r.key /\ q.image = r.image /\ q.format = r.format /\ q.job = r.job
             /\ q.answer = "job" => r.answer = "job"
  <2> DEFINE a == IF r.answer = "none" THEN "error" ELSE r.answer
  <2>1. r \in AskRecord  BY <1>1
  <2>2. q = [r EXCEPT !.answer = a]  BY <1>8
  <2>3. a \in {"none", "job", "blocked", "error"} /\ (a = "job" => r.answer = "job")
    BY <2>1 DEF AskRecord
  <2> HIDE DEF a
  <2>4. /\ q \in AskRecord /\ q.answer = a
        /\ q.key = r.key /\ q.image = r.image /\ q.format = r.format /\ q.job = r.job
    BY <2>1, <2>2, <2>3 DEF AskRecord
  <2> QED  BY <2>3, <2>4
<1>9. sbomAsked' \subseteq AskRecord  BY <1>7, <1>8
<1>10. OneAsk'
  <2> SUFFICES ASSUME NEW q \in sbomAsked', NEW p \in sbomAsked', q.key = p.key
               PROVE  q = p
    BY DEF OneAsk
  <2>1. PICK r \in sbomAsked :
            q = [r EXCEPT !.answer = IF r.answer = "none" THEN "error" ELSE r.answer]
    BY <1>7
  <2>2. PICK s \in sbomAsked :
            p = [s EXCEPT !.answer = IF s.answer = "none" THEN "error" ELSE s.answer]
    BY <1>7
  <2>3. r.key = s.key  BY <1>8, <2>1, <2>2
  <2>4. r = s  BY <1>1, <2>3 DEF OneAsk
  <2> QED  BY <2>1, <2>2, <2>4
<1>11. ASSUME NEW q \in sbomAsked'
       PROVE  \E r \in sbomAsked : /\ q.key = r.key /\ q.image = r.image /\ q.format = r.format
                                   /\ q.answer = "job"
                                        => \/ r.answer = "job" /\ q.job = r.job
                                           \/ /\ q.job \in DOMAIN sbomJobs'
                                              /\ sbomJobs'[q.job].image = q.image
                                              /\ sbomJobs'[q.job].format = q.format
  <2>1. PICK r \in sbomAsked :
            q = [r EXCEPT !.answer = IF r.answer = "none" THEN "error" ELSE r.answer]
    BY <1>7
  <2>2. /\ q.key = r.key /\ q.image = r.image /\ q.format = r.format /\ q.job = r.job
        /\ q.answer = "job" => r.answer = "job"
    BY <1>8, <2>1
  <2> QED  BY <2>2
<1> QED  BY <1>2, <1>6, <1>9, <1>10, <1>11, ServerStepKeeps

\* Every step of the dialog of SBOMs keeps its invariant.
LEMMA SbomIsKept == SbomIInv /\ [Next]_vars => SbomIInv'
<1> SUFFICES ASSUME SbomIInv, [Next]_vars PROVE SbomIInv'
  OBVIOUS
<1>0. [Sboms!SbomNext]_sbomVars  BY SbomRun
<1>1. ASSUME UNCHANGED <<sbomJobs, sbomAsked, downloads, sbomOpenings, dialog, sbomJob,
                         activeSBOMJobIds, announced>>
      PROVE  SbomIInv'
  <2>1. SbomTyped /\ OneAsk  BY DEF SbomIInv
  <2>2. SbomsGrown  BY <1>1, <2>1 DEF SbomsGrown, SbomTyped
  <2>3. OneAsk'  BY <1>1, <2>1 DEF OneAsk
  <2>4. sbomAsked' \subseteq AskRecord  BY <1>1, <2>1 DEF SbomTyped
  <2> QED  BY <1>1, <2>2, <2>3, <2>4, ServerStepKeeps
<1>2. CASE Sboms!Refetch  BY <1>1, <1>2 DEF Sboms!Refetch
<1>3. CASE UNCHANGED sbomVars  BY <1>1, <1>3 DEF sbomVars
<1> QED
  BY <1>0, <1>2, <1>3, OpenDialogKeeps, SelectFormatKeeps, CloseDialogKeeps, GenerateKeeps,
     RetryKeeps, ExportKeeps, SbomRestartsKeep, GeneratedKeeps, SbomAcceptKeeps,
     SbomRefuseKeeps, DownloadedKeeps, SbomPollKeeps, SbomEndsKeeps DEF Sboms!SbomNext

\* The invariant of the dialog of SBOMs holds throughout.
LEMMA SbomsStay == Spec => []SbomIInv
BY SbomStarts, SbomIsKept, PTL DEF Spec

-----------------------------------------------------------------------------
(* Both together.                                                          *)

\* A dialog shows its own job, of its own image, and only that job's results
\* or document; no SBOM is announced twice (ScanDialogs, SbomDialog), for any
\* number of dialogs opened and closed while their requests are under way.
THEOREM DialogsOwn == Spec => []DialogsShowTheirOwn
<1>1. DialogIInv /\ SbomIInv => DialogsShowTheirOwn
  BY DialogOwns, SbomOwns DEF DialogsShowTheirOwn
<1> QED  BY <1>1, DialogsStay, SbomsStay, PTL

-----------------------------------------------------------------------------
(* The types of the dialog of SBOMs.                                       *)

\* A dialog that is open, a request and a job are of an image and a format.
SbomRest ==
    /\ dialog.key # 0 => dialog.image \in Images /\ dialog.format \in Formats
    /\ \A r \in sbomAsked : r.image \in Images /\ r.format \in Formats
    /\ \A id \in DOMAIN sbomJobs : /\ sbomJobs[id].image \in Images
                                   /\ sbomJobs[id].format \in Formats
                                   /\ sbomJobs[id].status # "unknown"
    /\ dialog.key = 0 => dialog.image = "none" /\ dialog.format = "none"
    /\ sbomedImages \subseteq Images
    /\ stale \in BOOLEAN

\* No dialog is open at first.
LEMMA SbomRestStarts == Init => SbomRest
<1> SUFFICES ASSUME Sboms!SbomInit PROVE SbomRest
  BY DEF Init
<1>1. dialog.key = 0 /\ dialog.image = "none" /\ dialog.format = "none"
  BY DEF Sboms!SbomInit, Sboms!NoDialog
<1>2. sbomAsked = {} /\ DOMAIN sbomJobs = {}  BY DEF Sboms!SbomInit
<1> QED  BY <1>1, <1>2 DEF Sboms!SbomInit, SbomRest

\* Every step of the dialog and of the server keeps the rest of its types.
LEMMA SbomRestIsKept == SbomIInv /\ SbomRest /\ [Next]_vars => SbomRest'
<1> SUFFICES ASSUME SbomIInv, SbomRest, [Sboms!SbomNext]_sbomVars PROVE SbomRest'
  BY SbomRun
<1> DEFINE DialogIsOf == /\ dialog.key # 0 => dialog.image \in Images /\ dialog.format \in Formats
                         /\ dialog.key = 0 => dialog.image = "none" /\ dialog.format = "none"
           AskedAreOf == \A r \in sbomAsked : r.image \in Images /\ r.format \in Formats
           JobsAreOf == \A id \in DOMAIN sbomJobs : /\ sbomJobs[id].image \in Images
                                                    /\ sbomJobs[id].format \in Formats
                                                    /\ sbomJobs[id].status # "unknown"
           ListIsOf == sbomedImages \subseteq Images /\ stale \in BOOLEAN
<1>0. DialogIsOf /\ AskedAreOf /\ JobsAreOf /\ ListIsOf  BY DEF SbomRest
<1>t. /\ dialog \in SbomRecord /\ sbomAsked \subseteq AskRecord
      /\ sbomJobs \in Seq(SbomJobRecord)
  BY DEF SbomIInv, SbomTyped
<1>s. ASSUME DialogIsOf', AskedAreOf', JobsAreOf', ListIsOf' PROVE SbomRest'
  BY <1>s DEF SbomRest
<1>d. ASSUME UNCHANGED dialog PROVE DialogIsOf'  BY <1>0, <1>d
<1>a. ASSUME UNCHANGED sbomAsked PROVE AskedAreOf'  BY <1>0, <1>a
<1>j. ASSUME UNCHANGED sbomJobs PROVE JobsAreOf'  BY <1>0, <1>j
<1>l. ASSUME UNCHANGED <<sbomedImages, stale>> PROVE ListIsOf'  BY <1>0, <1>l
<1>k. ASSUME dialog'.key = dialog.key, dialog'.image = dialog.image,
             dialog'.format = dialog.format
      PROVE  DialogIsOf'
  BY <1>0, <1>k
<1>1. ASSUME NEW i \in Images, Sboms!OpenDialog(i) PROVE SbomRest'
  <2>1. /\ dialog' = [Sboms!NoDialog EXCEPT !.key = sbomOpenings + 1, !.image = i,
                                            !.format = "spdx-json"]
        /\ UNCHANGED <<sbomAsked, sbomJobs, sbomedImages, stale>>
    BY <1>1 DEF Sboms!OpenDialog
  <2>2. sbomOpenings + 1 # 0
    <3>1. sbomOpenings \in Nat  BY BoundsAssumption DEF SbomIInv, SbomTyped
    <3> QED  BY <3>1
  <2>3. dialog'.key = sbomOpenings + 1 /\ dialog'.image = i /\ dialog'.format = "spdx-json"
    BY <2>1 DEF Sboms!NoDialog
  <2>4. DialogIsOf'  BY <2>2, <2>3, ChoicesAssumption
  <2> HIDE DEF DialogIsOf, AskedAreOf, JobsAreOf, ListIsOf
  <2> QED  BY <1>a, <1>j, <1>l, <1>s, <2>1, <2>4
<1>2. ASSUME NEW f \in Formats, Sboms!SelectFormat(f) PROVE SbomRest'
  <2>1. /\ dialog.key # 0 /\ dialog' = [dialog EXCEPT !.format = f, !.changed = dialog'.changed]
        /\ UNCHANGED <<sbomAsked, sbomJobs, sbomedImages, stale>>
    <3>1. dialog' = [dialog EXCEPT !.format = f, !.changed = dialog.changed \/ Sboms!Pending]
      BY <1>2 DEF Sboms!SelectFormat
    <3>2. dialog'.changed = (dialog.changed \/ Sboms!Pending)  BY <1>t, <3>1 DEF SbomRecord
    <3>3. dialog' = [dialog EXCEPT !.format = f, !.changed = dialog'.changed]  BY <3>1, <3>2
    <3> QED  BY <1>2, <3>3 DEF Sboms!SelectFormat, Sboms!Open
  <2>2. dialog'.key = dialog.key /\ dialog'.image = dialog.image /\ dialog'.format = f
    BY <1>t, <2>1 DEF SbomRecord
  <2>3. DialogIsOf'  BY <1>0, <2>1, <2>2
  <2> HIDE DEF DialogIsOf, AskedAreOf, JobsAreOf, ListIsOf
  <2> QED  BY <1>a, <1>j, <1>l, <1>s, <2>1, <2>3
<1>3. CASE Sboms!CloseDialog
  <2>1. dialog' = Sboms!NoDialog /\ UNCHANGED <<sbomAsked, sbomJobs, sbomedImages, stale>>
    BY <1>3 DEF Sboms!CloseDialog
  <2>2. DialogIsOf'  BY <2>1 DEF Sboms!NoDialog
  <2> HIDE DEF DialogIsOf, AskedAreOf, JobsAreOf, ListIsOf
  <2> QED  BY <1>a, <1>j, <1>l, <1>s, <2>1, <2>2
<1>4. CASE Sboms!Generate
  <2>1. /\ dialog.key # 0 /\ dialog' = [dialog EXCEPT !.changed = FALSE]
        /\ sbomAsked' = sbomAsked \cup
              {[key |-> dialog.key, image |-> dialog.image, job |-> Sboms!None,
                format |-> dialog.format, answer |-> "none"]}
        /\ UNCHANGED <<sbomJobs, sbomedImages, stale>>
    BY <1>4 DEF Sboms!Generate, Sboms!Open
  <2>2. /\ dialog'.key = dialog.key /\ dialog'.image = dialog.image
        /\ dialog'.format = dialog.format
    BY <1>t, <2>1 DEF SbomRecord
  <2>3. AskedAreOf'  BY <1>0, <2>1
  <2> HIDE DEF DialogIsOf, AskedAreOf, JobsAreOf, ListIsOf
  <2> QED  BY <1>k, <1>j, <1>l, <1>s, <2>1, <2>2, <2>3
<1>5. CASE Sboms!Retry \/ Sboms!Export
  <2>1. /\ \/ dialog' = [dialog EXCEPT !.started = FALSE, !.jobId = Sboms!None]
           \/ dialog' = [dialog EXCEPT !.downloading = TRUE]
        /\ UNCHANGED <<sbomAsked, sbomJobs, sbomedImages, stale>>
    BY <1>5 DEF Sboms!Retry, Sboms!Export
  <2>2. /\ dialog'.key = dialog.key /\ dialog'.image = dialog.image
        /\ dialog'.format = dialog.format
    BY <1>t, <2>1 DEF SbomRecord
  <2> HIDE DEF DialogIsOf, AskedAreOf, JobsAreOf, ListIsOf
  <2> QED  BY <1>k, <1>a, <1>j, <1>l, <1>s, <2>1, <2>2
<1>6. CASE Sboms!Refetch
  <2>1. UNCHANGED <<sbomAsked, sbomJobs, dialog>>  BY <1>6 DEF Sboms!Refetch
  <2>2. ListIsOf'  BY <1>0, <1>6 DEF Sboms!Refetch
  <2> HIDE DEF DialogIsOf, AskedAreOf, JobsAreOf, ListIsOf
  <2> QED  BY <1>d, <1>a, <1>j, <1>s, <2>1, <2>2
<1>7. CASE Sboms!Restarts
  <2>1. /\ sbomJobs' = [id \in DOMAIN sbomJobs |-> [sbomJobs[id] EXCEPT !.known = FALSE]]
        /\ sbomAsked' = {[r EXCEPT !.answer = IF r.answer = "none" THEN "error" ELSE r.answer]
                            : r \in sbomAsked}
        /\ UNCHANGED <<dialog, sbomedImages, stale>>
    BY <1>7 DEF Sboms!Restarts
  <2>2. ASSUME NEW id \in DOMAIN sbomJobs
        PROVE  LET job == [sbomJobs[id] EXCEPT !.known = FALSE] IN
               /\ job.image = sbomJobs[id].image /\ job.format = sbomJobs[id].format
               /\ job.status = sbomJobs[id].status
    <3>1. sbomJobs[id] \in SbomJobRecord  BY <1>t
    <3> QED  BY <3>1 DEF SbomJobRecord
  <2>3. JobsAreOf'
    <3>1. DOMAIN sbomJobs' = DOMAIN sbomJobs  BY <2>1
    <3>2. \A id \in DOMAIN sbomJobs : sbomJobs'[id] = [sbomJobs[id] EXCEPT !.known = FALSE]
      BY <2>1
    <3>3. \A id \in DOMAIN sbomJobs :
             /\ sbomJobs'[id].image = sbomJobs[id].image
             /\ sbomJobs'[id].format = sbomJobs[id].format
             /\ sbomJobs'[id].status = sbomJobs[id].status
      BY <2>2, <3>2
    <3> QED  BY <1>0, <3>1, <3>3
  <2>4. AskedAreOf'
    <3>1. ASSUME NEW r \in sbomAsked, NEW a
          PROVE  [r EXCEPT !.answer = a].image = r.image /\ [r EXCEPT !.answer = a].format = r.format
      <4>1. r \in AskRecord  BY <1>t
      <4> QED  BY <4>1 DEF AskRecord
    <3>2. ASSUME NEW q \in sbomAsked' PROVE q.image \in Images /\ q.format \in Formats
      <4>1. PICK r \in sbomAsked :
               q = [r EXCEPT !.answer = IF r.answer = "none" THEN "error" ELSE r.answer]
        BY <2>1
      <4>2. q.image = r.image /\ q.format = r.format  BY <3>1, <4>1
      <4> QED  BY <1>0, <4>2
    <3> QED  BY <3>2
  <2> HIDE DEF DialogIsOf, AskedAreOf, JobsAreOf, ListIsOf
  <2> QED  BY <1>d, <1>l, <1>s, <2>1, <2>3, <2>4
<1>8. ASSUME NEW r \in sbomAsked, Sboms!Generated(r) PROVE SbomRest'
  <2>1. sbomAsked' \subseteq sbomAsked /\ UNCHANGED <<sbomJobs, sbomedImages, stale>>
    BY <1>8 DEF Sboms!Generated
  <2>2. /\ dialog'.key = dialog.key /\ dialog'.image = dialog.image
        /\ dialog'.format = dialog.format
    BY <1>8, <1>t DEF Sboms!Generated, SbomRecord
  <2>3. AskedAreOf'  BY <1>0, <2>1
  <2> HIDE DEF DialogIsOf, AskedAreOf, JobsAreOf, ListIsOf
  <2> QED  BY <1>k, <1>j, <1>l, <1>s, <2>1, <2>2, <2>3
<1>9. ASSUME NEW r \in sbomAsked, Sboms!Accept(r) PROVE SbomRest'
  <2> DEFINE new == [image |-> r.image, format |-> r.format, known |-> TRUE,
                     status |-> "generating"]
  <2>1. /\ sbomJobs' = Append(sbomJobs, new)
        /\ sbomAsked' = (sbomAsked \ {r}) \cup
                           {[r EXCEPT !.answer = "job", !.job = Len(sbomJobs) + 1]}
        /\ UNCHANGED <<dialog, sbomedImages, stale>>
    BY <1>9 DEF Sboms!Accept
  <2>2. /\ [r EXCEPT !.answer = "job", !.job = Len(sbomJobs) + 1].image = r.image
        /\ [r EXCEPT !.answer = "job", !.job = Len(sbomJobs) + 1].format = r.format
    <3>1. r \in AskRecord  BY <1>t
    <3> QED  BY <3>1 DEF AskRecord
  <2>3. AskedAreOf'  BY <1>0, <2>1, <2>2
  <2>4. new.image \in Images /\ new.format \in Formats /\ new.status # "unknown"
    BY <1>0, <1>9
  <2>5. JobsAreOf'
    <3> HIDE DEF new
    <3>1. \A id \in DOMAIN sbomJobs' :
             \/ id \in DOMAIN sbomJobs /\ sbomJobs'[id] = sbomJobs[id]
             \/ sbomJobs'[id] = new
      BY <1>t, <2>1
    <3> QED  BY <1>0, <2>4, <3>1
  <2> HIDE DEF DialogIsOf, AskedAreOf, JobsAreOf, ListIsOf
  <2> QED  BY <1>d, <1>l, <1>s, <2>1, <2>3, <2>5
<1>10. ASSUME NEW r \in sbomAsked, Sboms!Refuse(r) PROVE SbomRest'
  <2>1. PICK a \in {"blocked", "error"} :
          sbomAsked' = (sbomAsked \ {r}) \cup {[r EXCEPT !.answer = a]}
    BY <1>10 DEF Sboms!Refuse
  <2>2. [r EXCEPT !.answer = a].image = r.image /\ [r EXCEPT !.answer = a].format = r.format
    <3>1. r \in AskRecord  BY <1>t
    <3> QED  BY <3>1 DEF AskRecord
  <2>3. AskedAreOf'  BY <1>0, <2>1, <2>2
  <2>4. UNCHANGED <<dialog, sbomJobs, sbomedImages, stale>>  BY <1>10 DEF Sboms!Refuse
  <2> HIDE DEF DialogIsOf, AskedAreOf, JobsAreOf, ListIsOf
  <2> QED  BY <1>d, <1>j, <1>l, <1>s, <2>3, <2>4
<1>11. ASSUME NEW d \in downloads, Sboms!Downloaded(d) PROVE SbomRest'
  <2>1. /\ \/ dialog' = dialog
           \/ dialog' = [dialog EXCEPT !.downloading = FALSE]
           \/ dialog' = [dialog EXCEPT !.data = d.job]
        /\ UNCHANGED <<sbomAsked, sbomJobs, sbomedImages, stale>>
    BY <1>11 DEF Sboms!Downloaded
  <2>2. /\ dialog'.key = dialog.key /\ dialog'.image = dialog.image
        /\ dialog'.format = dialog.format
    BY <1>t, <2>1 DEF SbomRecord
  <2> HIDE DEF DialogIsOf, AskedAreOf, JobsAreOf, ListIsOf
  <2> QED  BY <1>k, <1>a, <1>j, <1>l, <1>s, <2>1, <2>2
<1>12. ASSUME NEW id \in DOMAIN sbomJobs, Sboms!Poll(id) PROVE SbomRest'
  <2>1. UNCHANGED <<sbomAsked, sbomJobs, dialog, sbomedImages>>  BY <1>12 DEF Sboms!Poll
  <2>2. stale' \in BOOLEAN  BY <1>12, Zenon DEF Sboms!Poll
  <2>3. ListIsOf'  BY <1>0, <2>1, <2>2
  <2> HIDE DEF DialogIsOf, AskedAreOf, JobsAreOf, ListIsOf
  <2> QED  BY <1>d, <1>a, <1>j, <1>s, <2>1, <2>3
<1>13. ASSUME NEW id \in DOMAIN sbomJobs, Sboms!Ends(id) PROVE SbomRest'
  <2>1. PICK s \in Sboms!Terminal : sbomJobs' = [sbomJobs EXCEPT ![id].status = s]
    BY <1>13 DEF Sboms!Ends
  <2>2. sbomJobs[id] \in SbomJobRecord  BY <1>t
  <2>3. LET job == [sbomJobs[id] EXCEPT !.status = s] IN
        job.image = sbomJobs[id].image /\ job.format = sbomJobs[id].format /\ job.status # "unknown"
    BY <2>2 DEF SbomJobRecord, Sboms!Terminal
  <2>4. JobsAreOf'
    <3>1. DOMAIN sbomJobs' = DOMAIN sbomJobs  BY <2>1
    <3>2. \A k \in DOMAIN sbomJobs :
             sbomJobs'[k] = IF k = id THEN [sbomJobs[id] EXCEPT !.status = s] ELSE sbomJobs[k]
      BY <2>1
    <3> QED  BY <1>0, <2>3, <3>1, <3>2
  <2>5. UNCHANGED <<sbomAsked, dialog, sbomedImages, stale>>  BY <1>13 DEF Sboms!Ends
  <2> HIDE DEF DialogIsOf, AskedAreOf, JobsAreOf, ListIsOf
  <2> QED  BY <1>d, <1>a, <1>l, <1>s, <2>4, <2>5
<1>14. CASE UNCHANGED sbomVars
  <2>1. UNCHANGED <<sbomAsked, sbomJobs, dialog, sbomedImages, stale>>  BY <1>14 DEF sbomVars
  <2> HIDE DEF DialogIsOf, AskedAreOf, JobsAreOf, ListIsOf
  <2> QED  BY <1>d, <1>a, <1>j, <1>l, <1>s, <2>1
<1> HIDE DEF DialogIsOf, AskedAreOf, JobsAreOf, ListIsOf
<1> QED
  BY <1>1, <1>2, <1>3, <1>4, <1>5, <1>6, <1>7, <1>8, <1>9, <1>10, <1>11, <1>12, <1>13, <1>14
  DEF Sboms!SbomNext

\* The dialog of SBOMs keeps its types.
THEOREM SbomTypesStay == Spec => []Sboms!SbomTypeOK
<1>1. SbomIInv /\ SbomRest => Sboms!SbomTypeOK
  <2> SUFFICES ASSUME SbomIInv, SbomRest PROVE Sboms!SbomTypeOK
    OBVIOUS
  <2>0. /\ sbomJobs \in Seq(SbomJobRecord) /\ sbomAsked \subseteq AskRecord
        /\ downloads \subseteq DownloadRecord /\ dialog \in SbomRecord
        /\ sbomOpenings \in 0 .. MaxOpenings
        /\ sbomJob \in [SbomIds -> SbomStatus] /\ activeSBOMJobIds \subseteq SbomIds
        /\ announced \in [SbomIds -> 0 .. 1]
    BY DEF SbomIInv, SbomTyped
  <2>1. {Sboms!None} \cup Sboms!Ids = 0 .. MaxJobs /\ Sboms!Keys = 0 .. MaxOpenings
        /\ Sboms!Ids = SbomIds
    BY BoundsAssumption DEF Sboms!None, Sboms!Ids, Sboms!Keys, SbomIds
  <2>2. sbomJobs \in Seq([image : Images, format : Formats, known : BOOLEAN,
                          status : {"generating"} \cup Sboms!Terminal])
    <3> DEFINE J == [image : Images, format : Formats, known : BOOLEAN,
                     status : {"generating"} \cup Sboms!Terminal]
    <3>1. ASSUME NEW id \in DOMAIN sbomJobs PROVE sbomJobs[id] \in J
      <4>1. sbomJobs[id] \in SbomJobRecord  BY <2>0
      <4> QED  BY <4>1 DEF SbomJobRecord, SbomStatus, SbomRest
    <3> HIDE DEF J
    <3>2. sbomJobs \in [1 .. Len(sbomJobs) -> J]  BY <2>0, <3>1
    <3>3. sbomJobs \in Seq(J)  BY <2>0, <3>2
    <3> QED  BY <3>3 DEF J
  <2>3. sbomAsked \subseteq [key : Sboms!Keys, image : Images, format : Formats,
                             job : {Sboms!None} \cup Sboms!Ids,
                             answer : {"none", "job", "blocked", "error"}]
    <3> SUFFICES ASSUME NEW r \in sbomAsked
                 PROVE  r \in [key : Sboms!Keys, image : Images, format : Formats,
                               job : {Sboms!None} \cup Sboms!Ids,
                               answer : {"none", "job", "blocked", "error"}]
      OBVIOUS
    <3>1. r \in AskRecord /\ r.image \in Images /\ r.format \in Formats
      BY <2>0 DEF SbomRest
    <3> QED  BY <2>1, <3>1 DEF AskRecord
  <2>4. dialog \in [key : Sboms!Keys, image : Images \cup {"none"},
                    format : Formats \cup {"none"}, jobId : {Sboms!None} \cup Sboms!Ids,
                    started : BOOLEAN, downloading : BOOLEAN,
                    data : {Sboms!None} \cup Sboms!Ids, blocked : BOOLEAN, changed : BOOLEAN]
    <3>1. dialog.image \in Images \cup {"none"} /\ dialog.format \in Formats \cup {"none"}
      BY DEF SbomRest
    <3> QED  BY <2>0, <2>1, <3>1 DEF SbomRecord
  <2>5. downloads \subseteq [key : Sboms!Keys, job : Sboms!Ids, kind : {"view", "export"}]
    BY <2>0, <2>1 DEF DownloadRecord
  <2>6. /\ sbomJob \in [Sboms!Ids -> {"unknown", "generating"} \cup Sboms!Terminal]
        /\ announced \in [Sboms!Ids -> 0 .. 2]
    BY <2>0, <2>1 DEF SbomStatus
  <2>7. sbomedImages \subseteq Images /\ stale \in BOOLEAN  BY DEF SbomRest
  <2> QED  BY <2>0, <2>1, <2>2, <2>3, <2>4, <2>5, <2>6, <2>7 DEF Sboms!SbomTypeOK
<1>2. Init => SbomIInv /\ SbomRest  BY SbomStarts, SbomRestStarts
<1>3. SbomIInv /\ SbomRest /\ [Next]_vars => (SbomIInv /\ SbomRest)'
  BY SbomIsKept, SbomRestIsKept
<1> QED  BY <1>1, <1>2, <1>3, PTL DEF Spec

-----------------------------------------------------------------------------
(* AuthSession.                                                            *)

\* A token is one that was issued, and a 401 is about one the server accepts
\* no longer.
VerifyInv ==
    /\ verify \in [pc : {"idle", "me", "login"}, token : 0 .. issued, answer : Session!Answers]
    /\ verify.pc = "me" =>
         /\ verify.answer # "404"
         /\ verify.answer = "401" => verify.token \notin accepted
CallInv(q) ==
    /\ q \in [pc : {"idle", "asking", "checking"}, token : 0 .. issued,
              answer : Session!Answers]
    /\ q.pc = "asking" /\ q.answer = "401" => q.token \notin accepted
SessionIInv ==
    /\ authOn \in BOOLEAN /\ issued \in 0 .. MaxTokens /\ accepted \subseteq 1 .. issued
    /\ storage \in 0 .. issued /\ token \in 0 .. issued /\ user \in 0 .. issued
    /\ isLoading \in BOOLEAN /\ isAuthEnabled \in BOOLEAN
    /\ path \in {"login", "page"}
    /\ VerifyInv
    /\ login \in [pc : {"idle", "asking", "done", "failed"}, token : 0 .. issued]
    /\ login.pc = "done" => login.token # 0
    /\ call \in [Calls -> [pc : {"idle", "asking", "checking"}, token : 0 .. issued,
                           answer : Session!Answers]]
    /\ \A c \in Calls : CallInv(call[c])

\* The pages run the session by its own steps.
LEMMA SessionRun == [Next]_vars => [Session!SessionNext]_sessionVars
<1>1. CASE Next
  BY <1>1 DEF Next
<1>2. CASE UNCHANGED vars
  BY <1>2 DEF vars
<1> QED  BY <1>1, <1>2

\* What the provider asks as it mounts.
LEMMA MountingAsks ==
  ASSUME NEW t \in 0 .. issued
  PROVE  /\ Session!Mounting(t) \in [pc : {"idle", "me", "login"}, token : 0 .. issued,
                                     answer : Session!Answers]
         /\ Session!Mounting(t).answer = "none"
BY DEF Session!Mounting, Session!Answers, Session!None

\* The page loads with a token that the server may have issued, or none.
LEMMA SessionStarts == Init => SessionIInv
<1> SUFFICES ASSUME Session!SessionInit PROVE SessionIInv
  BY DEF Init
<1> USE DEF Session!SessionInit
<1>1. issued \in 0 .. MaxTokens  BY BoundsAssumption
<1>2. storage \in 0 .. issued  BY DEF Session!None
<1>3. VerifyInv  BY <1>2, MountingAsks DEF VerifyInv
<1>4. /\ Session!NoCall \in [pc : {"idle", "asking", "checking"}, token : 0 .. issued,
                             answer : Session!Answers]
      /\ Session!NoCall.answer = "none"
  BY <1>1 DEF Session!NoCall, Session!Answers, Session!None
<1>5. \A c \in Calls : CallInv(call[c])  BY <1>4 DEF CallInv
<1>6. call \in [Calls -> [pc : {"idle", "asking", "checking"}, token : 0 .. issued,
                          answer : Session!Answers]]
  BY <1>4
<1>7. login \in [pc : {"idle", "asking", "done", "failed"}, token : 0 .. issued]
      /\ login.pc # "done"
  BY <1>1 DEF Session!None
<1>8. user \in 0 .. issued  BY <1>1 DEF Session!None
<1> QED  BY <1>1, <1>2, <1>3, <1>5, <1>6, <1>7, <1>8 DEF SessionIInv

\* Changing one request keeps what holds of the others.
LEMMA OneCallKeeps ==
  ASSUME SessionIInv, NEW c \in Calls, NEW q, CallInv(q),
         call' = [call EXCEPT ![c] = q], UNCHANGED <<issued, accepted>>
  PROVE  /\ call' \in [Calls -> [pc : {"idle", "asking", "checking"}, token : 0 .. issued,
                                 answer : Session!Answers]]
         /\ (\A d \in Calls : CallInv(call[d]))'
<1>1. q \in [pc : {"idle", "asking", "checking"}, token : 0 .. issued,
             answer : Session!Answers]
  BY DEF CallInv
<1>2. \A d \in Calls : call'[d] = IF d = c THEN q ELSE call[d]  BY DEF SessionIInv
<1>3. \A d \in Calls : CallInv(call'[d])  BY <1>2 DEF SessionIInv
<1>4. (\A d \in Calls : CallInv(call[d]))'  BY <1>3 DEF CallInv
<1> QED  BY <1>1, <1>4 DEF SessionIInv

\* No call is in order whatever is issued.
LEMMA NoCallIsInOrder == SessionIInv => CallInv(Session!NoCall)
                            /\ CallInv([Session!NoCall EXCEPT !.pc = "checking"])
BY DEF SessionIInv, CallInv, Session!NoCall, Session!Answers, Session!None

\* Every step of the session keeps the tokens in order.
LEMMA SessionIsKept == SessionIInv /\ [Next]_vars => SessionIInv'
<1> SUFFICES ASSUME SessionIInv, [Session!SessionNext]_sessionVars PROVE SessionIInv'
  BY SessionRun
<1> USE DEF Session!server, Session!context
<1>n. issued \in Nat /\ MaxTokens \in Nat  BY BoundsAssumption DEF SessionIInv
<1>1. ASSUME NEW t \in Session!Tokens, Session!Expire(t) PROVE SessionIInv'
  <2>1. accepted' \subseteq accepted
        /\ UNCHANGED <<authOn, issued, storage, token, user, isLoading, isAuthEnabled, path,
                       verify, login, call>>
    BY <1>1 DEF Session!Expire
  <2>2. VerifyInv'  BY <2>1 DEF SessionIInv, VerifyInv
  <2>3. (\A c \in Calls : CallInv(call[c]))'  BY <2>1 DEF SessionIInv, CallInv
  <2> QED  BY <2>1, <2>2, <2>3 DEF SessionIInv
<1>2. CASE Session!Configure
  BY <1>2 DEF Session!Configure, SessionIInv, VerifyInv, CallInv
<1>3. CASE Session!ServerVerifies
  <2>1. PICK a \in IF verify.pc = "me" THEN Session!MeAnswer(verify.token)
                   ELSE Session!LoginAnswer :
           verify' = [verify EXCEPT !.answer = a]
    BY <1>3 DEF Session!ServerVerifies
  <2>2. /\ a \in Session!Answers
        /\ verify.pc = "me" => a # "404" /\ (a = "401" => verify.token \notin accepted)
    BY <2>1 DEF Session!MeAnswer, Session!AnswerTo, Session!LoginAnswer, Session!Answers
  <2>3. /\ verify'.pc = verify.pc /\ verify'.token = verify.token /\ verify'.answer = a
        /\ verify' \in [pc : {"idle", "me", "login"}, token : 0 .. issued,
                        answer : Session!Answers]
    BY <2>1, <2>2 DEF SessionIInv, VerifyInv
  <2>4. UNCHANGED <<authOn, accepted, issued, storage, token, user, isLoading, isAuthEnabled,
                    path, login, call>>
    BY <1>3 DEF Session!ServerVerifies
  <2>5. VerifyInv'  BY <2>2, <2>3, <2>4 DEF VerifyInv
  <2>6. (\A c \in Calls : CallInv(call[c]))'  BY <2>4 DEF SessionIInv, CallInv
  <2> QED  BY <2>4, <2>5, <2>6 DEF SessionIInv
<1>4. CASE Session!VerifyArrives
  <2>1. UNCHANGED <<authOn, accepted, issued, path, login, call>>
        /\ verify' = Session!NoCall /\ isLoading' = FALSE
    BY <1>4 DEF Session!VerifyArrives
  <2>2. /\ storage' \in 0 .. issued /\ token' \in 0 .. issued /\ user' \in 0 .. issued
        /\ isAuthEnabled' \in BOOLEAN
    <3>1. CASE Session!Verified
      BY <3>1 DEF Session!Verified, SessionIInv, VerifyInv
    <3>2. CASE Session!NotVerified
      BY <1>n, <3>2 DEF Session!NotVerified, SessionIInv, Session!None
    <3>3. CASE Session!AuthEnabledChecked
      BY <3>3 DEF Session!AuthEnabledChecked, SessionIInv
    <3> QED  BY <1>4, <3>1, <3>2, <3>3 DEF Session!VerifyArrives
  <2>3. VerifyInv'
    BY <1>n, <2>1 DEF VerifyInv, Session!NoCall, Session!Answers, Session!None
  <2>4. (\A c \in Calls : CallInv(call[c]))'  BY <2>1 DEF SessionIInv, CallInv
  <2> QED  BY <2>1, <2>2, <2>3, <2>4 DEF SessionIInv
<1>5. CASE Session!Submit
  BY <1>n, <1>5 DEF Session!Submit, SessionIInv, VerifyInv, CallInv, Session!None
<1>6. CASE Session!ServerLogsIn
  <2>1. UNCHANGED <<authOn, storage, token, user, isLoading, isAuthEnabled, path, verify, call>>
    BY <1>6 DEF Session!ServerLogsIn
  <2>2. CASE login' = [pc |-> "failed", token |-> Session!None] /\ UNCHANGED Session!server
    BY <1>n, <2>1, <2>2 DEF SessionIInv, VerifyInv, CallInv, Session!None
  <2>3. CASE /\ issued < MaxTokens
             /\ issued' = issued + 1 /\ accepted' = accepted \cup {issued'}
             /\ login' = [pc |-> "done", token |-> issued']
    <3>1. issued' \in 0 .. MaxTokens /\ accepted' \subseteq 1 .. issued'
      BY <1>n, <2>3 DEF SessionIInv
    <3>2. 0 .. issued \subseteq 0 .. issued' /\ issued' # 0 /\ issued' \in 0 .. issued'
      BY <1>n, <2>3
    <3>3. \A t \in 0 .. issued : t \in accepted' => t \in accepted
      BY <1>n, <2>3
    <3>4. VerifyInv'
      <4>1. verify' \in [pc : {"idle", "me", "login"}, token : 0 .. issued',
                         answer : Session!Answers]
        BY <2>1, <3>2 DEF SessionIInv, VerifyInv
      <4>2. verify.token \in 0 .. issued  BY DEF SessionIInv, VerifyInv
      <4> QED  BY <2>1, <3>3, <4>1, <4>2 DEF SessionIInv, VerifyInv
    <3>5. (\A c \in Calls : CallInv(call[c]))'
      <4> SUFFICES ASSUME NEW c \in Calls PROVE CallInv(call[c])'
        OBVIOUS
      <4>1. CallInv(call[c])  BY DEF SessionIInv
      <4>2. call[c] \in [pc : {"idle", "asking", "checking"}, token : 0 .. issued',
                         answer : Session!Answers]
        BY <3>2, <4>1 DEF CallInv
      <4>3. call[c].token \in 0 .. issued  BY <4>1 DEF CallInv
      <4> QED  BY <2>1, <3>3, <4>1, <4>2, <4>3 DEF CallInv
    <3>6. call' \in [Calls -> [pc : {"idle", "asking", "checking"}, token : 0 .. issued',
                               answer : Session!Answers]]
      BY <2>1, <3>5 DEF CallInv, SessionIInv
    <3>7. login' \in [pc : {"idle", "asking", "done", "failed"}, token : 0 .. issued']
          /\ login'.token # 0
      BY <2>3, <3>2
    <3> QED  BY <2>1, <3>1, <3>2, <3>4, <3>5, <3>6, <3>7 DEF SessionIInv
  <2> QED  BY <1>6, <2>2, <2>3 DEF Session!ServerLogsIn
<1>7. CASE Session!LoginArrives \/ Session!LoginFails
  <2>1. CASE Session!LoginArrives
    BY <1>n, <2>1 DEF Session!LoginArrives, SessionIInv, VerifyInv, CallInv, Session!None
  <2>2. CASE Session!LoginFails
    BY <1>n, <2>2 DEF Session!LoginFails, SessionIInv, VerifyInv, CallInv, Session!None
  <2> QED  BY <1>7, <2>1, <2>2
<1>8. CASE Session!logout
  BY <1>n, <1>8 DEF Session!logout, SessionIInv, VerifyInv, CallInv, Session!None
<1>9. CASE Session!Navigate
  <2>1. path' \in {"login", "page"}  BY <1>9 DEF Session!Navigate
  <2> QED  BY <1>9, <2>1 DEF Session!Navigate, SessionIInv, VerifyInv, CallInv
<1>10. ASSUME NEW c \in Calls, NEW q, CallInv(q), call' = [call EXCEPT ![c] = q],
              UNCHANGED <<authOn, accepted, issued, token, user, isLoading, isAuthEnabled, path,
                          verify, login>>, storage' \in 0 .. issued
       PROVE  SessionIInv'
  <2>1. VerifyInv'  BY <1>10 DEF SessionIInv, VerifyInv
  <2>2. /\ call' \in [Calls -> [pc : {"idle", "asking", "checking"}, token : 0 .. issued,
                                answer : Session!Answers]]
        /\ (\A d \in Calls : CallInv(call[d]))'
    BY <1>10, OneCallKeeps
  <2> QED  BY <1>10, <2>1, <2>2 DEF SessionIInv
<1>11. ASSUME NEW c \in Calls, Session!Ask(c) PROVE SessionIInv'
  <2> DEFINE q == [pc |-> "asking", token |-> storage, answer |-> "none"]
  <2>1. CallInv(q)  BY DEF SessionIInv, CallInv, Session!Answers
  <2>2. call' = [call EXCEPT ![c] = q] /\ storage' \in 0 .. issued
        /\ UNCHANGED <<authOn, accepted, issued, token, user, isLoading, isAuthEnabled, path,
                       verify, login>>
    BY <1>11 DEF Session!Ask, SessionIInv
  <2> HIDE DEF q
  <2> QED  BY <1>10, <2>1, <2>2
<1>12. ASSUME NEW c \in Calls, Session!ServerAnswers(c) PROVE SessionIInv'
  <2>1. PICK a \in IF call[c].pc = "asking" THEN Session!AnswerTo(call[c].token)
                   ELSE Session!LoginAnswer :
           call' = [call EXCEPT ![c].answer = a]
    BY <1>12 DEF Session!ServerAnswers
  <2> DEFINE q == [call[c] EXCEPT !.answer = a]
  <2>2. /\ a \in Session!Answers
        /\ call[c].pc = "asking" /\ a = "401" => call[c].token \notin accepted
    BY <2>1 DEF Session!AnswerTo, Session!LoginAnswer, Session!Answers
  <2>3. CallInv(q)
    <3>1. CallInv(call[c])  BY DEF SessionIInv
    <3>2. q.pc = call[c].pc /\ q.token = call[c].token /\ q.answer = a  BY <3>1 DEF CallInv
    <3>3. q \in [pc : {"idle", "asking", "checking"}, token : 0 .. issued,
                 answer : Session!Answers]
      BY <2>2, <3>1 DEF CallInv
    <3> QED  BY <2>2, <3>2, <3>3 DEF CallInv
  <2>4. call' = [call EXCEPT ![c] = q]  BY <2>1 DEF SessionIInv
  <2>5. storage' \in 0 .. issued
        /\ UNCHANGED <<authOn, accepted, issued, token, user, isLoading, isAuthEnabled, path,
                       verify, login>>
    BY <1>12 DEF Session!ServerAnswers, SessionIInv
  <2> HIDE DEF q
  <2> QED  BY <1>10, <2>3, <2>4, <2>5
<1>13. ASSUME NEW c \in Calls, Session!Arrives(c) PROVE SessionIInv'
  <2>1. call' = [call EXCEPT ![c] = Session!NoCall] /\ storage' \in 0 .. issued
        /\ UNCHANGED <<authOn, accepted, issued, token, user, isLoading, isAuthEnabled, path,
                       verify, login>>
    BY <1>13 DEF Session!Arrives, SessionIInv
  <2> QED  BY <1>10, <2>1, NoCallIsInOrder
<1>14. ASSUME NEW c \in Calls, Session!Rejected(c) PROVE SessionIInv'
  <2> DEFINE q == [Session!NoCall EXCEPT !.pc = "checking"]
  <2>1. call' = [call EXCEPT ![c] = q] /\ storage' \in 0 .. issued
        /\ UNCHANGED <<authOn, accepted, issued, token, user, isLoading, isAuthEnabled, path,
                       verify, login>>
    BY <1>n, <1>14 DEF Session!Rejected, Session!None
  <2>2. CallInv(q)  BY NoCallIsInOrder
  <2> HIDE DEF q
  <2> QED  BY <1>10, <2>1, <2>2
<1>15. ASSUME NEW c \in Calls, Session!Checked(c) PROVE SessionIInv'
  <2>1. CASE Session!Reload
    <3>1. /\ UNCHANGED <<authOn, accepted, issued, storage>> /\ token' = storage /\ user' = 0
          /\ isLoading' = TRUE /\ isAuthEnabled' = TRUE /\ path' = "login"
          /\ login' = [pc |-> "idle", token |-> 0] /\ verify' = Session!Mounting(storage)
          /\ call' = [d \in Calls |-> Session!NoCall]
      BY <2>1 DEF Session!Reload, Session!None
    <3>2. VerifyInv'
      <4>1. storage \in 0 .. issued  BY DEF SessionIInv
      <4>2. /\ verify' \in [pc : {"idle", "me", "login"}, token : 0 .. issued,
                            answer : Session!Answers]
            /\ verify'.answer = "none"
        BY <3>1, <4>1, MountingAsks
      <4> QED  BY <3>1, <4>2 DEF VerifyInv
    <3>3. CallInv(Session!NoCall)  BY NoCallIsInOrder
    <3>4. (\A d \in Calls : CallInv(call[d]))'  BY <3>1, <3>3 DEF CallInv
    <3>5. call' \in [Calls -> [pc : {"idle", "asking", "checking"}, token : 0 .. issued,
                               answer : Session!Answers]]
      BY <3>1, <3>3 DEF CallInv
    <3> QED  BY <1>n, <3>1, <3>2, <3>4, <3>5 DEF SessionIInv
  <2>2. CASE /\ call' = [call EXCEPT ![c] = Session!NoCall]
             /\ UNCHANGED <<Session!server, storage, Session!context, path, verify, login>>
    <3>1. storage' \in 0 .. issued  BY <2>2 DEF SessionIInv
    <3> QED  BY <1>10, <2>2, <3>1, NoCallIsInOrder
  <2> QED  BY <1>15, <2>1, <2>2 DEF Session!Checked
<1>16. CASE UNCHANGED sessionVars
  BY <1>16 DEF sessionVars, SessionIInv, VerifyInv, CallInv
<1> QED
  BY <1>1, <1>2, <1>3, <1>4, <1>5, <1>6, <1>7, <1>8, <1>9, <1>11, <1>12, <1>13, <1>14, <1>15,
     <1>16 DEF Session!SessionNext

\* A token the server accepts is given up only by hand, for a new login's, for
\* an answer about an older one, or when it could not be verified.
LEMMA TokenIsKept ==
  SessionIInv /\ [Next]_vars =>
    [authOn /\ storage \in accepted /\ storage' # storage =>
          \/ path = "page" /\ path' = "login" /\ login = login'
          \/ storage' = login.token /\ storage' # Session!None
          \/ Session!Older
          \/ verify.pc = "me" /\ verify.answer \in {"500", "unreachable", "nobody"}]_
      Session!sessionVars
<1> SUFFICES ASSUME SessionIInv, Session!SessionNext, storage \in accepted,
                    storage' # storage
             PROVE  \/ path = "page" /\ path' = "login" /\ login = login'
                    \/ storage' = login.token /\ storage' # Session!None
                    \/ Session!Older
                    \/ /\ verify.pc = "me"
                       /\ verify.answer \in {"500", "unreachable", "nobody"}
  BY SessionRun DEF Session!sessionVars, sessionVars
<1>1. CASE Session!NotVerified
  <2>1. verify.pc = "me" /\ verify.answer \in {"404", "401", "nobody", "500", "unreachable"}
    BY <1>1 DEF Session!NotVerified, SessionIInv, VerifyInv, Session!Answers
  <2>2. verify.answer = "401" => verify.token # storage
    BY <2>1 DEF SessionIInv, VerifyInv
  <2> QED  BY <2>1, <2>2 DEF SessionIInv, VerifyInv, Session!Older
<1>2. CASE Session!LoginArrives
  BY <1>2 DEF Session!LoginArrives, SessionIInv, Session!None
<1>3. CASE Session!logout  BY <1>3 DEF Session!logout
<1>4. ASSUME NEW c \in Calls, Session!Rejected(c) PROVE Session!Older
  <2>1. CallInv(call[c])  BY DEF SessionIInv
  <2>2. call[c].pc = "asking" /\ call[c].token # storage
    BY <1>4, <2>1 DEF Session!Rejected, CallInv
  <2> QED  BY <2>2 DEF Session!Older
<1>5. \/ Session!NotVerified \/ Session!LoginArrives \/ Session!logout
      \/ \E c \in Calls : Session!Rejected(c)
  BY DEF Session!SessionNext, Session!Expire, Session!Configure, Session!ServerVerifies,
         Session!VerifyArrives, Session!Verified, Session!AuthEnabledChecked, Session!Submit,
         Session!ServerLogsIn, Session!LoginFails, Session!Navigate, Session!Ask,
         Session!ServerAnswers, Session!Arrives, Session!Checked, Session!Reload
<1> QED  BY <1>1, <1>2, <1>3, <1>4, <1>5

\* A token the server accepts is given up only by hand, for a new login's, for
\* an answer about an older one, or when it could not be verified (verifyToken
\* and authenticatedFetch); and what the session holds keeps its types.
THEOREM TokensStay == Spec => []Session!SessionTypeOK /\ Session!GoodTokensStay
<1>1. Init => SessionIInv  BY SessionStarts
<1>2. SessionIInv /\ [Next]_vars => SessionIInv'  BY SessionIsKept
<1>3. SessionIInv => Session!SessionTypeOK
  <2> SUFFICES ASSUME SessionIInv PROVE Session!SessionTypeOK
    OBVIOUS
  <2>1. 0 .. issued \subseteq Session!Tokens \cup {Session!None}
        /\ 1 .. issued \subseteq Session!Tokens
    BY BoundsAssumption DEF SessionIInv, Session!Tokens, Session!None
  <2>2. verify \in [pc : {"idle", "me", "login"}, token : Session!Tokens \cup {Session!None},
                    answer : Session!Answers]
    BY <2>1 DEF SessionIInv, VerifyInv
  <2>3. login \in [pc : {"idle", "asking", "done", "failed"},
                   token : Session!Tokens \cup {Session!None}]
    BY <2>1 DEF SessionIInv
  <2>4. call \in [Calls -> [pc : {"idle", "asking", "checking"},
                            token : Session!Tokens \cup {Session!None},
                            answer : Session!Answers]]
    BY <2>1 DEF SessionIInv
  <2> QED  BY <2>1, <2>2, <2>3, <2>4 DEF SessionIInv, Session!SessionTypeOK
<1> QED  BY <1>1, <1>2, <1>3, TokenIsKept, PTL DEF Spec, Session!GoodTokensStay
===============================================================================
