---------------------------- MODULE PagesProofs -----------------------------
(***************************************************************************)
(* Proofs about the tables and forms of MCPages, for any constants that    *)
(* satisfy the assumptions MCPages names, and, with those of PanelsProofs, *)
(* about the pages together: the two invariants of MCPages that conjoin    *)
(* those of the parts, what its steps must keep, and its types.  The       *)
(* inductive invariants:                                                   *)
(*                                                                         *)
(*   - ContainerActions.  A flow has a container to act on, and one that   *)
(*     stops or removes acts only on what was agreed to.                   *)
(*   - DashboardList.  What is ticked is on the page, and the page is one  *)
(*     the list has.                                                       *)
(*   - ProcessesPage.  Whatever is in the store or the file was asked for; *)
(*     what was promised is in both and what was removed in neither; a     *)
(*     walk finds only what a rule asked for names; and the list of rules  *)
(*     the page holds is the store's unless a success is still to be told. *)
(*   - ImagesPage.  While no removal or pull is still to be told, the      *)
(*     answer on its way, or else the one the page holds, is what the      *)
(*     hosts have.                                                         *)
(*   - HistoryPage, SbomHistory.  What was deleted is neither stored nor   *)
(*     in an answer that still counts.                                     *)
(*   - DatabasesPage.  After one round of effects the instance and the     *)
(*     database are settled, after two the table is; what is picked is     *)
(*     chosen and listed.                                                  *)
(*   - HostsEditor.  No two hosts of any list have one name, so that a     *)
(*     masked token stands for that of one host.                           *)
(*   - SettingsForms.  The query knows the server unless a save was not    *)
(*     yet told of; a draft not typed into is the answer's, or will be;    *)
(*     a save goes on with what was sent, whatever arrives meanwhile.      *)
(***************************************************************************)
EXTENDS PanelsProofs, FiniteSetTheorems

-----------------------------------------------------------------------------
(* ContainerActions.                                                       *)

\* What an instance counts is what is counted here.
LEMMA ActCounts == \A T : Actions!Cardinality(T) = Cardinality(T)
BY SMT DEF Actions!Cardinality, Cardinality

\* The number of a place in what a filter keeps is a number it kept.
LEMMA InOrderIsIn ==
  ASSUME NEW S \in SUBSET Nat, IsFiniteSet(S)
  PROVE  Actions!InOrder(S) \in [1 .. Cardinality(S) -> S]
<1>1. Actions!InOrder(S) =
        [n \in 1 .. Actions!Cardinality(S) |->
            CHOOSE i \in S : Actions!Cardinality({j \in S : j < i}) = n - 1]
  BY DEF Actions!InOrder
<1>2. Actions!InOrder(S) = Ordered(S)  BY <1>1, ActCounts DEF Ordered
<1> QED  BY <1>2, OrderedIsIn

ActIds == {"a", "b", "a2"}

\* A flow has a container to act on, and one that stops or removes acts on
\* what was agreed to.
AgreedFlows ==
    {f \in Actions!Flow :
        /\ f.todo # << >>
        /\ f.type \in Actions!Confirmed =>
             \A i \in DOMAIN f.todo : <<f.type, f.todo[i]>> \in agreed}

ActIInv == Actions!ActionsTypeOK /\ flows \in Seq(AgreedFlows)

\* The pages run the dashboard's actions by their own steps.
LEMMA ActRun == [Next]_vars => [Actions!ActionsNext]_actVars
<1>1. CASE Next
  BY <1>1 DEF Next
<1>2. CASE UNCHANGED vars
  BY <1>2 DEF vars
<1> QED  BY <1>1, <1>2

\* The dashboard starts with nothing under way.
LEMMA ActStarts == Init => ActIInv
<1> SUFFICES ASSUME Actions!ActionsInit PROVE ActIInv
  BY DEF Init
<1> USE DEF Actions!ActionsInit
<1>1. flows \in Seq(Actions!Flow) /\ flows \in Seq(AgreedFlows)  OBVIOUS
<1>2. MaxClicks \in Nat  BY BoundsAssumption
<1>3. ActIds \ {Replacements[i] : i \in DOMAIN Replacements} \in SUBSET ActIds  OBVIOUS
<1>4. \E ids \in SUBSET ActIds : server \in [ids -> Actions!States]
  BY <1>3 DEF ActIds
<1>41. \E ids \in SUBSET ActIds : rows \in [ids -> Actions!States]  BY <1>4
<1>5. Actions!ActionsTypeOK
  <2>1. clicks \in 0 .. MaxClicks  BY <1>2
  <2>2. agreed \subseteq Actions!Confirmed \X ActIds /\ chosen \subseteq ActIds  OBVIOUS
  <2> QED  BY <1>1, <1>4, <1>41, <2>1, <2>2, Zenon DEF Actions!ActionsTypeOK, ActIds
<1> QED  BY <1>1, <1>5 DEF ActIInv

\* What can be acted on is some of what was given.
LEMMA ActionableIsGiven ==
  ASSUME NEW s \in Seq(ActIds)
  PROVE  /\ Actions!Actionable(s) \in Seq(ActIds)
         /\ \A i \in DOMAIN Actions!Actionable(s) :
               \E j \in DOMAIN s : Actions!Actionable(s)[i] = s[j]
<1> DEFINE kept == {i \in DOMAIN s : s[i] \in ActIds}
<1>1. kept \in SUBSET (1 .. Len(s)) /\ Len(s) \in Nat  OBVIOUS
<1>2. IsFiniteSet(kept) /\ kept \in SUBSET Nat
  <2>1. IsFiniteSet(1 .. Len(s))  BY <1>1, FS_Interval
  <2>2. kept \in SUBSET Nat  BY <1>1
  <2> HIDE DEF kept
  <2> QED  BY <1>1, <2>1, <2>2, FS_Subset
<1>3. Cardinality(kept) \in Nat  BY <1>2, FS_CardinalityType
<1>4. Actions!InOrder(kept) \in [1 .. Cardinality(kept) -> kept]
  <2> HIDE DEF kept
  <2> QED  BY <1>2, InOrderIsIn
<1>5. Actions!Actionable(s) = [n \in 1 .. Cardinality(kept) |-> s[Actions!InOrder(kept)[n]]]
  <2>1. Actions!Actionable(s) =
          [n \in DOMAIN Actions!InOrder(kept) |-> s[Actions!InOrder(kept)[n]]]
    BY DEF Actions!Actionable, ActIds
  <2>2. DOMAIN Actions!InOrder(kept) = 1 .. Cardinality(kept)  BY <1>4
  <2> HIDE DEF kept
  <2> QED  BY <2>1, <2>2
<1>6. \A n \in 1 .. Cardinality(kept) : Actions!InOrder(kept)[n] \in kept  BY <1>4
<1>7. \A i \in kept : i \in DOMAIN s /\ s[i] \in ActIds  OBVIOUS
<1> HIDE DEF kept
<1> QED  BY <1>3, <1>5, <1>6, <1>7

\* A sequence without one of its elements.
LEMMA SeqWithout ==
  ASSUME NEW T, NEW s \in Seq(T), NEW i \in DOMAIN s
  PROVE  SubSeq(s, 1, i - 1) \o SubSeq(s, i + 1, Len(s)) \in Seq(T)
<1>1. SubSeq(s, 1, i - 1) \in Seq(T) /\ SubSeq(s, i + 1, Len(s)) \in Seq(T)
  OBVIOUS
<1> QED  BY <1>1

\* The containers of a batch, in some order.
LEMMA ActOrders ==
  ASSUME NEW S \in SUBSET ActIds
  PROVE  Actions!InSomeOrder(S) \in Seq(ActIds) /\ (S = {} => Actions!InSomeOrder(S) = << >>)
<1>1. IsFiniteSet(ActIds)
  <2>1. IsFiniteSet({"a"}) /\ IsFiniteSet({"b"}) /\ IsFiniteSet({"a2"})  BY FS_Singleton
  <2>2. IsFiniteSet(({"a"} \cup {"b"}) \cup {"a2"})
    <3>1. IsFiniteSet({"a"} \cup {"b"})  BY <2>1, FS_Union
    <3> QED  BY <2>1, <3>1, FS_Union
  <2>3. ActIds = ({"a"} \cup {"b"}) \cup {"a2"}  BY DEF ActIds
  <2> QED  BY <2>2, <2>3
<1>2. IsFiniteSet(S)  BY <1>1, FS_Subset
<1>3. Cardinality(S) \in Nat  BY <1>2, FS_CardinalityType
<1>4. PICK f : f \in Bijection(1 .. Cardinality(S), S)
  BY <1>2, <1>3, FS_NatBijection, FS_CardinalityType, Zenon DEF ExistsBijection
<1>5. /\ f \in [1 .. Cardinality(S) -> S]
      /\ \A i, j \in DOMAIN f : f[i] = f[j] => i = j
  BY <1>4 DEF Bijection, Injection, IsInjective
<1>6. Actions!InSomeOrder(S) \in [1 .. Cardinality(S) -> S]
  BY <1>5, ActCounts, Zenon DEF Actions!InSomeOrder
<1>7. S = {} => Cardinality(S) = 0  BY FS_EmptySet
<1> QED  BY <1>3, <1>6, <1>7

\* A flow begins with what was agreed to, or does not begin.
LEMMA BeginKeeps ==
  ASSUME ActIInv, NEW type \in Actions!Types, NEW s \in Seq(ActIds),
         NEW confirm \in BOOLEAN, NEW clear \in BOOLEAN,
         Actions!Begin(type, s, confirm, clear), agreed \subseteq agreed',
         type \in Actions!Confirmed => \A i \in DOMAIN s : <<type, s[i]>> \in agreed'
  PROVE  /\ chosen' \subseteq ActIds /\ pendingAction' \in {Absent} \cup Actions!Pending
         /\ flows' \in Seq(Actions!Flow) /\ flows' \in Seq(AgreedFlows')
<1> DEFINE todo == Actions!Actionable(s)
           new == [type |-> type, todo |-> todo, at |-> "asking",
                   confirm |-> confirm, clear |-> clear]
<1>1. /\ todo \in Seq(ActIds)
      /\ \A i \in DOMAIN todo : \E j \in DOMAIN s : todo[i] = s[j]
  BY ActionableIsGiven
<1>2. flows \in Seq(AgreedFlows')
  <2>1. AgreedFlows \subseteq AgreedFlows'  BY DEF AgreedFlows
  <2> QED  BY <2>1 DEF ActIInv
<1>t. /\ flows \in Seq(Actions!Flow) /\ chosen \subseteq ActIds
      /\ pendingAction \in {Absent} \cup Actions!Pending
  BY DEF ActIInv, Actions!ActionsTypeOK, ActIds
<1>3. CASE todo = << >>
  BY <1>2, <1>3, <1>t DEF Actions!Begin
<1>4. CASE todo # << >>
  <2>1. Head(todo) \in ActIds  BY <1>1, <1>4
  <2>2. new \in Actions!Flow  BY <1>1 DEF Actions!Flow, ActIds
  <2>3. \A i \in DOMAIN todo : type \in Actions!Confirmed => <<type, todo[i]>> \in agreed'
    BY <1>1
  <2>4. new \in AgreedFlows'  BY <1>4, <2>2, <2>3 DEF AgreedFlows
  <2>5. /\ flows' = Append(flows, new) /\ pendingAction' = [id |-> Head(todo), type |-> type]
        /\ chosen' = chosen
    BY <1>4 DEF Actions!Begin
  <2>6. pendingAction' \in Actions!Pending  BY <2>1, <2>5 DEF Actions!Pending, ActIds
  <2> HIDE DEF new, todo
  <2> QED  BY <1>2, <1>t, <2>2, <2>4, <2>5, <2>6
<1> QED  BY <1>3, <1>4

\* A flow goes on with what is left of it, or is through.
LEMMA AdvanceKeeps ==
  ASSUME ActIInv, NEW f \in DOMAIN flows, NEW kept \in SUBSET ActIds,
         Actions!Advance(f, kept), agreed' = agreed
  PROVE  /\ chosen' \subseteq ActIds /\ pendingAction' \in {Absent} \cup Actions!Pending
         /\ confirmAction' \in {confirmAction, Absent}
         /\ flows' \in Seq(Actions!Flow) /\ flows' \in Seq(AgreedFlows')
<1> DEFINE rest == Tail(flows[f].todo)
           next == [flows[f] EXCEPT !.todo = rest, !.at = "asking"]
<1>1. flows \in Seq(AgreedFlows) /\ AgreedFlows' = AgreedFlows
  BY DEF ActIInv, AgreedFlows
<1>2. flows[f] \in AgreedFlows  BY <1>1
<1>3. AgreedFlows \subseteq Actions!Flow  BY DEF AgreedFlows
<1>4. /\ flows[f].todo \in Seq(ActIds) /\ flows[f].todo # << >>
      /\ flows[f].type \in Actions!Types
  BY <1>2, <1>3 DEF AgreedFlows, Actions!Flow, ActIds
<1>5. CASE rest = << >>
  <2>1. flows' = SubSeq(flows, 1, f - 1) \o SubSeq(flows, f + 1, Len(flows))
    BY <1>5 DEF Actions!Advance
  <2>2. flows' \in Seq(AgreedFlows)  BY <1>1, <2>1, SeqWithout
  <2> QED  BY <1>1, <1>3, <1>5, <2>2 DEF Actions!Advance
<1>6. CASE rest # << >>
  <2>1. rest \in Seq(ActIds) /\ Head(rest) \in ActIds  BY <1>4, <1>6
  <2>2. \A i \in DOMAIN rest : i + 1 \in DOMAIN flows[f].todo
                               /\ rest[i] = flows[f].todo[i + 1]
    BY <1>4
  <2>3. next \in Actions!Flow  BY <1>2, <1>3, <2>1 DEF Actions!Flow, ActIds
  <2>4. next.todo = rest /\ next.type = flows[f].type
    BY <1>2, <1>3 DEF Actions!Flow
  <2>5. next \in AgreedFlows
    <3>1. ASSUME flows[f].type \in Actions!Confirmed, NEW i \in DOMAIN rest
          PROVE  <<flows[f].type, rest[i]>> \in agreed
      BY <1>2, <2>2, <3>1 DEF AgreedFlows
    <3> HIDE DEF next, rest
    <3> QED  BY <1>6, <2>3, <2>4, <3>1 DEF AgreedFlows
  <2>6. /\ flows' = [flows EXCEPT ![f] = next] /\ chosen' = kept
        /\ pendingAction' = [id |-> Head(rest), type |-> flows[f].type]
        /\ confirmAction' = confirmAction
    BY <1>6 DEF Actions!Advance
  <2>7. flows' \in Seq(AgreedFlows)
    <3> HIDE DEF next
    <3> QED  BY <1>1, <2>5, <2>6
  <2>8. pendingAction' \in Actions!Pending
    BY <1>4, <2>1, <2>6 DEF Actions!Pending, ActIds
  <2>9. flows' \in Seq(Actions!Flow)  BY <1>3, <2>7
  <2> QED  BY <1>1, <2>6, <2>7, <2>8, <2>9
<1> QED  BY <1>5, <1>6

\* Every step of the dashboard keeps what its flows act on agreed to.
LEMMA ActIsKept == ActIInv /\ [Next]_vars => ActIInv'
<1> SUFFICES ASSUME ActIInv, [Next]_vars PROVE ActIInv'
  OBVIOUS
<1> USE DEF Actions!Click, Actions!PageIsFree
<1>0. [Actions!ActionsNext]_actVars  BY ActRun
<1>t. /\ flows \in Seq(Actions!Flow) /\ chosen \subseteq ActIds
      /\ pendingAction \in {Absent} \cup Actions!Pending
      /\ confirmAction = Absent \/ confirmAction \in Actions!Question
      /\ agreed \subseteq Actions!Confirmed \X ActIds
      /\ logsOf \in ActIds \cup {Absent} /\ saving \in ActIds \cup {Absent}
      /\ clicks \in 0 .. MaxClicks
  BY DEF ActIInv, Actions!ActionsTypeOK, ActIds
<1>s. PICK ids \in SUBSET ActIds : server \in [ids -> Actions!States]
  BY Zenon DEF ActIInv, Actions!ActionsTypeOK, ActIds
<1>r. PICK known \in SUBSET ActIds : rows \in [known -> Actions!States]
  BY Zenon DEF ActIInv, Actions!ActionsTypeOK, ActIds
<1>b. MaxClicks \in Nat  BY BoundsAssumption
<1>d. DOMAIN server \subseteq ActIds /\ DOMAIN rows \subseteq ActIds  BY <1>s, <1>r
<1>q. ASSUME NEW type \in Actions!Types, NEW s \in Seq(ActIds), NEW clear \in BOOLEAN,
             type \in Actions!Confirmed
      PROVE  [type |-> type, containers |-> s, clear |-> clear] \in Actions!Question
  BY <1>q DEF Actions!Question, ActIds
<1>f. ASSUME server' = server \/ (\E new \in SUBSET ActIds : server' \in [new -> Actions!States]),
             rows' \in {rows, server, server'},
             chosen' \subseteq ActIds, pendingAction' \in {Absent} \cup Actions!Pending,
             confirmAction' = Absent \/ confirmAction' \in Actions!Question,
             flows' \in Seq(Actions!Flow), flows' \in Seq(AgreedFlows'),
             agreed' \subseteq Actions!Confirmed \X ActIds,
             logsOf' \in ActIds \cup {Absent}, saving' \in ActIds \cup {Absent},
             clicks' \in 0 .. MaxClicks
      PROVE  ActIInv'
  <2>1. \E new \in SUBSET ActIds : server' \in [new -> Actions!States]  BY <1>f, <1>s, Zenon
  <2>2. \E new \in SUBSET ActIds : rows' \in [new -> Actions!States]
    BY <1>f, <1>s, <1>r, <2>1, Zenon
  <2> QED  BY <1>f, <2>1, <2>2, Zenon DEF ActIInv, Actions!ActionsTypeOK, ActIds
<1>a. ASSUME UNCHANGED <<flows, agreed>>
      PROVE  flows' \in Seq(Actions!Flow) /\ flows' \in Seq(AgreedFlows')
  BY <1>a, <1>t DEF ActIInv, AgreedFlows
<1>1. ASSUME NEW id \in ActIds, Actions!Tick(id) PROVE ActIInv'
  BY <1>1, <1>t, <1>a, <1>f DEF Actions!Tick
<1>2. ASSUME NEW id \in ActIds, Actions!ViewLogs(id) PROVE ActIInv'
  BY <1>2, <1>t, <1>b, <1>a, <1>f DEF Actions!ViewLogs
<1>3. ASSUME NEW id \in ActIds, NEW type \in Actions!Types, Actions!ActOnRow(type, id)
      PROVE  ActIInv'
  <2>1. <<id>> \in Seq(ActIds) /\ type \notin Actions!Confirmed
    BY <1>3 DEF Actions!ActOnRow, Actions!Confirmed
  <2>2. /\ chosen' \subseteq ActIds /\ pendingAction' \in {Absent} \cup Actions!Pending
        /\ flows' \in Seq(Actions!Flow) /\ flows' \in Seq(AgreedFlows')
    BY <1>3, <2>1, BeginKeeps DEF Actions!ActOnRow
  <2> QED  BY <1>3, <1>t, <1>b, <1>f, <2>2 DEF Actions!ActOnRow
<1>4. ASSUME NEW id \in ActIds, NEW type \in Actions!Types, Actions!AskForRow(type, id)
      PROVE  ActIInv'
  <2>1. <<id>> \in Seq(ActIds) /\ type \in Actions!Confirmed
    BY <1>4 DEF Actions!AskForRow
  <2>2. confirmAction' \in Actions!Question  BY <1>4, <1>q, <2>1 DEF Actions!AskForRow
  <2> QED  BY <1>4, <1>t, <1>b, <1>a, <1>f, <2>2 DEF Actions!AskForRow
<1>5. ASSUME NEW type \in Actions!Types, Actions!BatchAction(type) PROVE ActIInv'
  <2> DEFINE containers == Actions!InSomeOrder(chosen \cap DOMAIN rows)
  <2>1. containers \in Seq(ActIds)  BY <1>t, ActOrders
  <2>2. CASE type \in Actions!Confirmed /\ containers # << >>
    <3>1. /\ confirmAction' = [type |-> type, containers |-> containers, clear |-> TRUE]
          /\ UNCHANGED <<chosen, pendingAction, flows>>
      BY <1>5, <2>2 DEF Actions!BatchAction
    <3>2. confirmAction' \in Actions!Question
      <4> HIDE DEF containers
      <4> QED  BY <1>q, <2>1, <2>2, <3>1
    <3> QED  BY <1>5, <1>t, <1>b, <1>a, <1>f, <3>1, <3>2 DEF Actions!BatchAction
  <2>3. CASE ~(type \in Actions!Confirmed /\ containers # << >>)
    <3>1. Actions!Begin(type, containers, FALSE, TRUE) /\ confirmAction' = confirmAction
      BY <1>5, <2>3 DEF Actions!BatchAction
    <3>2. agreed' = agreed  BY <1>5 DEF Actions!BatchAction
    <3>3. /\ chosen' \subseteq ActIds /\ pendingAction' \in {Absent} \cup Actions!Pending
          /\ flows' \in Seq(Actions!Flow) /\ flows' \in Seq(AgreedFlows')
      <4>1. type \in Actions!Confirmed =>
              \A i \in DOMAIN containers : <<type, containers[i]>> \in agreed'
        BY <2>3
      <4> HIDE DEF containers
      <4> QED  BY <2>1, <3>1, <3>2, <4>1, BeginKeeps
    <3> QED  BY <1>5, <1>t, <1>b, <1>f, <3>1, <3>3 DEF Actions!BatchAction
  <2> QED  BY <2>2, <2>3
<1>6. CASE Actions!Confirm
  <2> DEFINE type == confirmAction.type
             s == confirmAction.containers
  <2>1. /\ type \in Actions!Types /\ type \in Actions!Confirmed /\ s \in Seq(ActIds)
        /\ confirmAction.clear \in BOOLEAN
    BY <1>6, <1>t
    DEF Actions!Confirm, Actions!Question, Actions!Confirmed, Actions!Types, ActIds
  <2>2. agreed' = agreed \cup {<<type, s[i]>> : i \in DOMAIN s}  BY <1>6 DEF Actions!Confirm
  <2>3. \A i \in DOMAIN s : <<type, s[i]>> \in agreed'  BY <2>2
  <2>4. agreed' \subseteq Actions!Confirmed \X ActIds
    <3>1. \A i \in DOMAIN s : s[i] \in ActIds  BY <2>1
    <3> HIDE DEF s, type
    <3> QED  BY <1>t, <2>1, <2>2, <3>1
  <2>5. Actions!Begin(type, s, TRUE, confirmAction.clear)  BY <1>6 DEF Actions!Confirm
  <2>6. /\ chosen' \subseteq ActIds /\ pendingAction' \in {Absent} \cup Actions!Pending
        /\ flows' \in Seq(Actions!Flow) /\ flows' \in Seq(AgreedFlows')
    <3>1. agreed \subseteq agreed'  BY <2>2
    <3> HIDE DEF s, type
    <3> QED  BY <2>1, <2>3, <2>5, <3>1, BeginKeeps
  <2> QED  BY <1>6, <1>t, <1>f, <2>4, <2>6 DEF Actions!Confirm
<1>7. CASE Actions!CancelConfirm
  BY <1>7, <1>t, <1>a, <1>f DEF Actions!CancelConfirm
<1>8. ASSUME NEW f \in DOMAIN flows, NEW ok \in BOOLEAN, Actions!Answered(f, ok) PROVE ActIInv'
  <2> DEFINE id == Head(flows[f].todo)
  <2>1. CASE ok /\ id \in DOMAIN server
    <3>1. /\ server' = Actions!Effect(flows[f].type, id)
          /\ flows' = [flows EXCEPT ![f].at = "refetching"]
          /\ UNCHANGED <<chosen, pendingAction, confirmAction, rows, agreed, logsOf, saving,
                         clicks>>
      BY <1>8, <2>1 DEF Actions!Answered
    <3>2. \E new \in SUBSET ActIds : server' \in [new -> Actions!States]
      <4>1. CASE server' = [i \in DOMAIN server \ {id} |-> server[i]]
        <5>1. ids \ {id} \in SUBSET ActIds /\ server' \in [ids \ {id} -> Actions!States]
          BY <1>s, <4>1
        <5> QED  BY <5>1
      <4>2. CASE \E to \in Actions!States : server' = [server EXCEPT ![id] = to]
        <5>1. server' \in [ids -> Actions!States]  BY <1>s, <4>2
        <5> QED  BY <5>1
      <4>3. \/ server' = [i \in DOMAIN server \ {id} |-> server[i]]
            \/ \E to \in Actions!States : server' = [server EXCEPT ![id] = to]
        BY <2>1, <3>1 DEF Actions!Effect, Actions!States
      <4> QED  BY <4>1, <4>2, <4>3
    <3>3. flows[f] \in AgreedFlows /\ flows[f] \in Actions!Flow
      BY DEF ActIInv, AgreedFlows
    <3>4. [flows[f] EXCEPT !.at = "refetching"] \in AgreedFlows
      BY <3>3 DEF AgreedFlows, Actions!Flow
    <3>5. flows' \in Seq(AgreedFlows)
      <4> DEFINE next == [flows[f] EXCEPT !.at = "refetching"]
      <4>1. flows' = [flows EXCEPT ![f] = next]  BY <3>1
      <4> HIDE DEF next
      <4> QED  BY <3>4, <4>1 DEF ActIInv, next
    <3>6. flows' \in Seq(AgreedFlows') /\ flows' \in Seq(Actions!Flow)
      <4>1. AgreedFlows' = AgreedFlows /\ AgreedFlows \subseteq Actions!Flow
        BY <3>1 DEF AgreedFlows
      <4> QED  BY <3>5, <4>1
    <3> QED  BY <3>1, <3>2, <3>6, <1>t, <1>f
  <2>2. CASE ~(ok /\ id \in DOMAIN server)
    <3>1. Actions!Advance(f, chosen) /\ UNCHANGED <<server, rows, agreed, logsOf, saving, clicks>>
      BY <1>8, <2>2 DEF Actions!Answered
    <3>2. /\ chosen' \subseteq ActIds /\ pendingAction' \in {Absent} \cup Actions!Pending
          /\ confirmAction' \in {confirmAction, Absent}
          /\ flows' \in Seq(Actions!Flow) /\ flows' \in Seq(AgreedFlows')
      BY <1>t, <3>1, AdvanceKeeps
    <3> QED  BY <1>t, <1>f, <3>1, <3>2
  <2> QED  BY <2>1, <2>2
<1>9. ASSUME NEW f \in DOMAIN flows, NEW ok \in BOOLEAN, Actions!Refetched(f, ok) PROVE ActIInv'
  <2>1. /\ rows' \in {rows, server} /\ Actions!Advance(f, chosen \cap DOMAIN rows')
        /\ UNCHANGED <<server, agreed, logsOf, saving, clicks>>
    BY <1>9 DEF Actions!Refetched
  <2>2. /\ chosen' \subseteq ActIds /\ pendingAction' \in {Absent} \cup Actions!Pending
        /\ confirmAction' \in {confirmAction, Absent}
        /\ flows' \in Seq(Actions!Flow) /\ flows' \in Seq(AgreedFlows')
    <3>1. chosen \cap DOMAIN rows' \in SUBSET ActIds  BY <1>t
    <3> QED  BY <2>1, <3>1, AdvanceKeeps
  <2> QED  BY <1>t, <1>f, <2>1, <2>2
<1>10. CASE Actions!Refocus
  BY <1>10, <1>t, <1>a, <1>f DEF Actions!Refocus
<1>11. CASE Actions!CloseLogs
  BY <1>11, <1>t, <1>a, <1>f DEF Actions!CloseLogs
<1>12. CASE Actions!SaveEnv
  <2> DEFINE new == Replacements[logsOf]
             now == (ids \ {logsOf}) \cup {new}
  <2>1. logsOf = "a" /\ new = "a2"  BY <1>12 DEF Actions!SaveEnv, Replacements
  <2>2. now \in SUBSET ActIds  BY <2>1 DEF ActIds
  <2>3. server' = [i \in now |-> IF i = new THEN server[logsOf] ELSE server[i]]
    BY <1>12, <1>s DEF Actions!SaveEnv
  <2>4. server' \in [now -> Actions!States]
    <3>1. logsOf \in ids  BY <1>12, <1>s DEF Actions!SaveEnv
    <3> QED  BY <1>s, <2>3, <3>1
  <2>5. \E n \in SUBSET ActIds : server' \in [n -> Actions!States]  BY <2>2, <2>4, Zenon
  <2>6. saving' \in ActIds /\ UNCHANGED <<rows, chosen, pendingAction, confirmAction, flows,
                                          agreed, logsOf, clicks>>
    BY <1>12, <2>1 DEF Actions!SaveEnv, ActIds
  <2> QED  BY <1>t, <1>a, <1>f, <2>5, <2>6
<1>13. ASSUME NEW ok \in BOOLEAN, Actions!HandleContainerRecreated(ok) PROVE ActIInv'
  <2>1. rows' \in {rows, server} /\ chosen' \subseteq ActIds
        /\ UNCHANGED <<server, pendingAction, confirmAction, flows, agreed, clicks>>
    BY <1>13, <1>t DEF Actions!HandleContainerRecreated
  <2>2. saving' = Absent /\ logsOf' \in ActIds \cup {Absent}
    BY <1>13, <1>t, <1>d, <2>1 DEF Actions!HandleContainerRecreated
  <2> QED  BY <1>t, <1>a, <1>f, <2>1, <2>2
<1>14. CASE UNCHANGED actVars
  BY <1>14, <1>t, <1>a, <1>f DEF actVars
<1> QED
  BY <1>0, <1>1, <1>2, <1>3, <1>4, <1>5, <1>6, <1>7, <1>8, <1>9, <1>10, <1>11, <1>12, <1>13, <1>14
  DEF Actions!ActionsNext, ActIds

\* A container is stopped or removed only by a flow that the user agreed to in
\* a dialog that named it (containers-dashboard.tsx:421-432, 566-589).
THEOREM StopsAreAgreed == Spec => []Actions!OnlyAgreedIsStopped
<1>1. Init => ActIInv  BY ActStarts
<1>2. ActIInv /\ [Next]_vars => ActIInv'  BY ActIsKept
<1>3. ActIInv => Actions!OnlyAgreedIsStopped
  <2> SUFFICES ASSUME ActIInv, NEW f \in DOMAIN flows PROVE flows[f] \in AgreedFlows
    BY DEF Actions!OnlyAgreedIsStopped, AgreedFlows
  <2> QED  BY DEF ActIInv
<1> QED  BY <1>1, <1>2, <1>3, PTL DEF Spec

-----------------------------------------------------------------------------
(* DashboardList.                                                          *)

\* What is ticked is on the page, and the page is one the list has.
ListIInv ==
    /\ List!ListTypeOK
    /\ params.page <= List!TotalPages(listing, params)
    /\ selected \subseteq List!PageItems(listing, params)

\* The pages run the list by its own steps.
LEMMA ListRun == [Next]_vars => [List!ListNext]_listVars
<1>1. CASE Next
  BY <1>1 DEF Next
<1>2. CASE UNCHANGED vars
  BY <1>2 DEF vars
<1> QED  BY <1>1, <1>2

\* What an instance counts is what is counted here.
LEMMA ListCounts == \A T : List!Cardinality(T) = Cardinality(T)
BY SMT DEF List!Cardinality, Cardinality

\* There are finitely many containers.
LEMMA ListedIsFinite == \A S \in SUBSET Listed : IsFiniteSet(S)
<1>1. IsFiniteSet({"a"}) /\ IsFiniteSet({"b"}) /\ IsFiniteSet({"c"})  BY FS_Singleton
<1>2. IsFiniteSet({"a"} \cup {"b"})  BY <1>1, FS_Union
<1>3. IsFiniteSet(({"a"} \cup {"b"}) \cup {"c"})  BY <1>1, <1>2, FS_Union
<1>4. Listed = ({"a"} \cup {"b"}) \cup {"c"}  BY DEF Listed
<1> QED  BY <1>3, <1>4, FS_Subset

ListStates == {"running", "exited"}

\* A render moves the page into the list and drops from the ticked rows what
\* is not on it.
LEMMA RenderKeeps ==
  ASSUME NEW ids \in SUBSET Listed, NEW list \in [ids -> ListStates],
         NEW p \in List!Params, NEW ticked, ticked \subseteq Listed,
         List!Render(list, p, ticked)
  PROVE  ListIInv'
<1> DEFINE moved == List!Shortened(list, p)
<1>1. listing' = list /\ params' = moved
      /\ selected' = List!OnPage(list, moved, List!OnPage(list, p, ticked))
  BY DEF List!Render
<1>2. IsFiniteSet(List!Passing(list, p)) /\ Cardinality(List!Passing(list, p)) \in Nat
  <2>1. List!Passing(list, p) \in SUBSET Listed  BY DEF List!Passing
  <2> QED  BY <2>1, ListedIsFinite, FS_CardinalityType
<1>3. p.page \in Int /\ p.pageSize \in Nat \ {0}  BY PagesAssumption DEF List!Params
<1>4. List!TotalPages(list, p) \in Int
  <2> DEFINE n == Cardinality(List!Passing(list, p))
  <2>1. n \in Nat  BY <1>2
  <2>2. List!TotalPages(list, p) = IF n = 0 THEN 1 ELSE (n + p.pageSize - 1) \div p.pageSize
    BY ListCounts DEF List!TotalPages
  <2> HIDE DEF n
  <2> QED  BY <1>3, <2>1, <2>2
<1>m. \E n \in Int : n <= List!TotalPages(list, p) /\ moved = [p EXCEPT !.page = n]
  <2>1. CASE p.page > List!TotalPages(list, p)
    BY <1>4, <2>1 DEF List!Shortened
  <2>2. CASE ~(p.page > List!TotalPages(list, p))
    <3>1. moved = [p EXCEPT !.page = p.page]  BY <2>2 DEF List!Shortened
    <3> QED  BY <1>3, <1>4, <2>2, <3>1
  <2> QED  BY <2>1, <2>2
<1>5. moved \in List!Params /\ moved.pageSize = p.pageSize
      /\ List!Passing(list, moved) = List!Passing(list, p)
  <2>2. /\ moved \in List!Params
        /\ moved.pageSize = p.pageSize /\ moved.search = p.search /\ moved.host = p.host
        /\ moved.dates = p.dates /\ moved.state = p.state
    BY <1>m DEF List!Params
  <2>3. \A c : List!Matches(list, moved, c, TRUE) <=> List!Matches(list, p, c, TRUE)
    BY <2>2 DEF List!Matches
  <2> HIDE DEF moved
  <2> QED  BY <2>2, <2>3 DEF List!Passing
<1>6. List!TotalPages(list, moved) = List!TotalPages(list, p)
  BY <1>5 DEF List!TotalPages
<1>7. moved.page <= List!TotalPages(list, moved)
  <2>1. \A n \in Int : [p EXCEPT !.page = n].page = n  BY DEF List!Params
  <2> HIDE DEF moved
  <2> QED  BY <1>m, <1>6, <2>1
<1>8. selected' \subseteq List!PageItems(list, moved) /\ selected' \subseteq Listed
  BY <1>1 DEF List!OnPage
<1>9. List!ListTypeOK'
  <2>1. \E t \in SUBSET Listed : listing' \in [t -> ListStates]  BY <1>1
  <2> QED  BY <1>1, <1>5, <1>8, <2>1 DEF List!ListTypeOK, ListStates
<1> QED  BY <1>1, <1>7, <1>8, <1>9 DEF ListIInv

\* The list starts empty, on its one page.
LEMMA ListStarts == Init => ListIInv
<1> SUFFICES ASSUME List!ListInit PROVE ListIInv
  BY DEF Init
<1>1. PICK size \in PageSizes, nth \in UrlPages, group \in {"none", "compose"} :
          params = List!Shortened(<< >>,
                       [search |-> "", state |-> "all", host |-> "all", sort |-> "desc",
                        sortBy |-> "created", group |-> group, dates |-> "none",
                        page |-> nth, pageSize |-> size, expanded |-> {}])
  BY DEF List!ListInit
<1> DEFINE p == [search |-> "", state |-> "all", host |-> "all", sort |-> "desc",
                 sortBy |-> "created", group |-> group, dates |-> "none",
                 page |-> nth, pageSize |-> size, expanded |-> {}]
<1>2. p \in List!Params
  <2>1. size \in PageSizes /\ nth \in Int  BY PagesAssumption
  <2>2. {} \in SUBSET List!Projects  OBVIOUS
  <2> QED  BY <2>1, <2>2 DEF List!Params
<1>3. listing = << >> /\ selected = {} /\ DOMAIN listing = {}
  <2>1. listing = << >> /\ selected = {}  BY DEF List!ListInit
  <2>2. listing \in [{} -> ListStates]  BY <2>1
  <2> QED  BY <2>1, <2>2
<1>4. \A q : List!Passing(listing, q) = {}  BY <1>3 DEF List!Passing
<1>5. \A q : List!TotalPages(listing, q) = 1
  <2>1. Cardinality({}) = 0  BY FS_EmptySet
  <2> QED  BY <1>4, <2>1, ListCounts DEF List!TotalPages
<1>6. params = [p EXCEPT !.page = IF p.page > 1 THEN 1 ELSE p.page]
  BY <1>1, <1>3, <1>5 DEF List!Shortened
<1>7. params \in List!Params /\ params.page <= 1
  <2>1. p.page \in Int  BY PagesAssumption
  <2>2. PICK n \in Int : n <= 1 /\ params = [p EXCEPT !.page = n]
    <3> HIDE DEF p
    <3>1. CASE p.page > 1
      <4>1. params = [p EXCEPT !.page = 1]  BY <1>6, <3>1
      <4> QED  BY <4>1
    <3>2. CASE ~(p.page > 1)
      <4>1. params = [p EXCEPT !.page = p.page] /\ p.page <= 1  BY <1>6, <2>1, <3>2
      <4> QED  BY <2>1, <4>1
    <3> QED  BY <3>1, <3>2
  <2> HIDE DEF p
  <2> QED  BY <1>2, <2>2 DEF List!Params
<1>8. \E t \in SUBSET Listed : listing \in [t -> ListStates]
  <2>1. listing \in [{} -> ListStates]  BY <1>3
  <2>2. {} \in SUBSET Listed  OBVIOUS
  <2> QED  BY <2>1, <2>2
<1> QED  BY <1>3, <1>5, <1>7, <1>8 DEF ListIInv, List!ListTypeOK, ListStates

\* Every step of the list keeps the ticked rows on the page.
LEMMA ListIsKept == ListIInv /\ [Next]_vars => ListIInv'
<1> SUFFICES ASSUME ListIInv, [Next]_vars PROVE ListIInv'
  OBVIOUS
<1>0. [List!ListNext]_listVars  BY ListRun
<1>t. PICK ids \in SUBSET Listed : listing \in [ids -> ListStates]
  BY DEF ListIInv, List!ListTypeOK, ListStates
<1>p. params \in List!Params /\ selected \subseteq Listed
      /\ selected \subseteq List!PageItems(listing, params)
  BY DEF ListIInv, List!ListTypeOK
<1>u. ASSUME NEW p \in List!Params, List!UpdateParams(p) PROVE ListIInv'
  BY <1>t, <1>p, <1>u, RenderKeeps DEF List!UpdateParams
<1>s. ASSUME UNCHANGED <<listing, params>>, selected' \subseteq List!PageItems(listing, params)
      PROVE  ListIInv'
  <2>1. List!PageItems(listing, params) \subseteq Listed
    BY <1>t DEF List!PageItems, List!FilteredContainers, List!Passing
  <2> QED  BY <1>s, <2>1 DEF ListIInv, List!ListTypeOK
<1>i. 1 \in Int  OBVIOUS
<1>1. CASE List!Fetched
  <2>1. PICK new \in SUBSET Listed : \E list \in [new -> ListStates] :
          List!Render(list, params, selected)
    BY <1>1 DEF List!Fetched, ListStates
  <2>2. PICK list \in [new -> ListStates] : List!Render(list, params, selected)
    BY <2>1
  <2> QED  BY <1>p, <2>2, RenderKeeps
<1>2. ASSUME NEW n \in UrlPages, List!OpenUrl(n) PROVE ListIInv'
  <2>1. [params EXCEPT !.page = n] \in List!Params
    BY <1>p, PagesAssumption DEF List!Params
  <2> QED  BY <1>2, <1>u, <2>1 DEF List!OpenUrl
<1>3. ASSUME NEW n \in UrlPages, List!SetPage(n) PROVE ListIInv'
  <2>1. [params EXCEPT !.page = n] \in List!Params
    BY <1>p, PagesAssumption DEF List!Params
  <2> QED  BY <1>3, <1>u, <2>1 DEF List!SetPage
<1>4. ASSUME NEW text \in {""}, List!SetSearchTerm(text) PROVE ListIInv'
  <2>1. \A n \in Int : [params EXCEPT !.search = text, !.page = n] \in List!Params
    BY <1>p DEF List!Params
  <2>2. [params EXCEPT !.search = text, !.page = 1] \in List!Params  BY <1>i, <2>1, Zenon
  <2> QED  BY <1>4, <1>u, <2>2 DEF List!SetSearchTerm
<1>5. ASSUME NEW state \in ListStates \cup {"all"}, List!SetStateFilter(state) PROVE ListIInv'
  <2>1. \A n \in Int : [params EXCEPT !.state = state, !.page = n] \in List!Params
    BY <1>p DEF List!Params, ListStates
  <2>2. [params EXCEPT !.state = state, !.page = 1] \in List!Params  BY <1>i, <2>1, Zenon
  <2> QED  BY <1>5, <1>u, <2>2 DEF List!SetStateFilter
<1>6. ASSUME NEW host \in Hosts \cup {"all"}, List!SetHostFilter(host) PROVE ListIInv'
  <2>1. \A n \in Int : [params EXCEPT !.host = host, !.page = n] \in List!Params
    BY <1>p DEF List!Params
  <2>2. [params EXCEPT !.host = host, !.page = 1] \in List!Params  BY <1>i, <2>1, Zenon
  <2> QED  BY <1>6, <1>u, <2>2 DEF List!SetHostFilter
<1>7. ASSUME NEW direction \in {"asc", "desc"}, NEW column \in {"created", "state"},
             List!SetSort(direction, column)
      PROVE  ListIInv'
  <2>1. [params EXCEPT !.sort = direction, !.sortBy = column] \in List!Params
    BY <1>p DEF List!Params
  <2> QED  BY <1>7, <1>u, <2>1 DEF List!SetSort
<1>8. ASSUME NEW group \in {"none", "compose"}, List!SetGroupBy(group) PROVE ListIInv'
  <2>1. \A n \in Int : [params EXCEPT !.group = group, !.page = n] \in List!Params
    BY <1>p DEF List!Params
  <2>2. [params EXCEPT !.group = group, !.page = 1] \in List!Params  BY <1>i, <2>1, Zenon
  <2> QED  BY <1>8, <1>u, <2>2 DEF List!SetGroupBy
<1>9. ASSUME NEW range \in {"none"}, List!SetDateRange(range) PROVE ListIInv'
  <2>1. \A n \in Int : [params EXCEPT !.dates = range, !.page = n] \in List!Params
    BY <1>p DEF List!Params
  <2>2. [params EXCEPT !.dates = range, !.page = 1] \in List!Params  BY <1>i, <2>1, Zenon
  <2> QED  BY <1>9, <1>u, <2>2 DEF List!SetDateRange
<1>10. ASSUME NEW size \in PageSizes, List!SetPageSize(size) PROVE ListIInv'
  <2>1. \A n \in Int : [params EXCEPT !.pageSize = size, !.page = n] \in List!Params
    BY <1>p DEF List!Params
  <2>2. [params EXCEPT !.pageSize = size, !.page = 1] \in List!Params  BY <1>i, <2>1, Zenon
  <2> QED  BY <1>10, <1>u, <2>2 DEF List!SetPageSize
<1>11. ASSUME NEW project \in List!Projects, List!ToggleGroup(project) PROVE ListIInv'
  <2>1. PICK grown \in SUBSET List!Projects :
          List!UpdateParams([params EXCEPT !.expanded = grown])
    BY <1>11, <1>p DEF List!ToggleGroup, List!Params
  <2>2. [params EXCEPT !.expanded = grown] \in List!Params
    BY <1>p DEF List!Params
  <2> QED  BY <1>u, <2>1, <2>2
<1>12. ASSUME NEW c \in Listed, List!ToggleSelect(c) PROVE ListIInv'
  BY <1>p, <1>s, <1>12 DEF List!ToggleSelect, List!Rows
<1>13. CASE List!SelectAll
  BY <1>13, <1>s DEF List!SelectAll
<1>14. CASE List!ClearSelection
  BY <1>14, <1>s DEF List!ClearSelection
<1>15. CASE UNCHANGED listVars
  BY <1>p, <1>15, <1>s DEF listVars
<1> QED
  BY <1>0, <1>1, <1>2, <1>3, <1>4, <1>5, <1>6, <1>7, <1>8, <1>9, <1>10, <1>11, <1>12, <1>13,
     <1>14, <1>15
  DEF List!ListNext, ListStates

\* A page that the list has, of rows that pass, shows one of them.
LEMMA PagesAreFull ==
  ASSUME NEW s \in Nat \ {0}, NEW n \in Nat, NEW nth \in Int, nth >= 1,
         nth <= (n + s - 1) \div s
  PROVE  /\ (nth - 1) * s \in 0 .. n - 1
         /\ ((nth - 1) * s) \div s = nth - 1
<1> DEFINE q == nth - 1
<1>1. q \in Nat /\ q * s <= n - 1  OBVIOUS
<1>2. (q * s) \div s = q /\ q * s \in Nat  BY <1>1
<1> QED  BY <1>1, <1>2

\* While containers pass the filters a page from the first on shows some of
\* them, and what is ticked is on the page that is shown
\* (containers-dashboard.tsx:329-335, 590-600).
THEOREM TickedIsShown == Spec => []List!PageShowsWhatIsTicked
<1>1. Init => ListIInv  BY ListStarts
<1>2. ListIInv /\ [Next]_vars => ListIInv'  BY ListIsKept
<1>3. ListIInv => List!PageShowsWhatIsTicked
  <2> SUFFICES ASSUME ListIInv, params.page >= 1, List!Passing(listing, params) # {}
               PROVE  List!PageItems(listing, params) # {}
    BY DEF List!PageShowsWhatIsTicked, ListIInv
  <2> DEFINE passing == List!Passing(listing, params)
             n == Cardinality(passing)
             size == params.pageSize
             nth == params.page
             Before(a, b) ==
                \/ IF params.sort = "desc"
                   THEN List!SortValue(listing, params, a) > List!SortValue(listing, params, b)
                   ELSE List!SortValue(listing, params, a) < List!SortValue(listing, params, b)
                \/ /\ List!SortValue(listing, params, a) = List!SortValue(listing, params, b)
                   /\ RankOfListed[a] < RankOfListed[b]
             before == [c \in passing |-> {d \in passing : Before(d, c)}]
  <2>1. PICK ids \in SUBSET Listed : listing \in [ids -> ListStates]
    BY DEF ListIInv, List!ListTypeOK, ListStates
  <2>2. params \in List!Params /\ nth \in Int /\ size \in Nat \ {0}
    BY PagesAssumption DEF ListIInv, List!ListTypeOK, List!Params
  <2>3. passing \in SUBSET Listed /\ passing \subseteq DOMAIN listing
    BY <2>1 DEF List!Passing
  <2>4. IsFiniteSet(passing) /\ n \in Nat /\ n # 0
    <3>1. IsFiniteSet(passing)  BY <2>3, ListedIsFinite
    <3> HIDE DEF passing
    <3> QED  BY <3>1, FS_CardinalityType, FS_EmptySet DEF passing
  <2>5. nth <= (n + size - 1) \div size
    <3>1. List!TotalPages(listing, params) = (n + size - 1) \div size
      BY <2>4, ListCounts DEF List!TotalPages
    <3> QED  BY <3>1 DEF ListIInv
  <2>6. /\ (nth - 1) * size \in 0 .. n - 1
        /\ ((nth - 1) * size) \div size = nth - 1
    <3> HIDE DEF n, size, nth
    <3> QED  BY <2>2, <2>4, <2>5, PagesAreFull DEF nth
  <2>7. \A c \in passing : /\ List!SortValue(listing, params, c) \in Int
                           /\ RankOfListed[c] \in Int
    BY <2>1, <2>3 DEF List!SortValue, Listed, RankOfListed, Alphabet, ListStates
  <2>8. \A a, b \in passing : a # b => RankOfListed[a] # RankOfListed[b]
    BY <2>3 DEF Listed, RankOfListed
  <2>9. Ranked(passing, before)
    <3> HIDE DEF passing
    <3>1. before \in [passing -> SUBSET passing]  OBVIOUS
    <3>2. \A a, b \in passing : a # b => a \in before[b] \/ b \in before[a]
      BY <2>7, <2>8
    <3>3. \A a, b \in passing : a \in before[b] => before[a] \subseteq before[b]
      <4> SUFFICES ASSUME NEW a \in passing, NEW b \in passing, a \in before[b],
                          NEW c \in before[a]
                   PROVE  c \in before[b]
        OBVIOUS
      <4>1. c \in passing /\ Before(c, a) /\ Before(a, b)  OBVIOUS
      <4>2. Before(c, b)  BY <2>7, <4>1
      <4> QED  BY <4>1, <4>2
    <3>4. \A a \in passing : a \notin before[a]  BY <2>7
    <3> QED  BY <3>1, <3>2, <3>3, <3>4 DEF Ranked
  <2>10. PICK c \in passing : Cardinality(before[c]) = (nth - 1) * size
    <3>1. RanksTaken(passing, before)
      <4> HIDE DEF passing, before
      <4> QED  BY <2>4, <2>9, RanksAreTaken, Zenon
    <3> HIDE DEF passing, before, nth, size
    <3> QED  BY <2>6, <3>1 DEF RanksTaken
  <2>11. /\ List!FilteredContainers(listing, params)[c] = Cardinality(before[c])
         /\ DOMAIN List!FilteredContainers(listing, params) = passing
    <3>1. List!FilteredContainers(listing, params) =
            [x \in passing |-> List!Cardinality({d \in passing : Before(d, x)})]
      BY DEF List!FilteredContainers
    <3> QED  BY <3>1, ListCounts
  <2>12. c \in List!PageItems(listing, params)
    BY <2>6, <2>10, <2>11 DEF List!PageItems
  <2> QED  BY <2>12
<1> QED  BY <1>1, <1>2, <1>3, PTL DEF Spec

-----------------------------------------------------------------------------
(* ProcessesPage.                                                          *)

\* Whatever is in the store was asked for, and so is what the file has; what
\* was promised is in both, what was removed in neither.  Without the file's
\* rules the server has none.
StoreIsAsAnswered ==
    /\ rules \subseteq rulesAsked /\ ruleFile \subseteq rulesAsked
    /\ promised \subseteq rules /\ promised \subseteq ruleFile
    /\ removed \cap rules = {} /\ removed \cap ruleFile = {}
    /\ torn => ruleFile = {}
    /\ ~store => rules = {}

\* A process is one a walk may kill.
Named(v) == v \notin {"web"} /\ \E r \in rulesAsked \ {"web"} : v \in NamedByRules[r]

\* A list of rules that was answered is the rules in force, and one the page
\* holds with no request on its way, unless a switch's success is still to be
\* told.
ListIsOfTheStore ==
    (\A n \in Procs!Switches : toggles[n].answer # "done") /\ ~untold =>
        /\ kosFetch.pc = "answered" => kosFetch.rules = rules
        /\ kosFetch.pc = "idle" => kosList = rules

ProcIInv ==
    /\ Procs!ProcessesTypeOK
    /\ StoreIsAsAnswered
    /\ \A v \in victims \cup walk.matched : Named(v)
    /\ ListIsOfTheStore

\* The pages run the processes by their own steps.
LEMMA ProcRun == [Next]_vars => [Procs!ProcessesNext]_processVars
<1>1. CASE Next
  BY <1>1 DEF Next
<1>2. CASE UNCHANGED vars
  BY <1>2 DEF vars
<1> QED  BY <1>1, <1>2

\* The server starts with the rules of its file, none of them answered yet.
LEMMA ProcStarts == Init => ProcIInv
<1> SUFFICES ASSUME Procs!ProcessesInit PROVE ProcIInv
  BY DEF Init
<1> USE DEF Procs!ProcessesInit
<1>1. Procs!ProcessesTypeOK
  BY DEF Procs!ProcessesTypeOK, Procs!NoWalk, RuleFiles
<1>2. StoreIsAsAnswered  BY DEF StoreIsAsAnswered, RuleFiles
<1>3. \A v \in victims \cup walk.matched : Named(v)  BY DEF Procs!NoWalk
<1>4. ListIsOfTheStore  BY DEF ListIsOfTheStore
<1> QED  BY <1>1, <1>2, <1>3, <1>4 DEF ProcIInv

ProcRules == {"evil", "evil*", "web", "w*"}

\* What a change of the store keeps, whether it is saved, lost, or leaves a
\* torn file.
LEMMA ChangeKeeps ==
  ASSUME StoreIsAsAnswered, torn \in BOOLEAN, store \in BOOLEAN,
         rules \subseteq ProcRules, ruleFile \subseteq ProcRules,
         removed \subseteq ProcRules, promised \subseteq ProcRules,
         rulesAsked \subseteq ProcRules,
         NEW r \in ProcRules, NEW saved \in BOOLEAN,
         Procs!Add(r, saved) \/ Procs!Remove(r, saved)
  PROVE  /\ StoreIsAsAnswered'
         /\ rules' \subseteq ProcRules /\ ruleFile' \subseteq ProcRules
         /\ removed' \subseteq ProcRules /\ promised' \subseteq ProcRules
         /\ rulesAsked' \subseteq ProcRules /\ rulesAsked \subseteq rulesAsked'
         /\ torn' \in BOOLEAN /\ store' = store
<1> USE DEF StoreIsAsAnswered
<1>1. CASE saved /\ ruleFile' = rules' /\ torn' = FALSE
  <2>1. CASE Procs!Add(r, saved)  BY <1>1, <2>1 DEF Procs!Add
  <2>2. CASE Procs!Remove(r, saved)  BY <1>1, <2>2 DEF Procs!Remove
  <2> QED  BY <2>1, <2>2
<1>2. CASE ~saved /\ UNCHANGED <<ruleFile, torn>>
  <2>1. CASE Procs!Add(r, saved)  BY <1>2, <2>1 DEF Procs!Add
  <2>2. CASE Procs!Remove(r, saved)  BY <1>2, <2>2 DEF Procs!Remove
  <2> QED  BY <2>1, <2>2
<1>3. CASE ~saved /\ ruleFile' = {} /\ torn' = TRUE
  <2>1. CASE Procs!Add(r, saved)  BY <1>3, <2>1 DEF Procs!Add
  <2>2. CASE Procs!Remove(r, saved)  BY <1>3, <2>2 DEF Procs!Remove
  <2> QED  BY <2>1, <2>2
<1> QED  BY <1>1, <1>2, <1>3 DEF Procs!Add, Procs!Remove, Procs!Save

\* Every step of the processes keeps what the store has answered, kills only
\* what a rule names, and knows a list that is out of date to be so.
LEMMA ProcIsKept == ProcIInv /\ [Next]_vars => ProcIInv'
<1> SUFFICES ASSUME ProcIInv, [Next]_vars PROVE ProcIInv'
  OBVIOUS
<1> USE DEF ProcIInv, Procs!Switches
<1>0. [Procs!ProcessesNext]_processVars  BY ProcRun
<1>t. Procs!ProcessesTypeOK  OBVIOUS
<1>s. ASSUME UNCHANGED <<rules, store, ruleFile, torn, rulesAsked, removed, promised>>
      PROVE  /\ StoreIsAsAnswered'
             /\ \A v : Named(v)' <=> Named(v)
  BY <1>s DEF StoreIsAsAnswered, Named
<1>o. CASE Procs!OtherChange
  <2>1. PICK r \in {"evil*"}, saved \in BOOLEAN : Procs!Add(r, saved)
    BY <1>o DEF Procs!OtherChange
  <2>2. StoreIsAsAnswered' /\ rulesAsked \subseteq rulesAsked'
    BY <1>t, <2>1, ChangeKeeps DEF Procs!ProcessesTypeOK, ProcRules
  <2>3. Procs!ProcessesTypeOK'
    BY <1>o, <1>t, <2>1, ChangeKeeps
    DEF Procs!ProcessesTypeOK, ProcRules, Procs!OtherChange, Procs!pageVars
  <2>4. \A v \in victims' \cup walk'.matched : Named(v)'
    BY <1>o, <2>2 DEF Procs!OtherChange, Named
  <2>5. ListIsOfTheStore'
    BY <1>o DEF Procs!OtherChange, ListIsOfTheStore
  <2> QED  BY <2>2, <2>3, <2>4, <2>5
<1>r. CASE Procs!Restart
  <2>1. Procs!ProcessesTypeOK'
    BY <1>r, <1>t DEF Procs!ProcessesTypeOK, Procs!Restart, Procs!NoWalk, Procs!NoToggle
  <2>2. StoreIsAsAnswered'
    BY <1>r, <1>t DEF Procs!Restart, StoreIsAsAnswered, Procs!ProcessesTypeOK
  <2>3. \A v \in victims' \cup walk'.matched : Named(v)'
    BY <1>r DEF Procs!Restart, Named, Procs!NoWalk
  <2>4. ListIsOfTheStore'
    BY <1>r, <1>t DEF Procs!Restart, ListIsOfTheStore, Procs!ProcessesTypeOK, Procs!NoToggle
  <2> QED  BY <2>1, <2>2, <2>3, <2>4
<1>w. CASE \/ Procs!WalkStarts \/ Procs!Kill \/ Procs!WalkAnswers
           \/ \E n \in {"evil", "web"} : Procs!Respawn(n)
  <2> USE DEF Procs!WalkStarts, Procs!Kill, Procs!WalkAnswers, Procs!Respawn,
       Procs!serverVars, Procs!pageVars, Procs!NoWalk
  <2>1. /\ Procs!ProcessesTypeOK'
        /\ victims' \cup walk'.matched \subseteq victims \cup walk.matched
    <3>1. CASE Procs!WalkStarts  BY <3>1, <1>t DEF Procs!ProcessesTypeOK
    <3>2. CASE Procs!Kill
      <4>1. CASE walk' = [walk EXCEPT !.matched = {}]
        BY <3>2, <4>1, <1>t DEF Procs!ProcessesTypeOK
      <4>2. CASE walk' = [walk EXCEPT !.matched = {}, !.rows = @ \cup walk.matched]
        BY <3>2, <4>2, <1>t DEF Procs!ProcessesTypeOK
      <4> QED  BY <3>2, <4>1, <4>2
    <3>3. CASE Procs!WalkAnswers  BY <3>3, <1>t DEF Procs!ProcessesTypeOK
    <3>4. CASE \E n \in {"evil", "web"} : Procs!Respawn(n)
      BY <3>4, <1>t DEF Procs!ProcessesTypeOK
    <3> QED  BY <1>w, <3>1, <3>2, <3>3, <3>4
  <2>2. StoreIsAsAnswered' /\ \A v : Named(v)' <=> Named(v)  BY <1>w, <1>s
  <2>4. ListIsOfTheStore'  BY <1>w DEF ListIsOfTheStore
  <2> QED  BY <2>1, <2>2, <2>4
<1>v. ASSUME NEW n \in {"evil", "web"}, Procs!Visit(n) PROVE ProcIInv'
  <2> USE DEF Procs!Visit, Procs!serverVars, Procs!pageVars
  <2>1. Procs!ProcessesTypeOK'  BY <1>v, <1>t DEF Procs!ProcessesTypeOK
  <2>2. StoreIsAsAnswered' /\ \A v : Named(v)' <=> Named(v)  BY <1>v, <1>s
  <2>3. Procs!Contains(n) => Named(n)
    BY DEF Procs!Contains, Named, StoreIsAsAnswered
  <2>4. victims' \cup walk'.matched
          \subseteq victims \cup walk.matched \cup (IF Procs!Contains(n) THEN {n} ELSE {})
    BY <1>v, <1>t DEF Procs!ProcessesTypeOK
  <2>5. ListIsOfTheStore'  BY <1>v DEF ListIsOfTheStore
  <2> QED  BY <2>1, <2>2, <2>3, <2>4, <2>5
<1>k. CASE Procs!KosAnswers \/ Procs!KosArrives \/ Procs!KosFails
  <2> USE DEF Procs!KosAnswers, Procs!KosArrives, Procs!KosFails, Procs!serverVars,
              Procs!pageVars
  <2>1. Procs!ProcessesTypeOK'
    <3>1. CASE Procs!KosAnswers  BY <3>1, <1>t DEF Procs!ProcessesTypeOK
    <3>2. CASE Procs!KosArrives  BY <3>2, <1>t DEF Procs!ProcessesTypeOK
    <3>3. CASE Procs!KosFails  BY <3>3, <1>t DEF Procs!ProcessesTypeOK
    <3> QED  BY <1>k, <3>1, <3>2, <3>3
  <2>2. StoreIsAsAnswered' /\ \A v : Named(v)' <=> Named(v)  BY <1>k, <1>s
  <2>3. \A v \in victims' \cup walk'.matched : Named(v)'  BY <1>k, <2>2
  <2>4. ListIsOfTheStore'
    <3>1. CASE Procs!KosAnswers
      BY <3>1, <1>t DEF ListIsOfTheStore, StoreIsAsAnswered, Procs!ProcessesTypeOK
    <3>2. CASE Procs!KosArrives  BY <3>2, <1>t DEF ListIsOfTheStore, Procs!ProcessesTypeOK
    <3>3. CASE Procs!KosFails  BY <3>3 DEF ListIsOfTheStore
    <3> QED  BY <1>k, <3>1, <3>2, <3>3
  <2> QED  BY <2>1, <2>2, <2>3, <2>4
<1>1. ASSUME NEW n \in {"evil", "web"} \ {"web"}, Procs!Toggle(n) PROVE ProcIInv'
  <2> USE DEF Procs!Toggle, Procs!serverVars
  <2>1. Procs!ProcessesTypeOK'
    <3>1. OwnRules["evil"] = "evil" /\ SuggestedRules["evil"] = "evil*"
      BY DEF OwnRules, SuggestedRules
    <3>2. n = "evil"  OBVIOUS
    <3>3. toggles' = [toggles EXCEPT ![n] = toggles'[n]]
      BY <1>1, <1>t DEF Procs!ProcessesTypeOK
    <3>4. toggles'[n] \in [op : {"add", "remove"}, rule : {"evil", "evil*", "web", "w*"},
                          answer : {"none", "done", "error"}]
      BY <1>1, <1>t, <3>1, <3>2
      DEF Procs!ProcessesTypeOK, Procs!isKillOnSight, Procs!activeKillOnSightName
    <3> QED  BY <1>1, <1>t, <3>3, <3>4 DEF Procs!ProcessesTypeOK
  <2>2. StoreIsAsAnswered' /\ \A v : Named(v)' <=> Named(v)  BY <1>1, <1>s
  <2>3. \A v \in victims' \cup walk'.matched : Named(v)'  BY <1>1, <2>2
  <2>4. ListIsOfTheStore'
    BY <1>1, <1>t DEF ListIsOfTheStore, Procs!ProcessesTypeOK, Procs!NoToggle
  <2> QED  BY <2>1, <2>2, <2>3, <2>4
<1>2. ASSUME NEW n \in {"evil", "web"} \ {"web"}, Procs!ServerToggles(n) PROVE ProcIInv'
  <2>1. CASE \E saved \in BOOLEAN, a \in {"done", "error"} :
                /\ Procs!Change(toggles[n].op, toggles[n].rule, saved)
                /\ toggles' = [toggles EXCEPT ![n].answer = a]
                /\ untold' = (untold \/ a = "error")
    <3>1. PICK saved \in BOOLEAN, a \in {"done", "error"} :
             /\ Procs!Change(toggles[n].op, toggles[n].rule, saved)
             /\ toggles' = [toggles EXCEPT ![n].answer = a]
             /\ untold' = (untold \/ a = "error")
      BY <2>1
    <3> DEFINE r == toggles[n].rule
    <3>2. r \in ProcRules
      BY <1>2, <1>t DEF Procs!ProcessesTypeOK, Procs!ServerToggles, ProcRules
    <3>3. Procs!Add(r, saved) \/ Procs!Remove(r, saved)  BY <3>1 DEF Procs!Change
    <3> HIDE DEF r
    <3>4. /\ StoreIsAsAnswered'
          /\ rules' \subseteq ProcRules /\ ruleFile' \subseteq ProcRules
          /\ removed' \subseteq ProcRules /\ promised' \subseteq ProcRules
          /\ rulesAsked' \subseteq ProcRules /\ rulesAsked \subseteq rulesAsked'
          /\ torn' \in BOOLEAN /\ store' = store
      BY <1>t, <3>2, <3>3, ChangeKeeps DEF Procs!ProcessesTypeOK, ProcRules
    <3>5. Procs!ProcessesTypeOK'
      BY <1>2, <1>t, <3>1, <3>4 DEF Procs!ProcessesTypeOK, ProcRules, Procs!ServerToggles
    <3>6. \A v \in victims' \cup walk'.matched : Named(v)'
      BY <1>2, <3>4 DEF Procs!ServerToggles, Named
    <3>7. ListIsOfTheStore'
      <4>1. CASE a = "done"
        <5>1. toggles'[n].answer = "done"
          BY <1>t, <3>1, <4>1 DEF Procs!ProcessesTypeOK
        <5> QED  BY <5>1 DEF ListIsOfTheStore
      <4>2. CASE a = "error"
        <5>1. untold'  BY <3>1, <4>2
        <5> QED  BY <5>1 DEF ListIsOfTheStore
      <4> QED  BY <4>1, <4>2
    <3> QED  BY <3>4, <3>5, <3>6, <3>7
  <2>2. CASE /\ ~store
             /\ toggles' = [toggles EXCEPT ![n].answer = "error"]
             /\ UNCHANGED <<Procs!serverVars, untold>>
    <3> USE DEF Procs!ServerToggles, Procs!serverVars
    <3>1. Procs!ProcessesTypeOK'  BY <1>2, <2>2, <1>t DEF Procs!ProcessesTypeOK
    <3>2. StoreIsAsAnswered' /\ \A v : Named(v)' <=> Named(v)  BY <2>2, <1>s
    <3>3. \A v \in victims' \cup walk'.matched : Named(v)'  BY <1>2, <3>2
    <3>4. ListIsOfTheStore'  BY <1>2, <2>2, <1>t DEF ListIsOfTheStore, Procs!ProcessesTypeOK
    <3> QED  BY <3>1, <3>2, <3>3, <3>4
  <2> QED  BY <1>2, <2>1, <2>2 DEF Procs!ServerToggles
<1>3. ASSUME NEW n \in {"evil", "web"} \ {"web"}, Procs!ToggleEnds(n) PROVE ProcIInv'
  <2> USE DEF Procs!ToggleEnds, Procs!serverVars, Procs!Invalidate, Procs!FirstOnItsWay
  <2>0. /\ toggles' = [toggles EXCEPT ![n] = Procs!NoToggle]
        /\ UNCHANGED <<running, rules, store, ruleFile, torn, rulesAsked, removed, promised,
                       walk, processRows, kosList, victims>>
    BY <1>3
  <2>1. Procs!ProcessesTypeOK'
    <3>1. kosFetch' = kosFetch \/ kosFetch' = [kosFetch EXCEPT !.pc = "asking", !.rules = {}]
      BY <1>3
    <3>2. untold' = untold \/ untold' = TRUE  BY <1>3
    <3> QED  BY <1>t, <2>0, <3>1, <3>2 DEF Procs!ProcessesTypeOK
  <2>2. StoreIsAsAnswered' /\ \A v : Named(v)' <=> Named(v)  BY <1>3, <1>s
  <2>3. \A v \in victims' \cup walk'.matched : Named(v)'  BY <2>0, <2>2
  <2>4. ListIsOfTheStore'
    <3>1. CASE toggles[n].answer = "done"
      <4>1. CASE Procs!FirstOnItsWay
        <5>1. untold'  BY <1>3, <3>1, <4>1
        <5> QED  BY <5>1 DEF ListIsOfTheStore
      <4>2. CASE ~Procs!FirstOnItsWay
        <5>1. kosFetch' = [kosFetch EXCEPT !.pc = "asking", !.rules = {}]
          BY <1>3, <3>1, <4>2
        <5>2. kosFetch'.pc = "asking"  BY <1>t, <5>1 DEF Procs!ProcessesTypeOK
        <5> QED  BY <5>2 DEF ListIsOfTheStore
      <4> QED  BY <4>1, <4>2
    <3>2. CASE toggles[n].answer # "done"
      <4>1. kosFetch' = kosFetch /\ untold' = untold  BY <1>3, <3>2
      <4>2. \A m \in Procs!Switches : toggles[m].answer = "done" => toggles'[m].answer = "done"
        BY <1>t, <2>0, <3>2 DEF Procs!ProcessesTypeOK
      <4> QED  BY <2>0, <4>1, <4>2 DEF ListIsOfTheStore
    <3> QED  BY <3>1, <3>2
  <2> QED  BY <2>1, <2>2, <2>3, <2>4
<1>4. CASE UNCHANGED processVars
  BY <1>4 DEF processVars, Procs!ProcessesTypeOK, StoreIsAsAnswered, Named, ListIsOfTheStore
<1> HIDE DEF ProcIInv
<1> QED
  BY <1>0, <1>o, <1>r, <1>w, <1>v, <1>k, <1>1, <1>2, <1>3, <1>4 DEF Procs!ProcessesNext

\* What the walks kill is not protected and was named by a rule somebody asked
\* for, the last answer about a rule holds, told or lost, and switches at rest
\* show the rules in force unless nobody told the page of a change or it could
\* not read them again, for any number of requests, restarts and failed saves.
THEOREM RulesAreKept ==
  Spec => [](Procs!KilledWasNamed /\ Procs!RulesAreAsAnswered /\ Procs!SwitchesShowTheRules)
<1>1. ProcIInv => Procs!KilledWasNamed
  BY DEF ProcIInv, Named, Procs!KilledWasNamed
<1>2. ProcIInv => Procs!RulesAreAsAnswered
  BY DEF ProcIInv, StoreIsAsAnswered, Procs!RulesAreAsAnswered
<1>3. ProcIInv => Procs!SwitchesShowTheRules
  BY DEF ProcIInv, ListIsOfTheStore, Procs!SwitchesShowTheRules, Procs!NoToggle
<1> QED  BY <1>1, <1>2, <1>3, ProcStarts, ProcIsKept, PTL DEF Spec

-----------------------------------------------------------------------------
(* ImagesPage.                                                             *)

PullRecord ==
    [pc : {"no", "asking", "done", "error"}, image : {"a"} \cup {Pulls!NoImage},
     hosts : Seq(Hosts), at : Nat, aborted : BOOLEAN]
RemovalRecord == [place : Pulls!Places, answer : {"none", "done", "error"}]

ImagesTypes ==
    /\ there \subseteq Pulls!Places
    /\ query \in [pc : {"asking", "answered", "idle"}, data : SUBSET Pulls!Places]
    /\ images \subseteq Pulls!Places
    /\ imageToDelete \in Pulls!Places \cup {Pulls!NoPlace}
    /\ removals \subseteq RemovalRecord
    /\ imageName \in {"a"} \cup {""}
    /\ selectedHosts \in Seq(Hosts)
    /\ pull \in PullRecord
    /\ strays \subseteq Pulls!Places /\ imagesUntold \in BOOLEAN

\* The page will ask again: for an image that a host has removed, or for what
\* a pull brings.
Owed == (\E r \in removals : r.answer = "done") \/ pull.pc # "no"

\* While nothing is owed and nothing untold, the answer on its way, or else
\* the one the page holds, is what the hosts have.
ImagesIInv ==
    /\ ImagesTypes
    /\ IF pull.pc = "no" THEN pull = Pulls!NoPull
                          ELSE pull.image = "a" /\ pull.at \in DOMAIN pull.hosts
    /\ \/ Owed \/ imagesUntold
       \/ CASE query.pc = "asking" -> TRUE
            [] query.pc = "answered" -> query.data = there
            [] query.pc = "idle" -> images = there

\* The pages run the table of images by its own steps.
LEMMA ImagesRun == [Next]_vars => [Pulls!ImagesNext]_imagesVars
<1>1. CASE Next
  BY <1>1 DEF Next
<1>2. CASE UNCHANGED vars
  BY <1>2 DEF vars
<1> QED  BY <1>1, <1>2

\* The page starts by asking.
LEMMA ImagesStart == Init => ImagesIInv
<1> SUFFICES ASSUME Pulls!ImagesInit PROVE ImagesIInv
  BY DEF Init
<1>1. ImagesTypes /\ pull = Pulls!NoPull /\ query.pc = "asking"
  <2>1. Pulls!NoPull \in PullRecord
    <3>1. << >> \in Seq(Hosts)  OBVIOUS
    <3> QED  BY <3>1 DEF PullRecord, Pulls!NoPull
  <2>2. /\ query = [pc |-> "asking", data |-> {}] /\ images = {}
        /\ imageToDelete = Pulls!NoPlace /\ removals = {} /\ imageName = ""
        /\ there \subseteq Pulls!Places /\ pull = Pulls!NoPull
        /\ strays = {} /\ imagesUntold = FALSE
    BY DEF Pulls!ImagesInit
  <2>3. selectedHosts \in Seq(Hosts)
    <3>1. selectedHosts = << >>  BY DEF Pulls!ImagesInit
    <3> QED  BY <3>1
  <2> QED  BY <2>1, <2>2, <2>3 DEF ImagesTypes
<1> QED  BY <1>1 DEF ImagesIInv, Pulls!NoPull

\* Every step of the page and of the hosts keeps what is owed known.
LEMMA ImagesAreKept == ImagesIInv /\ [Next]_vars => ImagesIInv'
<1> SUFFICES ASSUME ImagesIInv, [Next]_vars PROVE ImagesIInv'
  OBVIOUS
<1> USE DEF Pulls!Invalidate, Pulls!isPulling
<1>0. [Pulls!ImagesNext]_imagesVars  BY ImagesRun
<1>t. ImagesTypes  BY DEF ImagesIInv
<1>r. ASSUME UNCHANGED <<there, query, images, removals, pull, strays, imagesUntold>>,
             imageToDelete' \in Pulls!Places \cup {Pulls!NoPlace},
             imageName' \in {"a"} \cup {""}, selectedHosts' \in Seq(Hosts)
      PROVE  ImagesIInv'
  BY <1>r DEF ImagesIInv, ImagesTypes, Owed
<1>h. selectedHosts \in Seq(Hosts) /\ pull \in PullRecord  BY <1>t DEF ImagesTypes
<1>q. query \in [pc : {"asking", "answered", "idle"}, data : SUBSET Pulls!Places]
  BY <1>t DEF ImagesTypes
<1>p. pull.pc \in {"no", "asking", "done", "error"}  BY <1>t DEF ImagesTypes, PullRecord
<1>1. CASE Pulls!QueryAnswers
  <2>1. ImagesTypes'  BY <1>1, <1>t DEF Pulls!QueryAnswers, ImagesTypes
  <2> QED  BY <1>1, <2>1 DEF Pulls!QueryAnswers, ImagesIInv, Owed
<1>2. CASE Pulls!QueryArrives
  <2>1. ImagesTypes'  BY <1>2, <1>t DEF Pulls!QueryArrives, ImagesTypes
  <2> QED  BY <1>2, <2>1 DEF Pulls!QueryArrives, ImagesIInv, Owed
<1>b. CASE Pulls!QueryFails
  <2>1. ImagesTypes'  BY <1>b, <1>t DEF Pulls!QueryFails, ImagesTypes
  <2> QED  BY <1>b, <2>1 DEF Pulls!QueryFails, ImagesIInv, Owed
<1>3. CASE Pulls!Reload
  <2>1. ImagesTypes'  BY <1>3, <1>t DEF Pulls!Reload, ImagesTypes
  <2> QED  BY <1>3, <2>1 DEF Pulls!Reload, ImagesIInv, Owed
<1>4. ASSUME NEW text, Pulls!Search(text) PROVE ImagesIInv'
  BY <1>4, <1>t, <1>r DEF Pulls!Search, ImagesTypes
<1>5. ASSUME NEW p \in Pulls!Places, Pulls!AskToDelete(p) PROVE ImagesIInv'
  BY <1>5, <1>t, <1>r DEF Pulls!AskToDelete, ImagesTypes
<1>6. CASE Pulls!CancelDelete
  BY <1>6, <1>t, <1>r DEF Pulls!CancelDelete, ImagesTypes
<1>7. CASE Pulls!Delete
  <2>1. imageToDelete \in Pulls!Places  BY <1>7, <1>t DEF Pulls!Delete, ImagesTypes
  <2>2. [place |-> imageToDelete, answer |-> "none"] \in RemovalRecord
    BY <2>1 DEF RemovalRecord
  <2>3. ImagesTypes'  BY <1>7, <1>t, <2>2 DEF Pulls!Delete, ImagesTypes
  <2> QED  BY <1>7, <2>3 DEF Pulls!Delete, ImagesIInv, Owed
<1>8. ASSUME NEW r \in removals, Pulls!Removed(r) PROVE ImagesIInv'
  <2>1. PICK done \in BOOLEAN, a \in {"error", "done"} :
          /\ removals' = (removals \ {r}) \cup {[r EXCEPT !.answer = a]}
          /\ there' = IF done THEN there \ {r.place} ELSE there
          /\ imagesUntold' = (imagesUntold \/ (done /\ a = "error"))
          /\ r.answer = "none"
    BY <1>8 DEF Pulls!Removed
  <2>2. r \in RemovalRecord  BY <1>t DEF ImagesTypes
  <2>3. [r EXCEPT !.answer = a] \in RemovalRecord /\ [r EXCEPT !.answer = a].answer = a
    BY <2>2 DEF RemovalRecord
  <2>4. UNCHANGED <<query, images, imageToDelete, imageName, selectedHosts, pull, strays>>
    BY <1>8 DEF Pulls!Removed
  <2>5. ImagesTypes'  BY <1>t, <2>1, <2>3, <2>4 DEF ImagesTypes
  <2>6. CASE a = "done"
    <3>1. Owed'  BY <2>1, <2>3, <2>6 DEF Owed
    <3> QED  BY <2>4, <2>5, <3>1 DEF ImagesIInv
  <2>7. CASE a = "error" /\ ~done
    <3>1. there' = there /\ (Owed => Owed')  BY <2>1, <2>3, <2>4, <2>7 DEF Owed
    <3>2. imagesUntold' = imagesUntold  BY <1>t, <2>1, <2>7 DEF ImagesTypes
    <3> QED  BY <2>4, <2>5, <3>1, <3>2 DEF ImagesIInv
  <2>8. CASE a = "error" /\ done
    <3>1. imagesUntold'  BY <2>1, <2>8
    <3> QED  BY <2>4, <2>5, <3>1 DEF ImagesIInv
  <2> QED  BY <2>6, <2>7, <2>8
<1>9. ASSUME NEW r \in removals, Pulls!DeleteEnds(r) PROVE ImagesIInv'
  <2>1. ImagesTypes'
    <3>1. query' \in {query, [pc |-> "asking", data |-> {}]}  BY <1>9 DEF Pulls!DeleteEnds
    <3>2. query' \in [pc : {"asking", "answered", "idle"}, data : SUBSET Pulls!Places]
      <4>1. [pc |-> "asking", data |-> {}]
              \in [pc : {"asking", "answered", "idle"}, data : SUBSET Pulls!Places]
        OBVIOUS
      <4> QED  BY <1>q, <3>1, <4>1, Zenon
    <3> QED  BY <1>9, <1>t, <3>2 DEF Pulls!DeleteEnds, ImagesTypes
  <2>2. CASE r.answer = "done"
    <3>1. query'.pc = "asking" /\ pull' = pull  BY <1>9, <2>2 DEF Pulls!DeleteEnds
    <3> QED  BY <2>1, <3>1 DEF ImagesIInv
  <2>3. CASE r.answer # "done"
    <3>1. (Owed => Owed') /\ UNCHANGED <<there, query, images, pull, imagesUntold>>
      BY <1>9, <2>3 DEF Pulls!DeleteEnds, Owed
    <3> QED  BY <2>1, <3>1 DEF ImagesIInv
  <2> QED  BY <2>2, <2>3
<1>10. CASE Pulls!OpenPull
  <2>1. Pulls!HostsListed \subseteq Hosts
    <3>1. ASSUME NEW p \in images PROVE p[2] \in Hosts
      BY <1>t DEF ImagesTypes, Pulls!Places
    <3> QED  BY <3>1 DEF Pulls!HostsListed
  <2>2. selectedHosts' = << >> \/ \E h \in Hosts : selectedHosts' = <<h>>
    <3>1. CASE Pulls!HostsListed = {}  BY <1>10, <3>1 DEF Pulls!OpenPull
    <3>2. CASE Pulls!HostsListed # {}
      <4>1. \E h \in Pulls!HostsListed : selectedHosts' = <<h>>
        BY <1>10, <3>2, Zenon DEF Pulls!OpenPull
      <4> QED  BY <2>1, <4>1
    <3> QED  BY <3>1, <3>2
  <2>3. selectedHosts' \in Seq(Hosts)
    <3>1. << >> \in Seq(Hosts) /\ \A h \in Hosts : <<h>> \in Seq(Hosts)  OBVIOUS
    <3> QED  BY <2>2, <3>1, Zenon
  <2> QED  BY <1>10, <1>t, <1>r, <2>3 DEF Pulls!OpenPull, ImagesTypes
<1>11. CASE Pulls!ClosePull
  <2>1. ImagesTypes'  BY <1>11, <1>t DEF Pulls!ClosePull, ImagesTypes, PullRecord
  <2>2. /\ pull'.pc = pull.pc /\ (pull.pc = "no" => pull' = pull)
        /\ pull'.image = pull.image /\ pull'.at = pull.at /\ pull'.hosts = pull.hosts
    BY <1>11, <1>t DEF Pulls!ClosePull, ImagesTypes, PullRecord
  <2> QED  BY <1>11, <2>1, <2>2 DEF Pulls!ClosePull, ImagesIInv, Owed
<1>12. ASSUME NEW i \in {"a"}, Pulls!TypeName(i) PROVE ImagesIInv'
  BY <1>12, <1>t, <1>r DEF Pulls!TypeName, ImagesTypes
<1>13. ASSUME NEW h \in Hosts, Pulls!ToggleHost(h) PROVE ImagesIInv'
  <2>1. selectedHosts' \in Seq(Hosts)
    <3>1. CASE \E i \in DOMAIN selectedHosts :
                 selectedHosts' = SubSeq(selectedHosts, 1, i - 1)
                                    \o SubSeq(selectedHosts, i + 1, Len(selectedHosts))
      BY <1>h, <3>1, SeqWithout
    <3>2. CASE selectedHosts' = Append(selectedHosts, h)  BY <1>h, <3>2
    <3> QED  BY <1>13, <3>1, <3>2, Zenon DEF Pulls!ToggleHost
  <2> QED  BY <1>13, <1>t, <1>r, <2>1 DEF Pulls!ToggleHost, ImagesTypes
<1>14. CASE Pulls!Pull
  <2>1. /\ pull' \in PullRecord /\ pull'.pc = "asking"
        /\ pull'.image = "a" /\ pull'.at \in DOMAIN pull'.hosts
    <3>1. imageName = "a" /\ selectedHosts # << >>
      BY <1>14, <1>t DEF Pulls!Pull, ImagesTypes
    <3>2. 1 \in DOMAIN selectedHosts  BY <1>h, <3>1
    <3>3. pull' = [pc |-> "asking", image |-> "a", hosts |-> selectedHosts, at |-> 1,
                   aborted |-> FALSE]
      BY <1>14, <3>1 DEF Pulls!Pull
    <3> QED  BY <1>h, <3>2, <3>3 DEF PullRecord
  <2>2. ImagesTypes'  BY <1>14, <1>t, <2>1 DEF Pulls!Pull, ImagesTypes
  <2> QED  BY <2>1, <2>2 DEF ImagesIInv, Owed
<1>15. CASE Pulls!CancelPull
  <2>1. /\ ImagesTypes' /\ pull'.pc = pull.pc
        /\ pull'.image = pull.image /\ pull'.at = pull.at /\ pull'.hosts = pull.hosts
    BY <1>15, <1>t DEF Pulls!CancelPull, ImagesTypes, PullRecord
  <2> QED  BY <1>15, <2>1 DEF Pulls!CancelPull, ImagesIInv, Owed
<1>16. CASE Pulls!HostPulls
  <2>1. /\ pull'.pc \in {"done", "error"} /\ pull' \in PullRecord
        /\ pull'.image = pull.image /\ pull'.at = pull.at /\ pull'.hosts = pull.hosts
    BY <1>16, <1>t DEF Pulls!HostPulls, ImagesTypes, PullRecord
  <2>2. there' \subseteq Pulls!Places
    <3>1. there' \subseteq there \cup {<<pull.image, pull.hosts[pull.at]>>}
      BY <1>16 DEF Pulls!HostPulls
    <3>2. /\ pull.image = "a" /\ pull.at \in DOMAIN pull.hosts
          /\ pull.hosts \in Seq(Hosts)
      BY <1>16, <1>t DEF Pulls!HostPulls, ImagesIInv, ImagesTypes, PullRecord
    <3>3. pull.hosts[pull.at] \in Hosts  BY <3>2
    <3>4. <<pull.image, pull.hosts[pull.at]>> \in Pulls!Places
      BY <3>2, <3>3 DEF Pulls!Places
    <3> QED  BY <1>t, <3>1, <3>4 DEF ImagesTypes
  <2>4. pull.pc # "no"  BY <1>16 DEF Pulls!HostPulls
  <2>3. ImagesTypes'  BY <1>16, <1>t, <2>1, <2>2 DEF Pulls!HostPulls, ImagesTypes
  <2> QED  BY <2>1, <2>3, <2>4 DEF ImagesIInv, Owed
<1>c. ASSUME NEW p \in Pulls!Places, Pulls!StrayPull(p) PROVE ImagesIInv'
  <2>1. /\ there' = there \cup {p} /\ strays' = strays \ {p} /\ imagesUntold' = TRUE
        /\ UNCHANGED <<query, images, imageToDelete, removals, imageName, selectedHosts, pull>>
    BY <1>c DEF Pulls!StrayPull
  <2>2. ImagesTypes'  BY <1>t, <2>1 DEF ImagesTypes
  <2> QED  BY <2>1, <2>2 DEF ImagesIInv
<1>17. CASE Pulls!PullProceeds
  <2> USE DEF Pulls!PullProceeds, Pulls!AskNext
  <2>s. strays' \subseteq Pulls!Places
    <3>1. CASE strays' = strays  BY <1>t, <3>1 DEF ImagesTypes
    <3>2. CASE /\ pull.pc = "asking"
               /\ strays' = strays \cup {<<pull.image, pull.hosts[pull.at]>>}
      <4>1. /\ pull.image = "a" /\ pull.at \in DOMAIN pull.hosts
            /\ pull.hosts \in Seq(Hosts)
        BY <1>h, <3>2 DEF ImagesIInv, PullRecord
      <4>2. pull.hosts[pull.at] \in Hosts  BY <4>1
      <4>3. <<pull.image, pull.hosts[pull.at]>> \in Pulls!Places
        BY <4>1, <4>2 DEF Pulls!Places
      <4> QED  BY <1>t, <3>2, <4>3 DEF ImagesTypes
    <3> QED  BY <1>17, <3>1, <3>2
  <2>1. CASE pull.aborted \/ pull.at = Len(pull.hosts)
    <3>1. pull' = Pulls!NoPull /\ query' = [pc |-> "asking", data |-> {}]
      BY <1>17, <2>1
    <3>2. pull' \in PullRecord  BY <3>1 DEF PullRecord, Pulls!NoPull
    <3>3. query' \in [pc : {"asking", "answered", "idle"}, data : SUBSET Pulls!Places]
      BY <3>1
    <3>4. ImagesTypes'  BY <1>17, <1>t, <2>s, <3>2, <3>3 DEF ImagesTypes
    <3>5. pull'.pc = "no"  BY <3>1 DEF Pulls!NoPull
    <3> QED  BY <3>1, <3>4, <3>5 DEF ImagesIInv
  <2>2. CASE ~(pull.aborted \/ pull.at = Len(pull.hosts))
    <3>1. pull' = [pull EXCEPT !.pc = "asking", !.at = pull.at + 1] /\ query' = query
      BY <1>17, <2>2
    <3>2. pull.pc # "no" /\ pull.at \in DOMAIN pull.hosts /\ pull.image = "a"
      BY <1>17 DEF ImagesIInv
    <3>3. pull.at \in Nat /\ pull.at + 1 \in Nat /\ pull.at + 1 \in DOMAIN pull.hosts
      <4>1. pull.at \in Nat /\ pull.hosts \in Seq(Hosts)  BY <1>h DEF PullRecord
      <4> QED  BY <2>2, <3>2, <4>1
    <3>4. /\ pull' \in PullRecord /\ pull'.pc = "asking" /\ pull'.image = "a"
          /\ pull'.at \in DOMAIN pull'.hosts
      <4>1. pull \in PullRecord  BY <1>t DEF ImagesTypes
      <4> QED  BY <3>1, <3>2, <3>3, <4>1 DEF PullRecord
    <3>5. ImagesTypes'  BY <1>17, <1>t, <2>s, <3>1, <3>4 DEF ImagesTypes
    <3> QED  BY <3>4, <3>5 DEF ImagesIInv, Owed
  <2> QED  BY <2>1, <2>2
<1>18. CASE UNCHANGED imagesVars
  BY <1>18, <1>t, <1>r DEF imagesVars, ImagesTypes
<1> QED
  BY <1>0, <1>1, <1>2, <1>3, <1>4, <1>5, <1>6, <1>7, <1>8, <1>9, <1>10, <1>11, <1>12, <1>13,
     <1>14, <1>15, <1>16, <1>17, <1>18, <1>b, <1>c
  DEF Pulls!ImagesNext

\* When nothing is under way the table of images is what the hosts have, but
\* for what they did without telling anybody and for a list that could not be
\* read again (use-images-query.ts, image-pull-dialog.tsx).
THEOREM TableIsOfTheHosts == Spec => []Pulls!RestShowsTheHosts
<1>1. Init => ImagesIInv  BY ImagesStart
<1>2. ImagesIInv /\ [Next]_vars => ImagesIInv'  BY ImagesAreKept
<1>3. ImagesIInv => Pulls!RestShowsTheHosts
  BY DEF ImagesIInv, Pulls!RestShowsTheHosts, Pulls!isPulling, Owed
<1> QED  BY <1>1, <1>2, <1>3, PTL DEF Spec

\* A pull that was cancelled asks no further host.
LEMMA CancelledStays ==
  ImagesIInv /\ [Next]_vars => [pull.aborted => pull'.at <= pull.at]_imagesVars
<1> SUFFICES ASSUME ImagesIInv, [Next]_vars, pull.aborted, ~UNCHANGED imagesVars
             PROVE  pull'.at <= pull.at
  OBVIOUS
<1>0. Pulls!ImagesNext  BY ImagesRun
<1>t. pull \in PullRecord  BY DEF ImagesIInv, ImagesTypes
<1>p. pull.pc # "no"  BY DEF ImagesIInv, Pulls!NoPull
<1>a. pull.at \in Nat /\ pull.aborted = TRUE  BY <1>t DEF PullRecord
<1>1. CASE pull' = pull  BY <1>1, <1>a
<1>2. CASE Pulls!ClosePull
  <2>1. pull' \in {pull, [pull EXCEPT !.aborted = TRUE]}  BY <1>2 DEF Pulls!ClosePull
  <2>2. pull'.at = pull.at  BY <1>t, <2>1 DEF PullRecord
  <2> QED  BY <1>a, <2>2
<1>3. CASE Pulls!HostPulls
  BY <1>3, <1>a, <1>t DEF Pulls!HostPulls, PullRecord
<1>4. CASE Pulls!PullProceeds
  BY <1>4, <1>a DEF Pulls!PullProceeds, Pulls!AskNext, Pulls!NoPull
<1>5. CASE Pulls!Pull \/ Pulls!CancelPull
  BY <1>5, <1>a, <1>p DEF Pulls!Pull, Pulls!CancelPull, Pulls!isPulling
<1> QED
  BY <1>0, <1>1, <1>2, <1>3, <1>4, <1>5
  DEF Pulls!ImagesNext, Pulls!QueryAnswers, Pulls!QueryArrives, Pulls!QueryFails,
      Pulls!StrayPull, Pulls!Reload, Pulls!Search,
      Pulls!AskToDelete, Pulls!CancelDelete, Pulls!Delete, Pulls!Removed, Pulls!DeleteEnds,
      Pulls!OpenPull, Pulls!TypeName, Pulls!ToggleHost

\* Once a pull has been cancelled or its dialog closed, no further host is
\* asked for the image (image-pull-dialog.tsx handlePull, handleClose).
THEOREM CancelledIsLast == Spec => Pulls!CancelledAsksNoMore
<1>1. Init => ImagesIInv  BY ImagesStart
<1>2. ImagesIInv /\ [Next]_vars => ImagesIInv'  BY ImagesAreKept
<1>3. ImagesIInv /\ [Next]_vars => [pull.aborted => pull'.at <= pull.at]_Pulls!imagesVars
  BY CancelledStays DEF imagesVars, Pulls!imagesVars
<1> QED  BY <1>1, <1>2, <1>3, PTL DEF Spec, Pulls!CancelledAsksNoMore

-----------------------------------------------------------------------------
(* The types of the table of images.                                       *)

\* No host is ticked twice, so that no pull asks more hosts than there are.
DistinctHosts(chosenHosts) ==
    \A i, j \in DOMAIN chosenHosts : chosenHosts[i] = chosenHosts[j] => i = j

ImagesRest ==
    /\ imageSearch \in {"a"} \cup {""}
    /\ isPullDialogOpen \in BOOLEAN
    /\ imageFlows \in 0 .. MaxFlows
    /\ DistinctHosts(selectedHosts) /\ DistinctHosts(pull.hosts)

\* A sequence without repetitions is no longer than its elements are many.
LEMMA NoLongerThanMany ==
  ASSUME NEW s \in Seq(Hosts), DistinctHosts(s)
  PROVE  Len(s) <= Cardinality(Hosts)
<1> DEFINE n == Len(s)
           places == 1 .. n
<1>1. n \in Nat /\ s \in [places -> Hosts]  OBVIOUS
<1>2. IsFiniteSet(places) /\ Cardinality(places) = n
  <2>1. 1 \in Int /\ n \in Int  BY <1>1
  <2> HIDE DEF n
  <2>2. IsFiniteSet(1 .. n) /\ Cardinality(1 .. n) = IF 1 > n THEN 0 ELSE n - 1 + 1
    BY <2>1, FS_Interval, Zenon
  <2> QED  BY <1>1, <2>2
<1>3. s \in Injection(places, Hosts)
  <2>1. \A i, j \in places : s[i] = s[j] => i = j  BY <1>1 DEF DistinctHosts
  <2> HIDE DEF places
  <2> QED  BY <1>1, <2>1 DEF Injection, IsInjective
<1>4. Cardinality(places) <= Cardinality(Hosts)
  <2> HIDE DEF places
  <2> QED  BY <1>2, <1>3, HostsAreFinite, FS_Injection
<1> QED  BY <1>2, <1>4

\* None and one are not twice the same.
LEMMA FewAreDistinct == DistinctHosts(<< >>) /\ \A h : DistinctHosts(<<h>>)
BY DEF DistinctHosts

\* Another one is distinct from the others.
LEMMA DistinctWithAnother ==
  ASSUME NEW s \in Seq(Hosts), DistinctHosts(s), NEW h \in Hosts,
         \A i \in DOMAIN s : s[i] # h
  PROVE  DistinctHosts(Append(s, h))
<1> DEFINE more == Append(s, h)
<1>1. /\ Len(s) \in Nat /\ DOMAIN s = 1 .. Len(s) /\ DOMAIN more = 1 .. Len(s) + 1
      /\ more[Len(s) + 1] = h /\ \A k \in 1 .. Len(s) : more[k] = s[k]
  OBVIOUS
<1> HIDE DEF more
<1>2. ASSUME NEW k \in DOMAIN more, NEW l \in DOMAIN more, more[k] = more[l] PROVE k = l
  <2>1. k \in DOMAIN s \/ k = Len(s) + 1  BY <1>1
  <2>2. l \in DOMAIN s \/ l = Len(s) + 1  BY <1>1
  <2> QED  BY <1>1, <1>2, <2>1, <2>2 DEF DistinctHosts
<1> QED  BY <1>2 DEF DistinctHosts, more

\* What is left of a sequence without repetitions has none.
LEMMA DistinctWithoutOne ==
  ASSUME NEW s \in Seq(Hosts), DistinctHosts(s), NEW i \in DOMAIN s
  PROVE  DistinctHosts(SubSeq(s, 1, i - 1) \o SubSeq(s, i + 1, Len(s)))
<1> DEFINE before == SubSeq(s, 1, i - 1)
           after == SubSeq(s, i + 1, Len(s))
           left == before \o after
           at(k) == IF k < i THEN k ELSE k + 1
<1>1. i \in 1 .. Len(s) /\ Len(s) \in Nat  OBVIOUS
<1>2. before \in Seq(Hosts) /\ Len(before) = i - 1 /\ \A k \in 1 .. i - 1 : before[k] = s[k]
  BY <1>1
<1>3. /\ after \in Seq(Hosts) /\ Len(after) = Len(s) - i
      /\ \A k \in 1 .. Len(s) - i : after[k] = s[k + i]
  BY <1>1
<1>4. DOMAIN left = 1 .. Len(s) - 1
  BY <1>1, <1>2, <1>3
<1>5. ASSUME NEW k \in 1 .. Len(s) - 1 PROVE left[k] = s[at(k)] /\ at(k) \in DOMAIN s
  <2> HIDE DEF before, after
  <2>1. CASE k < i  BY <1>1, <1>2, <1>3, <2>1
  <2>2. CASE k >= i
    <3>1. left[k] = after[k - (i - 1)]  BY <1>1, <1>2, <1>3, <2>2
    <3>2. k - (i - 1) \in 1 .. Len(s) - i /\ (k - (i - 1)) + i = k + 1
      BY <1>1, <2>2
    <3>3. after[k - (i - 1)] = s[k + 1]  BY <1>3, <3>2
    <3>4. at(k) = k + 1 /\ k + 1 \in DOMAIN s  BY <1>1, <2>2
    <3> HIDE DEF left, at
    <3> QED  BY <3>1, <3>3, <3>4
  <2>3. k < i \/ k >= i  BY <1>1
  <2> HIDE DEF left, at
  <2> QED  BY <2>1, <2>2, <2>3
<1>6. ASSUME NEW k \in 1 .. Len(s) - 1, NEW l \in 1 .. Len(s) - 1, at(k) = at(l) PROVE k = l
  BY <1>1, <1>6
<1> HIDE DEF left, at
<1>7. ASSUME NEW k \in DOMAIN left, NEW l \in DOMAIN left, left[k] = left[l] PROVE k = l
  <2>1. s[at(k)] = s[at(l)] /\ at(k) \in DOMAIN s /\ at(l) \in DOMAIN s
    BY <1>4, <1>5, <1>7
  <2>2. at(k) = at(l)  BY <2>1 DEF DistinctHosts
  <2> QED  BY <1>4, <1>6, <2>2
<1> QED  BY <1>7 DEF DistinctHosts, left

\* Nothing is ticked at first.
LEMMA ImagesRestStarts == Init => ImagesRest
<1> SUFFICES ASSUME Pulls!ImagesInit PROVE ImagesRest
  BY DEF Init
<1>1. selectedHosts = << >> /\ pull.hosts = << >>
  BY DEF Pulls!ImagesInit, Pulls!NoPull
<1>2. DistinctHosts(selectedHosts) /\ DistinctHosts(pull.hosts)  BY <1>1, FewAreDistinct
<1>3. imageSearch = "" /\ isPullDialogOpen = FALSE /\ imageFlows = 0
  BY DEF Pulls!ImagesInit
<1>4. 0 \in 0 .. MaxFlows  BY BoundsAssumption
<1> QED  BY <1>2, <1>3, <1>4 DEF ImagesRest

\* Every step of the page keeps the rest of its types.
LEMMA ImagesRestIsKept == ImagesIInv /\ ImagesRest /\ [Next]_vars => ImagesRest'
<1> SUFFICES ASSUME ImagesIInv, ImagesRest, [Pulls!ImagesNext]_imagesVars
             PROVE  ImagesRest'
  BY ImagesRun
<1>0. /\ imageSearch \in {"a"} \cup {""} /\ isPullDialogOpen \in BOOLEAN
      /\ imageFlows \in 0 .. MaxFlows /\ MaxFlows \in Nat
      /\ DistinctHosts(selectedHosts) /\ DistinctHosts(pull.hosts)
  BY BoundsAssumption DEF ImagesRest
<1>f. ASSUME imageFlows < MaxFlows, imageFlows' = imageFlows + 1
      PROVE  imageFlows' \in 0 .. MaxFlows
  <2>1. imageFlows \in 0 .. MaxFlows /\ MaxFlows \in Nat  BY <1>0
  <2> QED  BY <1>f, <2>1
<1>t. selectedHosts \in Seq(Hosts) /\ pull \in PullRecord
  BY DEF ImagesIInv, ImagesTypes
<1>s. ASSUME imageSearch' \in {"a"} \cup {""}, isPullDialogOpen' \in BOOLEAN,
             imageFlows' \in 0 .. MaxFlows, selectedHosts' = selectedHosts,
             pull'.hosts = pull.hosts
      PROVE  ImagesRest'
  BY <1>0, <1>s DEF ImagesRest
<1>e. DistinctHosts(<< >>) /\ \A h : DistinctHosts(<<h>>)  BY FewAreDistinct
<1>1. CASE Pulls!OpenPull
  <2>1. selectedHosts' = << >> \/ \E h : selectedHosts' = <<h>>
    BY <1>1 DEF Pulls!OpenPull
  <2>2. DistinctHosts(selectedHosts')  BY <1>e, <2>1
  <2> QED  BY <1>0, <1>1, <2>2 DEF Pulls!OpenPull, ImagesRest
<1>2. CASE Pulls!ClosePull
  <2>1. pull'.hosts = pull.hosts  BY <1>2, <1>t DEF Pulls!ClosePull, PullRecord
  <2> QED  BY <1>0, <1>2, <1>s, <2>1 DEF Pulls!ClosePull
<1>3. ASSUME NEW h \in Hosts, Pulls!ToggleHost(h) PROVE ImagesRest'
  <2>1. CASE \E i \in DOMAIN selectedHosts :
               selectedHosts' = SubSeq(selectedHosts, 1, i - 1)
                                  \o SubSeq(selectedHosts, i + 1, Len(selectedHosts))
    <3>1. DistinctHosts(selectedHosts')  BY <1>0, <1>t, <2>1, DistinctWithoutOne
    <3> QED  BY <1>0, <1>3, <3>1 DEF Pulls!ToggleHost, ImagesRest
  <2>2. CASE /\ \A i \in DOMAIN selectedHosts : selectedHosts[i] # h
             /\ selectedHosts' = Append(selectedHosts, h)
    <3>1. DistinctHosts(selectedHosts')  BY <1>0, <1>t, <2>2, DistinctWithAnother
    <3> QED  BY <1>0, <1>3, <3>1 DEF Pulls!ToggleHost, ImagesRest
  <2> QED  BY <1>3, <2>1, <2>2, Zenon DEF Pulls!ToggleHost
<1>4. CASE Pulls!Pull
  <2>1. /\ pull' = [pc |-> "asking", image |-> imageName, hosts |-> selectedHosts,
                    at |-> 1, aborted |-> FALSE]
        /\ imageFlows < MaxFlows /\ imageFlows' = imageFlows + 1
        /\ UNCHANGED <<imageSearch, isPullDialogOpen, selectedHosts>>
    BY <1>4 DEF Pulls!Pull
  <2>2. pull'.hosts = selectedHosts  BY <2>1
  <2>3. imageFlows' \in 0 .. MaxFlows  BY <1>f, <2>1
  <2> QED  BY <1>0, <2>1, <2>2, <2>3 DEF ImagesRest
<1>5. CASE Pulls!CancelPull
  <2>1. pull'.hosts = pull.hosts  BY <1>5, <1>t DEF Pulls!CancelPull, PullRecord
  <2> QED  BY <1>0, <1>5, <1>s, <2>1 DEF Pulls!CancelPull
<1>6. CASE Pulls!HostPulls
  <2>1. pull'.hosts = pull.hosts  BY <1>6, <1>t DEF Pulls!HostPulls, PullRecord
  <2> QED  BY <1>0, <1>6, <1>s, <2>1 DEF Pulls!HostPulls
<1>7. CASE Pulls!PullProceeds
  <2>1. pull' = Pulls!NoPull \/ pull' = [pull EXCEPT !.pc = "asking", !.at = pull.at + 1]
    BY <1>7 DEF Pulls!PullProceeds, Pulls!AskNext
  <2>4. /\ imageSearch' \in {"a"} \cup {""} /\ isPullDialogOpen' \in BOOLEAN
        /\ imageFlows' \in 0 .. MaxFlows /\ selectedHosts' = selectedHosts
        /\ DistinctHosts(selectedHosts')
    BY <1>0, <1>7 DEF Pulls!PullProceeds
  <2>2. CASE pull' = Pulls!NoPull
    <3>1. pull'.hosts = << >>  BY <2>2 DEF Pulls!NoPull
    <3> QED  BY <1>e, <3>1, <2>4 DEF ImagesRest
  <2>3. CASE pull' = [pull EXCEPT !.pc = "asking", !.at = pull.at + 1]
    <3>1. pull'.hosts = pull.hosts  BY <1>t, <2>3 DEF PullRecord
    <3> QED  BY <1>s, <3>1, <2>4
  <2> QED  BY <2>1, <2>2, <2>3
<1>8. CASE Pulls!Delete
  <2>1. imageFlows' \in 0 .. MaxFlows  BY <1>8, <1>f DEF Pulls!Delete
  <2> QED  BY <1>0, <1>8, <1>s, <2>1 DEF Pulls!Delete
<1>9. ASSUME NEW text \in {"a"} \cup {""}, Pulls!Search(text) PROVE ImagesRest'
  BY <1>0, <1>9, <1>s DEF Pulls!Search
<1>10. ASSUME UNCHANGED <<imageSearch, isPullDialogOpen, imageFlows, selectedHosts, pull>>
       PROVE  ImagesRest'
  BY <1>0, <1>10, <1>s
<1>11. CASE \/ Pulls!QueryAnswers \/ Pulls!QueryArrives \/ Pulls!QueryFails \/ Pulls!Reload
            \/ \E p \in Pulls!Places : Pulls!AskToDelete(p) \/ Pulls!StrayPull(p)
            \/ Pulls!CancelDelete
            \/ \E r \in removals : Pulls!Removed(r) \/ Pulls!DeleteEnds(r)
            \/ \E i \in {"a"} : Pulls!TypeName(i)
            \/ UNCHANGED imagesVars
  BY <1>10, <1>11
  DEF Pulls!QueryAnswers, Pulls!QueryArrives, Pulls!QueryFails, Pulls!StrayPull,
      Pulls!Reload, Pulls!AskToDelete, Pulls!CancelDelete, Pulls!Removed, Pulls!DeleteEnds, Pulls!TypeName, imagesVars
<1> QED
  BY <1>1, <1>2, <1>3, <1>4, <1>5, <1>6, <1>7, <1>8, <1>9, <1>11 DEF Pulls!ImagesNext

\* The table of images and the dialog of pulls keep their types.
THEOREM ImagesTypesStay == Spec => []Pulls!ImagesTypeOK
<1>1. ImagesIInv /\ ImagesRest => Pulls!ImagesTypeOK
  <2> SUFFICES ASSUME ImagesIInv, ImagesRest PROVE Pulls!ImagesTypeOK
    OBVIOUS
  <2>1. pull \in PullRecord /\ removals \subseteq RemovalRecord
    BY DEF ImagesIInv, ImagesTypes
  <2>2. pull.at \in 0 .. Pulls!Cardinality(Hosts)
    <3>0. Pulls!Cardinality(Hosts) = Cardinality(Hosts)
      BY SMT DEF Pulls!Cardinality, Cardinality
    <3>1. pull.hosts \in Seq(Hosts) /\ pull.at \in Nat  BY <2>1 DEF PullRecord
    <3>2. Len(pull.hosts) <= Cardinality(Hosts)
      BY <3>1, NoLongerThanMany DEF ImagesRest
    <3>3. Cardinality(Hosts) \in Nat  BY HostsAreFinite, FS_CardinalityType
    <3>4. pull.at <= Len(pull.hosts)
      <4>1. CASE pull.pc = "no"
        BY <4>1, <3>1 DEF ImagesIInv, Pulls!NoPull
      <4>2. CASE pull.pc # "no"  BY <3>1, <4>2 DEF ImagesIInv
      <4> QED  BY <4>1, <4>2
    <3> QED  BY <3>0, <3>1, <3>2, <3>3, <3>4
  <2>3. pull \in [pc : {"no", "asking", "done", "error"}, image : {"a"} \cup {Pulls!NoImage},
                  hosts : Seq(Hosts), at : 0 .. Pulls!Cardinality(Hosts), aborted : BOOLEAN]
    BY <2>1, <2>2 DEF PullRecord
  <2> QED
    BY <2>1, <2>3, Zenon
    DEF ImagesIInv, ImagesTypes, ImagesRest, RemovalRecord, Pulls!ImagesTypeOK
<1>2. Init => ImagesIInv /\ ImagesRest  BY ImagesStart, ImagesRestStarts
<1>3. ImagesIInv /\ ImagesRest /\ [Next]_vars => (ImagesIInv /\ ImagesRest)'
  BY ImagesAreKept, ImagesRestIsKept
<1> QED  BY <1>1, <1>2, <1>3, PTL DEF Spec

-----------------------------------------------------------------------------
\* So many pages there are at most of c rows.
LEMMA PageCount ==
  ASSUME NEW c \in Nat, NEW s \in Nat \ {0}
  PROVE  (c + s - 1) \div s \in 0 .. c
<1> DEFINE q == (c + s - 1) \div s
<1>1. q \in Int /\ s * q <= c + s - 1 /\ q >= 0  BY Z3
<1>2. q <= c
  <2> SUFFICES ASSUME q >= c + 1 PROVE FALSE  BY <1>1
  <2>1. s * q >= s * (c + 1)  BY <1>1, Z3
  <2>2. s * (c + 1) >= c + s  BY Z3
  <2> QED  BY <1>1, <2>1, <2>2, Z3
<1> QED  BY <1>1, <1>2

-----------------------------------------------------------------------------
(* HistoryPage.                                                            *)

\* What is kept of an answer, and what is on its way.
HistoryAnswers ==
    [rows : SUBSET History!Scans, pages : 0 .. MaxScans, fresh : BOOLEAN, known : BOOLEAN,
     old : BOOLEAN]
HistoryFetches ==
    [pc : {"asking", "answered", "idle"}, rows : SUBSET History!Scans, pages : 0 .. MaxScans,
     old : BOOLEAN]
HistoryDeletions == [id : History!Scans \cup {History!None}, answer : {"none", "done", "error"}]

\* An answer on its way, or one that is kept, has nothing that was deleted,
\* unless it is old; or it is stale, and asked for as soon as it is shown.
HistoryKept(k) ==
    /\ historyFetch[k].pc = "answered" /\ ~historyFetch[k].old
       => historyFetch[k].rows \cap deleted = {}
    /\ \/ pages[k].rows \cap deleted = {}
       \/ pages[k].old
       \/ ~pages[k].fresh /\ (k = History!Key => historyFetch[k].pc # "idle")
    /\ ~pages[k].known => pages[k].rows = {}

\* Nothing that was deleted is stored.
HistoryIInv ==
    /\ History!HistoryTypeOK
    /\ stored \cap deleted = {}
    /\ deletion.answer = "done" => deletion.id \notin stored \cup {History!None}
    /\ \A k \in History!Keys : HistoryKept(k)

\* A request is none or just made.
LEMMA HistoryRequests ==
  /\ History!NoFetch \in HistoryFetches /\ History!NoFetch.pc = "idle"
  /\ History!Asking \in HistoryFetches /\ History!Asking.pc = "asking"
<1>1. History!NoFetch \in HistoryFetches /\ History!NoFetch.pc = "idle"
  BY HistoryAssumption DEF History!NoFetch, HistoryFetches
<1>2. History!Asking \in HistoryFetches /\ History!Asking.pc = "asking"
  BY <1>1 DEF History!Asking, History!NoFetch, HistoryFetches
<1> QED  BY <1>1, <1>2

\* The key that is shown is one, with its answer and its request.
LEMMA HistoryKeyed ==
  ASSUME History!HistoryTypeOK
  PROVE  /\ History!Key \in History!Keys
         /\ pages \in [History!Keys -> HistoryAnswers]
         /\ historyFetch \in [History!Keys -> HistoryFetches]
         /\ History!NoFetch \in HistoryFetches /\ History!NoFetch.pc = "idle"
         /\ History!Asking \in HistoryFetches /\ History!Asking.pc = "asking"
<1>1. History!Key \in History!Keys  BY DEF History!HistoryTypeOK, History!Keys, History!Key
<1>2. /\ pages \in [History!Keys -> HistoryAnswers]
      /\ historyFetch \in [History!Keys -> HistoryFetches]
  BY DEF History!HistoryTypeOK, HistoryAnswers, HistoryFetches
<1> QED  BY <1>1, <1>2, HistoryRequests

\* The server's answer is of what it has, in so many pages.
LEMMA HistoryAnswered ==
  ASSUME History!HistoryTypeOK, NEW k \in History!Keys
  PROVE  /\ History!RowsOf(k) \subseteq stored
         /\ History!PagesOf(k) \in 0 .. MaxScans
<1>1. History!Chosen(k) \subseteq stored  BY DEF History!Chosen
<1>2. History!RowsOf(k) \subseteq stored  BY <1>1 DEF History!RowsOf
<1>3. History!Cardinality(History!Chosen(k)) = Cardinality(History!Chosen(k))
  BY SMT DEF History!Cardinality, Cardinality
<1>4. Cardinality(History!Chosen(k)) \in 0 .. MaxScans
  <2>1. History!Chosen(k) \subseteq 1 .. MaxScans
    BY <1>1 DEF History!HistoryTypeOK, History!Scans
  <2>2. IsFiniteSet(1 .. MaxScans) /\ Cardinality(1 .. MaxScans) = MaxScans
    <3>1. 1 \in Int /\ MaxScans \in Int /\ MaxScans \in Nat  BY HistoryAssumption
    <3>2. IsFiniteSet(1 .. MaxScans)  BY <3>1, FS_Interval, Zenon
    <3>3. Cardinality(1 .. MaxScans) = IF 1 > MaxScans THEN 0 ELSE MaxScans - 1 + 1
      BY <3>1, FS_Interval, Zenon
    <3> QED  BY <3>1, <3>2, <3>3
  <2>3. /\ IsFiniteSet(History!Chosen(k))
        /\ Cardinality(History!Chosen(k)) <= MaxScans
    BY <2>1, <2>2, FS_Subset, Zenon
  <2>4. Cardinality(History!Chosen(k)) \in Nat  BY <2>3, FS_CardinalityType, Zenon
  <2> QED  BY <2>3, <2>4, HistoryAssumption
<1>5. PageSize \in Nat \ {0}  BY HistoryAssumption DEF History!PageAssumption
<1>6. ASSUME NEW c \in 0 .. MaxScans PROVE (c + PageSize - 1) \div PageSize \in 0 .. MaxScans
  <2>1. (c + PageSize - 1) \div PageSize \in 0 .. c  BY <1>5, <1>6, HistoryAssumption, PageCount
  <2> QED  BY <1>6, <2>1, HistoryAssumption
<1>7. History!PagesOf(k) \in 0 .. MaxScans  BY <1>3, <1>4, <1>6 DEF History!PagesOf
<1> QED  BY <1>2, <1>7

\* Another page is turned to: what is fresh is shown, anything else asked for.
LEMMA HistoryTurns ==
  ASSUME HistoryIInv, NEW p \in 1 .. MaxPage, NEW f \in Filters, NEW d \in {TRUE},
         History!TurnTo(p, f, d)
  PROVE  HistoryIInv'
<1> DEFINE k == <<p, f, d>>
<1>1. /\ page' = p /\ filtered' = f /\ descending' = d
      /\ UNCHANGED <<stored, pages, selectedScanId, deletion, deleted>>
      /\ History!Key' = k /\ k # History!Key
      /\ \/ historyFetch[k].pc = "idle" /\ historyFetch' = [historyFetch EXCEPT ![k] = History!Asking]
         \/ (historyFetch[k].pc # "idle" \/ pages[k].fresh) /\ UNCHANGED historyFetch
  BY DEF History!TurnTo, History!Come, History!Key
<1>2. k \in History!Keys  BY DEF History!Keys
<1>3. /\ historyFetch \in [History!Keys -> HistoryFetches]
      /\ History!Asking \in HistoryFetches /\ History!Asking.pc = "asking"
      /\ \A l \in History!Keys : HistoryKept(l)
  BY HistoryKeyed DEF HistoryIInv
<1> HIDE DEF k
<1>4. /\ historyFetch' \in [History!Keys -> HistoryFetches]
      /\ \A l \in History!Keys \ {k} : historyFetch'[l] = historyFetch[l]
      /\ \/ historyFetch'[k].pc = "asking"
         \/ historyFetch'[k] = historyFetch[k] /\ (historyFetch[k].pc # "idle" \/ pages[k].fresh)
  BY <1>1, <1>2, <1>3
<1>5. History!HistoryTypeOK'
  BY <1>1, <1>4 DEF HistoryIInv, History!HistoryTypeOK, HistoryFetches
<1>6. ASSUME NEW l \in History!Keys PROVE HistoryKept(l)'
  <2>1. CASE l = k  BY <1>1, <1>3, <1>4, <2>1 DEF HistoryKept
  <2>2. CASE l # k  BY <1>1, <1>3, <1>4, <2>2 DEF HistoryKept
  <2> QED  BY <2>1, <2>2
<1>7. History!Keys' = History!Keys  BY DEF History!Keys
<1> QED  BY <1>1, <1>5, <1>6, <1>7 DEF HistoryIInv

\* Every action of the page keeps the invariant.
LEMMA HistoryKeeps ==
  ASSUME HistoryIInv, [History!HistoryNext]_historyVars
  PROVE  HistoryIInv'
<1>t. History!HistoryTypeOK  BY DEF HistoryIInv
<1>k. /\ History!Key \in History!Keys
      /\ pages \in [History!Keys -> HistoryAnswers]
      /\ historyFetch \in [History!Keys -> HistoryFetches]
      /\ History!NoFetch \in HistoryFetches /\ History!NoFetch.pc = "idle"
      /\ History!Asking \in HistoryFetches /\ History!Asking.pc = "asking"
  BY <1>t, HistoryKeyed
<1>y. /\ page \in 1 .. MaxPage /\ filtered \in Filters /\ descending \in {TRUE}
      /\ stored \subseteq History!Scans /\ deleted \subseteq History!Scans
      /\ deletion \in HistoryDeletions /\ selectedScanId \in History!Scans \cup {History!None}
      /\ MaxPage \in Nat
  BY <1>t, HistoryAssumption DEF History!HistoryTypeOK, HistoryDeletions, History!PageAssumption
<1>i. /\ \A k \in History!Keys : HistoryKept(k)
      /\ stored \cap deleted = {}
      /\ deletion.answer = "done" => deletion.id \notin stored \cup {History!None}
  BY DEF HistoryIInv
<1>T. ASSUME stored' \subseteq History!Scans, UNCHANGED <<page, filtered, descending>>,
             pages' \in [History!Keys -> HistoryAnswers],
             historyFetch' \in [History!Keys -> HistoryFetches],
             selectedScanId' \in History!Scans \cup {History!None},
             deletion' \in HistoryDeletions, deleted' \subseteq History!Scans
      PROVE  History!HistoryTypeOK'
  BY <1>y, <1>T DEF History!HistoryTypeOK, HistoryAnswers, HistoryFetches, HistoryDeletions
<1>K. ASSUME UNCHANGED <<page, filtered, descending>> PROVE History!Key' = History!Key
  BY <1>K DEF History!Key
<1>Q. ASSUME History!HistoryTypeOK', \A k \in History!Keys : HistoryKept(k)',
             stored' \cap deleted' = {},
             deletion'.answer = "done" => deletion'.id \notin stored' \cup {History!None}
      PROVE  HistoryIInv'
  BY <1>Q DEF HistoryIInv
\* A step of one key's request.
<1>1. ASSUME NEW k \in History!Keys,
             History!FetchAnswers(k) \/ History!FetchArrives(k) \/ History!FetchFails(k)
      PROVE  HistoryIInv'
  <2>0. /\ UNCHANGED <<stored, page, filtered, descending, selectedScanId, deletion, deleted>>
        /\ History!Key' = History!Key
    BY <1>1, <1>K DEF History!FetchAnswers, History!FetchArrives, History!FetchFails
  <2>1. /\ pages' \in [History!Keys -> HistoryAnswers]
        /\ historyFetch' \in [History!Keys -> HistoryFetches]
        /\ \A l \in History!Keys \ {k} : pages'[l] = pages[l]
                                         /\ historyFetch'[l] = historyFetch[l]
        /\ HistoryKept(k)'
    <3>1. CASE History!FetchAnswers(k)
      <4> DEFINE a == [pc |-> "answered", rows |-> History!RowsOf(k),
                       pages |-> History!PagesOf(k),
                       old |-> FALSE]
      <4>1. historyFetch' = [historyFetch EXCEPT ![k] = a] /\ pages' = pages
        BY <3>1 DEF History!FetchAnswers
      <4>2. History!RowsOf(k) \subseteq stored /\ History!PagesOf(k) \in 0 .. MaxScans
        BY <1>t, HistoryAnswered
      <4>3. a \in HistoryFetches /\ a.rows \cap deleted = {} /\ a.pc = "answered"
        BY <1>i, <1>y, <4>2 DEF HistoryFetches
      <4> HIDE DEF a
      <4>4. /\ historyFetch'[k] = a
            /\ \A l \in History!Keys \ {k} : historyFetch'[l] = historyFetch[l]
        BY <1>k, <4>1
      <4>5. historyFetch' \in [History!Keys -> HistoryFetches]  BY <1>k, <4>1, <4>3
      <4> QED  BY <1>i, <1>k, <2>0, <4>1, <4>3, <4>4, <4>5 DEF HistoryKept
    <3>2. CASE History!FetchArrives(k)
      <4> DEFINE c == [rows |-> historyFetch[k].rows, pages |-> historyFetch[k].pages,
                       fresh |-> TRUE,
                       known |-> TRUE, old |-> historyFetch[k].old]
      <4>1. /\ historyFetch[k].pc = "answered"
            /\ historyFetch' = [historyFetch EXCEPT ![k] = History!NoFetch]
            /\ pages' = [pages EXCEPT ![k] = c]
        BY <3>2 DEF History!FetchArrives
      <4>2. /\ c \in HistoryAnswers /\ c.known
            /\ c.rows \cap deleted = {} \/ c.old
        BY <1>i, <1>k, <4>1 DEF HistoryAnswers, HistoryFetches, HistoryKept
      <4> HIDE DEF c
      <4>3. /\ historyFetch'[k] = History!NoFetch /\ pages'[k] = c
            /\ \A l \in History!Keys \ {k} : pages'[l] = pages[l]
                                             /\ historyFetch'[l] = historyFetch[l]
        BY <1>k, <4>1
      <4>4. /\ pages' \in [History!Keys -> HistoryAnswers]
            /\ historyFetch' \in [History!Keys -> HistoryFetches]
        BY <1>k, <4>1, <4>2
      <4> QED  BY <1>k, <2>0, <4>2, <4>3, <4>4 DEF HistoryKept
    <3>3. CASE History!FetchFails(k)
      <4> DEFINE c == [pages[k] EXCEPT !.fresh = FALSE, !.old = pages[k].known]
      <4>1. /\ historyFetch' = [historyFetch EXCEPT ![k] = History!NoFetch]
            /\ pages' = [pages EXCEPT ![k] = c]
        BY <1>k, <3>3 DEF History!FetchFails
      <4>2. /\ c \in HistoryAnswers /\ (c.old = pages[k].known)
            /\ c.known = pages[k].known /\ c.rows = pages[k].rows
        BY <1>k DEF HistoryAnswers
      <4>3. /\ historyFetch'[k] = History!NoFetch /\ pages'[k] = c
            /\ \A l \in History!Keys \ {k} : pages'[l] = pages[l]
                                             /\ historyFetch'[l] = historyFetch[l]
        BY <1>k, <4>1
      <4> HIDE DEF c
      <4>4. /\ pages' \in [History!Keys -> HistoryAnswers]
            /\ historyFetch' \in [History!Keys -> HistoryFetches]
        BY <1>k, <4>1, <4>2
      <4>5. pages[k].known \/ pages[k].rows = {}  BY <1>i DEF HistoryKept
      <4> QED  BY <1>k, <2>0, <4>2, <4>3, <4>4, <4>5 DEF HistoryKept
    <3> QED  BY <1>1, <3>1, <3>2, <3>3
  <2>2. History!HistoryTypeOK'  BY <1>y, <1>T, <2>0, <2>1
  <2>3. \A l \in History!Keys : HistoryKept(l)'
    <3> SUFFICES ASSUME NEW l \in History!Keys \ {k} PROVE HistoryKept(l)'
      BY <2>1
    <3> QED  BY <1>i, <2>0, <2>1 DEF HistoryKept
  <2> QED  BY <1>Q, <1>i, <2>0, <2>2, <2>3
<1>4. CASE History!SetFilter
  <2>1. PICK f \in Filters : History!TurnTo(1, f, descending)  BY <1>4 DEF History!SetFilter
  <2>2. 1 \in 1 .. MaxPage  BY <1>y
  <2> QED  BY <1>y, <2>1, <2>2, HistoryTurns
<1>5. CASE History!ToggleSort
  <2>1. PICK d \in {TRUE} : History!TurnTo(page, filtered, d)  BY <1>5 DEF History!ToggleSort
  <2> QED  BY <1>y, <2>1, HistoryTurns
<1>6. CASE History!Previous
  <2>1. History!TurnTo(page - 1, filtered, descending) /\ page > 1  BY <1>6 DEF History!Previous
  <2>2. page - 1 \in 1 .. MaxPage  BY <1>y, <2>1
  <2> QED  BY <1>y, <2>1, <2>2, HistoryTurns
<1>7. CASE History!NextPage
  <2>1. History!TurnTo(page + 1, filtered, descending) /\ page < MaxPage
    BY <1>7 DEF History!NextPage
  <2>2. page + 1 \in 1 .. MaxPage  BY <1>y, <2>1
  <2> QED  BY <1>y, <2>1, <2>2, HistoryTurns
\* What leaves answers and requests as they are.
<1>P. ASSUME UNCHANGED <<page, filtered, descending, pages, historyFetch, deleted>>
      PROVE  \A k \in History!Keys : HistoryKept(k)'
  BY <1>K, <1>P, <1>i DEF HistoryKept
<1>8. ASSUME NEW s \in History!Scans, History!Select(s) \/ History!AskToDelete(s)
      PROVE  HistoryIInv'
  <2>1. /\ UNCHANGED <<stored, page, filtered, descending, pages, historyFetch, deleted>>
        /\ selectedScanId' \in {selectedScanId, s}
        /\ deletion' = deletion \/ deletion' = [id |-> s, answer |-> "none"]
    BY <1>8 DEF History!Select, History!AskToDelete
  <2>2. selectedScanId' \in History!Scans \cup {History!None} /\ deletion' \in HistoryDeletions
    BY <1>y, <1>8, <2>1 DEF HistoryDeletions
  <2>3. History!HistoryTypeOK'  BY <1>y, <1>k, <1>T, <2>1, <2>2
  <2>4. deletion'.answer = "done" => deletion' = deletion  BY <2>1
  <2> QED  BY <1>P, <1>Q, <1>i, <2>1, <2>3, <2>4
<1>9. CASE History!Deselect \/ UNCHANGED historyVars
  <2>1. /\ UNCHANGED <<stored, page, filtered, descending, pages, historyFetch, deletion,
                       deleted>>
        /\ selectedScanId' \in {selectedScanId, History!None}
    BY <1>9 DEF History!Deselect, historyVars
  <2>2. History!HistoryTypeOK'  BY <1>y, <1>k, <1>T, <2>1
  <2> QED  BY <1>P, <1>Q, <1>i, <2>1, <2>2
<1>10. CASE History!ServerDeletes
  <2>1. PICK done \in BOOLEAN, a \in {"done", "error"} :
           /\ a = "done" => done
           /\ deletion' = [deletion EXCEPT !.answer = a]
           /\ stored' = IF done THEN stored \ {deletion.id} ELSE stored
    BY <1>10 DEF History!ServerDeletes
  <2>2. UNCHANGED <<page, filtered, descending, pages, historyFetch, selectedScanId, deleted>>
    BY <1>10 DEF History!ServerDeletes
  <2>3. deletion' \in HistoryDeletions /\ deletion'.id = deletion.id /\ deletion'.answer = a
    BY <1>y, <2>1 DEF HistoryDeletions
  <2>4. stored' \subseteq stored /\ (a = "done" => deletion.id \notin stored' \cup {History!None})
    BY <1>10, <2>1 DEF History!ServerDeletes
  <2>5. History!HistoryTypeOK'  BY <1>y, <1>k, <1>T, <2>2, <2>3, <2>4
  <2>6. stored' \cap deleted' = {}  BY <1>i, <2>2, <2>4
  <2> QED  BY <1>P, <1>Q, <2>2, <2>3, <2>4, <2>5, <2>6
<1>11. CASE History!DeletionEnds
  <2>1. /\ deletion' = History!NoDeletion
        /\ UNCHANGED <<stored, page, filtered, descending, selectedScanId>>
        /\ History!Key' = History!Key
    BY <1>11, <1>K DEF History!DeletionEnds
  <2>2. deletion' \in HistoryDeletions /\ deletion'.answer # "done"
    BY <2>1 DEF History!NoDeletion, HistoryDeletions
  <2>3. CASE deletion.answer # "done"
    <3>1. UNCHANGED <<pages, historyFetch, deleted>>  BY <1>11, <2>3 DEF History!DeletionEnds
    <3>2. History!HistoryTypeOK'  BY <1>y, <1>k, <1>T, <2>1, <2>2, <3>1
    <3> QED  BY <1>P, <1>Q, <1>i, <2>1, <2>2, <3>1, <3>2
  <2>4. CASE deletion.answer = "done"
    <3> DEFINE aged(k) == [pages[k] EXCEPT !.fresh = FALSE]
               late(k) == [historyFetch[k] EXCEPT !.old = (historyFetch[k].pc = "answered")]
               next(k) == IF History!GoesOn(k) THEN late(k)
                          ELSE IF k = History!Key THEN History!Asking ELSE historyFetch[k]
    <3>1. /\ pages' = [k \in History!Keys |-> aged(k)]
          /\ historyFetch' = [k \in History!Keys |-> next(k)]
          /\ deleted' = deleted \cup {deletion.id}
      BY <1>11, <2>1, <2>4 DEF History!DeletionEnds, History!Invalidate
    <3>2. ASSUME NEW k \in History!Keys
          PROVE  /\ aged(k) \in HistoryAnswers /\ ~aged(k).fresh
                 /\ aged(k).rows = pages[k].rows /\ aged(k).known = pages[k].known
      BY <1>k DEF HistoryAnswers
    <3>3. ASSUME NEW k \in History!Keys
          PROVE  /\ late(k) \in HistoryFetches /\ late(k).pc = historyFetch[k].pc
                 /\ late(k).pc = "answered" => late(k).old
      BY <1>k DEF HistoryFetches
    <3>n. \A k \in History!Keys : next(k) \in HistoryFetches
      <4> HIDE DEF late
      <4> QED  BY <1>k, <3>3
    <3>m. ASSUME NEW k \in History!Keys
          PROVE  pages'[k] = aged(k) /\ historyFetch'[k] = next(k)
      BY <3>1
    <3>4. /\ pages' \in [History!Keys -> HistoryAnswers]
          /\ historyFetch' \in [History!Keys -> HistoryFetches]
      BY <3>1, <3>2, <3>n
    <3> HIDE DEF aged, late, next
    <3>5. deletion.id \in History!Scans /\ deletion.id \notin stored
      BY <1>i, <1>y, <2>4 DEF HistoryDeletions
    <3>6. History!HistoryTypeOK'  BY <1>y, <1>T, <2>1, <2>2, <3>1, <3>4, <3>5
    <3>7. stored' \cap deleted' = {}  BY <1>i, <2>1, <3>1, <3>5
    <3>8. ASSUME NEW k \in History!Keys PROVE HistoryKept(k)'
      <4>1. pages'[k] = aged(k) /\ historyFetch'[k] = next(k)
        BY <3>m
      <4>2. CASE History!GoesOn(k)
        <5>1. historyFetch'[k] = late(k) /\ historyFetch[k].pc # "idle"
          BY <4>1, <4>2 DEF History!GoesOn, next
        <5> QED  BY <1>i, <3>2, <3>3, <4>1, <5>1 DEF HistoryKept
      <4>3. CASE ~History!GoesOn(k) /\ k = History!Key
        <5>1. historyFetch'[k] = History!Asking  BY <4>1, <4>3 DEF next
        <5> QED  BY <1>i, <1>k, <3>2, <4>1, <5>1 DEF HistoryKept
      <4>4. CASE ~History!GoesOn(k) /\ k # History!Key
        <5>1. historyFetch'[k] = historyFetch[k] /\ historyFetch[k].pc = "idle"
          BY <4>1, <4>4 DEF History!GoesOn, next
        <5> QED  BY <1>i, <2>1, <3>2, <4>1, <4>4, <5>1 DEF HistoryKept
      <4> QED  BY <4>2, <4>3, <4>4
    <3> QED  BY <1>Q, <2>2, <3>6, <3>7, <3>8
  <2> QED  BY <2>3, <2>4
<1> QED
  BY <1>1, <1>4, <1>5, <1>6, <1>7, <1>8, <1>9, <1>10, <1>11
  DEF History!HistoryNext

\* The pages run the history by its own steps.
LEMMA HistoryRun == [Next]_vars => [History!HistoryNext]_historyVars
<1>1. CASE Next
  BY <1>1 DEF Next
<1>2. CASE UNCHANGED vars
  BY <1>2 DEF vars
<1> QED  BY <1>1, <1>2

\* Nothing was deleted and nothing answered when the page opens.
LEMMA HistoryStarts == Init => HistoryIInv
<1> SUFFICES ASSUME History!HistoryInit PROVE HistoryIInv
  BY DEF Init
<1>1. /\ page = 1 /\ filtered = FALSE /\ descending = TRUE
      /\ pages = [k \in History!Keys |-> History!Nothing]
      /\ historyFetch = [k \in History!Keys |->
            IF k = History!Key THEN History!Asking ELSE History!NoFetch]
      /\ selectedScanId = History!None /\ deletion = History!NoDeletion /\ deleted = {}
  BY DEF History!HistoryInit
<1>2. stored \subseteq History!Scans
  <2>1. PICK n \in 0 .. MaxScans : stored = 1 .. n  BY DEF History!HistoryInit
  <2> QED  BY <2>1, HistoryAssumption DEF History!Scans
<1>3. /\ History!NoFetch \in HistoryFetches /\ History!NoFetch.pc = "idle"
      /\ History!Asking \in HistoryFetches /\ History!Asking.pc = "asking"
  BY HistoryRequests
<1>4. History!Nothing \in HistoryAnswers /\ History!Nothing.rows = {}
  BY HistoryAssumption DEF History!Nothing, HistoryAnswers
<1>5. deletion \in HistoryDeletions /\ deletion.answer = "none"
  BY <1>1 DEF History!NoDeletion, HistoryDeletions
<1>6. 1 \in 1 .. MaxPage /\ FALSE \in Filters
  <2>1. MaxPage \in Nat \ {0} /\ FALSE \in Filters
    BY HistoryAssumption, Zenon DEF History!PageAssumption
  <2>2. 1 \in 1 .. MaxPage  BY <2>1
  <2> QED  BY <2>1, <2>2
<1>7. History!HistoryTypeOK
  BY <1>1, <1>2, <1>3, <1>4, <1>5, <1>6
  DEF History!HistoryTypeOK, HistoryFetches, HistoryAnswers, HistoryDeletions
<1>8. ASSUME NEW k \in History!Keys PROVE HistoryKept(k)
  BY <1>1, <1>3, <1>4 DEF HistoryKept
<1> QED  BY <1>1, <1>5, <1>7, <1>8 DEF HistoryIInv

\* A scan whose deletion was told is not in the table once its key is not
\* asked for, whatever page, filter or order it is come to by, unless what is
\* shown was answered before the deletion or could not be asked for again
\* (history page, useDeleteScanHistory).
THEOREM DeletedStaysGone == Spec => [](History!HistoryTypeOK /\ History!DeletedIsGone)
<1>1. Init => HistoryIInv  BY HistoryStarts
<1>2. HistoryIInv /\ [Next]_vars => HistoryIInv'  BY HistoryRun, HistoryKeeps
<1>3. HistoryIInv => History!HistoryTypeOK /\ History!DeletedIsGone
  <2> SUFFICES ASSUME HistoryIInv PROVE History!DeletedIsGone
    BY DEF HistoryIInv
  <2>1. HistoryKept(History!Key)  BY HistoryKeyed DEF HistoryIInv
  <2> QED  BY <2>1 DEF HistoryKept, History!DeletedIsGone, History!historyData
<1> QED  BY <1>1, <1>2, <1>3, PTL DEF Spec

-----------------------------------------------------------------------------
(* SbomHistory, which is HistoryPage over SBOMs, of which more are generated. *)

\* What is kept of an answer, and what is on its way.
MadeAnswers ==
    [rows : SUBSET SbomPage!Page!Scans, pages : 0 .. 1, fresh : BOOLEAN, known : BOOLEAN,
     old : BOOLEAN]
MadeFetches ==
    [pc : {"asking", "answered", "idle"}, rows : SUBSET SbomPage!Page!Scans, pages : 0 .. 1,
     old : BOOLEAN]
MadeDeletions == [id : SbomPage!Page!Scans \cup {SbomPage!Page!None}, answer : {"none", "done",
                                                                                "error"}]

\* An answer on its way, or one that is kept, has nothing that was deleted,
\* unless it is old; or it is stale, and asked for as soon as it is shown.
MadeKept(k) ==
    /\ sbomFetch[k].pc = "answered" /\ ~sbomFetch[k].old
       => sbomFetch[k].rows \cap sbomsDeleted = {}
    /\ \/ sbomPages[k].rows \cap sbomsDeleted = {}
       \/ sbomPages[k].old
       \/ ~sbomPages[k].fresh /\ (k = SbomPage!Page!Key => sbomFetch[k].pc # "idle")
    /\ ~sbomPages[k].known => sbomPages[k].rows = {}

\* Nothing that was deleted is stored.
MadeIInv ==
    /\ SbomPage!Page!HistoryTypeOK
    /\ sbomsStored \cap sbomsDeleted = {}
    /\ sbomDeletion.answer = "done"
       => sbomDeletion.id \notin sbomsStored \cup {SbomPage!Page!None}
    /\ \A k \in SbomPage!Page!Keys : MadeKept(k)

\* A request is none or just made.
LEMMA MadeRequests ==
  /\ SbomPage!Page!NoFetch \in MadeFetches /\ SbomPage!Page!NoFetch.pc = "idle"
  /\ SbomPage!Page!Asking \in MadeFetches /\ SbomPage!Page!Asking.pc = "asking"
<1>1. SbomPage!Page!NoFetch \in MadeFetches /\ SbomPage!Page!NoFetch.pc = "idle"
  BY HistoryAssumption DEF SbomPage!Page!NoFetch, MadeFetches
<1>2. SbomPage!Page!Asking \in MadeFetches /\ SbomPage!Page!Asking.pc = "asking"
  BY <1>1 DEF SbomPage!Page!Asking, SbomPage!Page!NoFetch, MadeFetches
<1> QED  BY <1>1, <1>2

\* The key that is shown is one, with its answer and its request.
LEMMA MadeKeyed ==
  ASSUME SbomPage!Page!HistoryTypeOK
  PROVE  /\ SbomPage!Page!Key \in SbomPage!Page!Keys
         /\ sbomPages \in [SbomPage!Page!Keys -> MadeAnswers]
         /\ sbomFetch \in [SbomPage!Page!Keys -> MadeFetches]
         /\ SbomPage!Page!NoFetch \in MadeFetches /\ SbomPage!Page!NoFetch.pc = "idle"
         /\ SbomPage!Page!Asking \in MadeFetches /\ SbomPage!Page!Asking.pc = "asking"
<1>1. SbomPage!Page!Key \in SbomPage!Page!Keys
  BY DEF SbomPage!Page!HistoryTypeOK, SbomPage!Page!Keys, SbomPage!Page!Key
<1>2. /\ sbomPages \in [SbomPage!Page!Keys -> MadeAnswers]
      /\ sbomFetch \in [SbomPage!Page!Keys -> MadeFetches]
  BY DEF SbomPage!Page!HistoryTypeOK, MadeAnswers, MadeFetches
<1> QED  BY <1>1, <1>2, MadeRequests

\* The server's answer is of what it has, in so many pages.
LEMMA MadeAnswered ==
  ASSUME SbomPage!Page!HistoryTypeOK, NEW k \in SbomPage!Page!Keys
  PROVE  /\ SbomPage!Page!RowsOf(k) \subseteq sbomsStored
         /\ SbomPage!Page!PagesOf(k) \in 0 .. 1
<1>1. SbomPage!Page!Chosen(k) \subseteq sbomsStored  BY DEF SbomPage!Page!Chosen
<1>2. SbomPage!Page!RowsOf(k) \subseteq sbomsStored  BY <1>1 DEF SbomPage!Page!RowsOf
<1>3. SbomPage!Page!Cardinality(SbomPage!Page!Chosen(k)) = Cardinality(SbomPage!Page!Chosen(k))
  BY SMT DEF SbomPage!Page!Cardinality, Cardinality
<1>4. Cardinality(SbomPage!Page!Chosen(k)) \in 0 .. 1
  <2>1. SbomPage!Page!Chosen(k) \subseteq 1 .. 1
    BY <1>1 DEF SbomPage!Page!HistoryTypeOK, SbomPage!Page!Scans
  <2>2. IsFiniteSet(1 .. 1) /\ Cardinality(1 .. 1) = 1
    <3>1. 1 \in Int /\ 1 \in Nat  OBVIOUS
    <3>2. IsFiniteSet(1 .. 1)  BY <3>1, FS_Interval, Zenon
    <3>3. Cardinality(1 .. 1) = IF 1 > 1 THEN 0 ELSE 1 - 1 + 1
      BY <3>1, FS_Interval, Zenon
    <3> QED  BY <3>1, <3>2, <3>3
  <2>3. /\ IsFiniteSet(SbomPage!Page!Chosen(k))
        /\ Cardinality(SbomPage!Page!Chosen(k)) <= 1
    BY <2>1, <2>2, FS_Subset, Zenon
  <2>4. Cardinality(SbomPage!Page!Chosen(k)) \in Nat  BY <2>3, FS_CardinalityType, Zenon
  <2> QED  BY <2>3, <2>4, HistoryAssumption
<1>5. PageSize \in Nat \ {0}  BY HistoryAssumption DEF History!PageAssumption
<1>6. ASSUME NEW c \in 0 .. 1 PROVE (c + PageSize - 1) \div PageSize \in 0 .. 1
  <2>1. (c + PageSize - 1) \div PageSize \in 0 .. c  BY <1>5, <1>6, HistoryAssumption, PageCount
  <2> QED  BY <1>6, <2>1, HistoryAssumption
<1>7. SbomPage!Page!PagesOf(k) \in 0 .. 1  BY <1>3, <1>4, <1>6 DEF SbomPage!Page!PagesOf
<1> QED  BY <1>2, <1>7

\* Another page is turned to: what is fresh is shown, anything else asked for.
LEMMA MadeTurns ==
  ASSUME MadeIInv, NEW p \in 1 .. 1, NEW f \in Filters, NEW d \in BOOLEAN,
         SbomPage!Page!TurnTo(p, f, d)
  PROVE  MadeIInv'
<1> DEFINE k == <<p, f, d>>
<1>1. /\ sbomPage' = p /\ sbomFiltered' = f /\ sbomDescending' = d
      /\ UNCHANGED <<sbomsStored, sbomPages, selectedSBOMId, sbomDeletion, sbomsDeleted>>
      /\ SbomPage!Page!Key' = k /\ k # SbomPage!Page!Key
      /\ \/ sbomFetch[k].pc = "idle" /\ sbomFetch' = [sbomFetch EXCEPT ![k] = SbomPage!Page!Asking]
         \/ (sbomFetch[k].pc # "idle" \/ sbomPages[k].fresh) /\ UNCHANGED sbomFetch
  BY DEF SbomPage!Page!TurnTo, SbomPage!Page!Come, SbomPage!Page!Key
<1>2. k \in SbomPage!Page!Keys  BY DEF SbomPage!Page!Keys
<1>3. /\ sbomFetch \in [SbomPage!Page!Keys -> MadeFetches]
      /\ SbomPage!Page!Asking \in MadeFetches /\ SbomPage!Page!Asking.pc = "asking"
      /\ \A l \in SbomPage!Page!Keys : MadeKept(l)
  BY MadeKeyed DEF MadeIInv
<1> HIDE DEF k
<1>4. /\ sbomFetch' \in [SbomPage!Page!Keys -> MadeFetches]
      /\ \A l \in SbomPage!Page!Keys \ {k} : sbomFetch'[l] = sbomFetch[l]
      /\ \/ sbomFetch'[k].pc = "asking"
         \/ sbomFetch'[k] = sbomFetch[k] /\ (sbomFetch[k].pc # "idle" \/ sbomPages[k].fresh)
  BY <1>1, <1>2, <1>3
<1>5. SbomPage!Page!HistoryTypeOK'
  BY <1>1, <1>4 DEF MadeIInv, SbomPage!Page!HistoryTypeOK, MadeFetches
<1>6. ASSUME NEW l \in SbomPage!Page!Keys PROVE MadeKept(l)'
  <2>1. CASE l = k  BY <1>1, <1>3, <1>4, <2>1 DEF MadeKept
  <2>2. CASE l # k  BY <1>1, <1>3, <1>4, <2>2 DEF MadeKept
  <2> QED  BY <2>1, <2>2
<1>7. SbomPage!Page!Keys' = SbomPage!Page!Keys  BY DEF SbomPage!Page!Keys
<1> QED  BY <1>1, <1>5, <1>6, <1>7 DEF MadeIInv

\* Every action of the page keeps the invariant.
LEMMA MadeKeeps ==
  ASSUME MadeIInv, [SbomPage!Page!HistoryNext]_SbomPage!pageVars
  PROVE  MadeIInv'
<1>t. SbomPage!Page!HistoryTypeOK  BY DEF MadeIInv
<1>k. /\ SbomPage!Page!Key \in SbomPage!Page!Keys
      /\ sbomPages \in [SbomPage!Page!Keys -> MadeAnswers]
      /\ sbomFetch \in [SbomPage!Page!Keys -> MadeFetches]
      /\ SbomPage!Page!NoFetch \in MadeFetches /\ SbomPage!Page!NoFetch.pc = "idle"
      /\ SbomPage!Page!Asking \in MadeFetches /\ SbomPage!Page!Asking.pc = "asking"
  BY <1>t, MadeKeyed
<1>y. /\ sbomPage \in 1 .. 1 /\ sbomFiltered \in Filters /\ sbomDescending \in BOOLEAN
      /\ sbomsStored \subseteq SbomPage!Page!Scans /\ sbomsDeleted \subseteq SbomPage!Page!Scans
      /\ sbomDeletion \in MadeDeletions
      /\ selectedSBOMId \in SbomPage!Page!Scans \cup {SbomPage!Page!None}
      /\ 1 \in Nat
  BY <1>t, HistoryAssumption
  DEF SbomPage!Page!HistoryTypeOK, MadeDeletions, History!PageAssumption
<1>i. /\ \A k \in SbomPage!Page!Keys : MadeKept(k)
      /\ sbomsStored \cap sbomsDeleted = {}
      /\ sbomDeletion.answer = "done"
         => sbomDeletion.id \notin sbomsStored \cup {SbomPage!Page!None}
  BY DEF MadeIInv
<1>T. ASSUME sbomsStored' \subseteq SbomPage!Page!Scans, UNCHANGED <<sbomPage, sbomFiltered,
                                                                     sbomDescending>>,
             sbomPages' \in [SbomPage!Page!Keys -> MadeAnswers],
             sbomFetch' \in [SbomPage!Page!Keys -> MadeFetches],
             selectedSBOMId' \in SbomPage!Page!Scans \cup {SbomPage!Page!None},
             sbomDeletion' \in MadeDeletions, sbomsDeleted' \subseteq SbomPage!Page!Scans
      PROVE  SbomPage!Page!HistoryTypeOK'
  BY <1>y, <1>T DEF SbomPage!Page!HistoryTypeOK, MadeAnswers, MadeFetches, MadeDeletions
<1>K. ASSUME UNCHANGED <<sbomPage, sbomFiltered, sbomDescending>>
      PROVE  SbomPage!Page!Key' = SbomPage!Page!Key
  BY <1>K DEF SbomPage!Page!Key
<1>Q. ASSUME SbomPage!Page!HistoryTypeOK', \A k \in SbomPage!Page!Keys : MadeKept(k)',
             sbomsStored' \cap sbomsDeleted' = {},
             sbomDeletion'.answer = "done"
                => sbomDeletion'.id \notin sbomsStored' \cup {SbomPage!Page!None}
      PROVE  MadeIInv'
  BY <1>Q DEF MadeIInv
\* A step of one key's request.
<1>1. ASSUME NEW k \in SbomPage!Page!Keys,
             SbomPage!Page!FetchAnswers(k) \/ SbomPage!Page!FetchArrives(k)
             \/ SbomPage!Page!FetchFails(k)
      PROVE  MadeIInv'
  <2>0. /\ UNCHANGED <<sbomsStored, sbomPage, sbomFiltered, sbomDescending, selectedSBOMId,
                       sbomDeletion, sbomsDeleted>>
        /\ SbomPage!Page!Key' = SbomPage!Page!Key
    BY <1>1, <1>K
    DEF SbomPage!Page!FetchAnswers, SbomPage!Page!FetchArrives, SbomPage!Page!FetchFails
  <2>1. /\ sbomPages' \in [SbomPage!Page!Keys -> MadeAnswers]
        /\ sbomFetch' \in [SbomPage!Page!Keys -> MadeFetches]
        /\ \A l \in SbomPage!Page!Keys \ {k} : sbomPages'[l] = sbomPages[l]
                                               /\ sbomFetch'[l] = sbomFetch[l]
        /\ MadeKept(k)'
    <3>1. CASE SbomPage!Page!FetchAnswers(k)
      <4> DEFINE a == [pc |-> "answered", rows |-> SbomPage!Page!RowsOf(k),
                       pages |-> SbomPage!Page!PagesOf(k),
                       old |-> FALSE]
      <4>1. sbomFetch' = [sbomFetch EXCEPT ![k] = a] /\ sbomPages' = sbomPages
        BY <3>1 DEF SbomPage!Page!FetchAnswers
      <4>2. SbomPage!Page!RowsOf(k) \subseteq sbomsStored /\ SbomPage!Page!PagesOf(k) \in 0 .. 1
        BY <1>t, MadeAnswered
      <4>3. a \in MadeFetches /\ a.rows \cap sbomsDeleted = {} /\ a.pc = "answered"
        BY <1>i, <1>y, <4>2 DEF MadeFetches
      <4> HIDE DEF a
      <4>4. sbomFetch'[k] = a /\ \A l \in SbomPage!Page!Keys \ {k} : sbomFetch'[l] = sbomFetch[l]
        BY <1>k, <4>1
      <4>5. sbomFetch' \in [SbomPage!Page!Keys -> MadeFetches]  BY <1>k, <4>1, <4>3
      <4> QED  BY <1>i, <1>k, <2>0, <4>1, <4>3, <4>4, <4>5 DEF MadeKept
    <3>2. CASE SbomPage!Page!FetchArrives(k)
      <4> DEFINE c == [rows |-> sbomFetch[k].rows, pages |-> sbomFetch[k].pages, fresh |-> TRUE,
                       known |-> TRUE, old |-> sbomFetch[k].old]
      <4>1. /\ sbomFetch[k].pc = "answered"
            /\ sbomFetch' = [sbomFetch EXCEPT ![k] = SbomPage!Page!NoFetch]
            /\ sbomPages' = [sbomPages EXCEPT ![k] = c]
        BY <3>2 DEF SbomPage!Page!FetchArrives
      <4>2. /\ c \in MadeAnswers /\ c.known
            /\ c.rows \cap sbomsDeleted = {} \/ c.old
        BY <1>i, <1>k, <4>1 DEF MadeAnswers, MadeFetches, MadeKept
      <4> HIDE DEF c
      <4>3. /\ sbomFetch'[k] = SbomPage!Page!NoFetch /\ sbomPages'[k] = c
            /\ \A l \in SbomPage!Page!Keys \ {k} : sbomPages'[l] = sbomPages[l]
                                                   /\ sbomFetch'[l] = sbomFetch[l]
        BY <1>k, <4>1
      <4>4. /\ sbomPages' \in [SbomPage!Page!Keys -> MadeAnswers]
            /\ sbomFetch' \in [SbomPage!Page!Keys -> MadeFetches]
        BY <1>k, <4>1, <4>2
      <4> QED  BY <1>k, <2>0, <4>2, <4>3, <4>4 DEF MadeKept
    <3>3. CASE SbomPage!Page!FetchFails(k)
      <4> DEFINE c == [sbomPages[k] EXCEPT !.fresh = FALSE, !.old = sbomPages[k].known]
      <4>1. /\ sbomFetch' = [sbomFetch EXCEPT ![k] = SbomPage!Page!NoFetch]
            /\ sbomPages' = [sbomPages EXCEPT ![k] = c]
        BY <1>k, <3>3 DEF SbomPage!Page!FetchFails
      <4>2. /\ c \in MadeAnswers /\ (c.old = sbomPages[k].known)
            /\ c.known = sbomPages[k].known /\ c.rows = sbomPages[k].rows
        BY <1>k DEF MadeAnswers
      <4>3. /\ sbomFetch'[k] = SbomPage!Page!NoFetch /\ sbomPages'[k] = c
            /\ \A l \in SbomPage!Page!Keys \ {k} : sbomPages'[l] = sbomPages[l]
                                                   /\ sbomFetch'[l] = sbomFetch[l]
        BY <1>k, <4>1
      <4> HIDE DEF c
      <4>4. /\ sbomPages' \in [SbomPage!Page!Keys -> MadeAnswers]
            /\ sbomFetch' \in [SbomPage!Page!Keys -> MadeFetches]
        BY <1>k, <4>1, <4>2
      <4>5. sbomPages[k].known \/ sbomPages[k].rows = {}  BY <1>i DEF MadeKept
      <4> QED  BY <1>k, <2>0, <4>2, <4>3, <4>4, <4>5 DEF MadeKept
    <3> QED  BY <1>1, <3>1, <3>2, <3>3
  <2>2. SbomPage!Page!HistoryTypeOK'  BY <1>y, <1>T, <2>0, <2>1
  <2>3. \A l \in SbomPage!Page!Keys : MadeKept(l)'
    <3> SUFFICES ASSUME NEW l \in SbomPage!Page!Keys \ {k} PROVE MadeKept(l)'
      BY <2>1
    <3> QED  BY <1>i, <2>0, <2>1 DEF MadeKept
  <2> QED  BY <1>Q, <1>i, <2>0, <2>2, <2>3
<1>4. CASE SbomPage!Page!SetFilter
  <2>1. PICK f \in Filters : SbomPage!Page!TurnTo(1, f, sbomDescending)
    BY <1>4 DEF SbomPage!Page!SetFilter
  <2>2. 1 \in 1 .. 1  BY <1>y
  <2> QED  BY <1>y, <2>1, <2>2, MadeTurns
<1>5. CASE SbomPage!Page!ToggleSort
  <2>1. PICK d \in BOOLEAN : SbomPage!Page!TurnTo(sbomPage, sbomFiltered, d)
    BY <1>5 DEF SbomPage!Page!ToggleSort
  <2> QED  BY <1>y, <2>1, MadeTurns
<1>6. CASE SbomPage!Page!Previous
  <2>1. SbomPage!Page!TurnTo(sbomPage - 1, sbomFiltered, sbomDescending) /\ sbomPage > 1
    BY <1>6 DEF SbomPage!Page!Previous
  <2>2. sbomPage - 1 \in 1 .. 1  BY <1>y, <2>1
  <2> QED  BY <1>y, <2>1, <2>2, MadeTurns
<1>7. CASE SbomPage!Page!NextPage
  <2>1. SbomPage!Page!TurnTo(sbomPage + 1, sbomFiltered, sbomDescending) /\ sbomPage < 1
    BY <1>7 DEF SbomPage!Page!NextPage
  <2>2. sbomPage + 1 \in 1 .. 1  BY <1>y, <2>1
  <2> QED  BY <1>y, <2>1, <2>2, MadeTurns
\* What leaves answers and requests as they are.
<1>P. ASSUME UNCHANGED <<sbomPage, sbomFiltered, sbomDescending, sbomPages, sbomFetch,
                         sbomsDeleted>>
      PROVE  \A k \in SbomPage!Page!Keys : MadeKept(k)'
  BY <1>K, <1>P, <1>i DEF MadeKept
<1>8. ASSUME NEW s \in SbomPage!Page!Scans,
             SbomPage!Page!Select(s) \/ SbomPage!Page!AskToDelete(s)
      PROVE  MadeIInv'
  <2>1. /\ UNCHANGED <<sbomsStored, sbomPage, sbomFiltered, sbomDescending, sbomPages, sbomFetch,
                       sbomsDeleted>>
        /\ selectedSBOMId' \in {selectedSBOMId, s}
        /\ sbomDeletion' = sbomDeletion \/ sbomDeletion' = [id |-> s, answer |-> "none"]
    BY <1>8 DEF SbomPage!Page!Select, SbomPage!Page!AskToDelete
  <2>2. /\ selectedSBOMId' \in SbomPage!Page!Scans \cup {SbomPage!Page!None}
        /\ sbomDeletion' \in MadeDeletions
    BY <1>y, <1>8, <2>1 DEF MadeDeletions
  <2>3. SbomPage!Page!HistoryTypeOK'  BY <1>y, <1>k, <1>T, <2>1, <2>2
  <2>4. sbomDeletion'.answer = "done" => sbomDeletion' = sbomDeletion  BY <2>1
  <2> QED  BY <1>P, <1>Q, <1>i, <2>1, <2>3, <2>4
<1>9. CASE SbomPage!Page!Deselect \/ UNCHANGED SbomPage!pageVars
  <2>1. /\ UNCHANGED <<sbomsStored, sbomPage, sbomFiltered, sbomDescending, sbomPages, sbomFetch,
                       sbomDeletion, sbomsDeleted>>
        /\ selectedSBOMId' \in {selectedSBOMId, SbomPage!Page!None}
    BY <1>9 DEF SbomPage!Page!Deselect, SbomPage!pageVars
  <2>2. SbomPage!Page!HistoryTypeOK'  BY <1>y, <1>k, <1>T, <2>1
  <2> QED  BY <1>P, <1>Q, <1>i, <2>1, <2>2
<1>10. CASE SbomPage!Page!ServerDeletes
  <2>1. PICK done \in BOOLEAN, a \in {"done", "error"} :
           /\ a = "done" => done
           /\ sbomDeletion' = [sbomDeletion EXCEPT !.answer = a]
           /\ sbomsStored' = IF done THEN sbomsStored \ {sbomDeletion.id} ELSE sbomsStored
    BY <1>10 DEF SbomPage!Page!ServerDeletes
  <2>2. UNCHANGED <<sbomPage, sbomFiltered, sbomDescending, sbomPages, sbomFetch, selectedSBOMId,
                    sbomsDeleted>>
    BY <1>10 DEF SbomPage!Page!ServerDeletes
  <2>3. /\ sbomDeletion' \in MadeDeletions
        /\ sbomDeletion'.id = sbomDeletion.id /\ sbomDeletion'.answer = a
    BY <1>y, <2>1 DEF MadeDeletions
  <2>4. /\ sbomsStored' \subseteq sbomsStored
        /\ (a = "done" => sbomDeletion.id \notin sbomsStored' \cup {SbomPage!Page!None})
    BY <1>10, <2>1 DEF SbomPage!Page!ServerDeletes
  <2>5. SbomPage!Page!HistoryTypeOK'  BY <1>y, <1>k, <1>T, <2>2, <2>3, <2>4
  <2>6. sbomsStored' \cap sbomsDeleted' = {}  BY <1>i, <2>2, <2>4
  <2> QED  BY <1>P, <1>Q, <2>2, <2>3, <2>4, <2>5, <2>6
<1>11. CASE SbomPage!Page!DeletionEnds
  <2>1. /\ sbomDeletion' = SbomPage!Page!NoDeletion
        /\ UNCHANGED <<sbomsStored, sbomPage, sbomFiltered, sbomDescending, selectedSBOMId>>
        /\ SbomPage!Page!Key' = SbomPage!Page!Key
    BY <1>11, <1>K DEF SbomPage!Page!DeletionEnds
  <2>2. sbomDeletion' \in MadeDeletions /\ sbomDeletion'.answer # "done"
    BY <2>1 DEF SbomPage!Page!NoDeletion, MadeDeletions
  <2>3. CASE sbomDeletion.answer # "done"
    <3>1. UNCHANGED <<sbomPages, sbomFetch, sbomsDeleted>>
      BY <1>11, <2>3 DEF SbomPage!Page!DeletionEnds
    <3>2. SbomPage!Page!HistoryTypeOK'  BY <1>y, <1>k, <1>T, <2>1, <2>2, <3>1
    <3> QED  BY <1>P, <1>Q, <1>i, <2>1, <2>2, <3>1, <3>2
  <2>4. CASE sbomDeletion.answer = "done"
    <3> DEFINE aged(k) == [sbomPages[k] EXCEPT !.fresh = FALSE]
               late(k) == [sbomFetch[k] EXCEPT !.old = (sbomFetch[k].pc = "answered")]
               next(k) == IF SbomPage!Page!GoesOn(k) THEN late(k)
                          ELSE IF k = SbomPage!Page!Key THEN SbomPage!Page!Asking ELSE sbomFetch[k]
    <3>1. /\ sbomPages' = [k \in SbomPage!Page!Keys |-> aged(k)]
          /\ sbomFetch' = [k \in SbomPage!Page!Keys |-> next(k)]
          /\ sbomsDeleted' = sbomsDeleted \cup {sbomDeletion.id}
      BY <1>11, <2>1, <2>4 DEF SbomPage!Page!DeletionEnds, SbomPage!Page!Invalidate
    <3>2. ASSUME NEW k \in SbomPage!Page!Keys
          PROVE  /\ aged(k) \in MadeAnswers /\ ~aged(k).fresh
                 /\ aged(k).rows = sbomPages[k].rows /\ aged(k).known = sbomPages[k].known
      BY <1>k DEF MadeAnswers
    <3>3. ASSUME NEW k \in SbomPage!Page!Keys
          PROVE  /\ late(k) \in MadeFetches /\ late(k).pc = sbomFetch[k].pc
                 /\ late(k).pc = "answered" => late(k).old
      BY <1>k DEF MadeFetches
    <3>n. \A k \in SbomPage!Page!Keys : next(k) \in MadeFetches
      <4> HIDE DEF late
      <4> QED  BY <1>k, <3>3
    <3>m. ASSUME NEW k \in SbomPage!Page!Keys
          PROVE  sbomPages'[k] = aged(k) /\ sbomFetch'[k] = next(k)
      BY <3>1
    <3>4. /\ sbomPages' \in [SbomPage!Page!Keys -> MadeAnswers]
          /\ sbomFetch' \in [SbomPage!Page!Keys -> MadeFetches]
      BY <3>1, <3>2, <3>n
    <3> HIDE DEF aged, late, next
    <3>5. sbomDeletion.id \in SbomPage!Page!Scans /\ sbomDeletion.id \notin sbomsStored
      BY <1>i, <1>y, <2>4 DEF MadeDeletions
    <3>6. SbomPage!Page!HistoryTypeOK'  BY <1>y, <1>T, <2>1, <2>2, <3>1, <3>4, <3>5
    <3>7. sbomsStored' \cap sbomsDeleted' = {}  BY <1>i, <2>1, <3>1, <3>5
    <3>8. ASSUME NEW k \in SbomPage!Page!Keys PROVE MadeKept(k)'
      <4>1. sbomPages'[k] = aged(k) /\ sbomFetch'[k] = next(k)
        BY <3>m
      <4>2. CASE SbomPage!Page!GoesOn(k)
        <5>1. sbomFetch'[k] = late(k) /\ sbomFetch[k].pc # "idle"
          BY <4>1, <4>2 DEF SbomPage!Page!GoesOn, next
        <5> QED  BY <1>i, <3>2, <3>3, <4>1, <5>1 DEF MadeKept
      <4>3. CASE ~SbomPage!Page!GoesOn(k) /\ k = SbomPage!Page!Key
        <5>1. sbomFetch'[k] = SbomPage!Page!Asking  BY <4>1, <4>3 DEF next
        <5> QED  BY <1>i, <1>k, <3>2, <4>1, <5>1 DEF MadeKept
      <4>4. CASE ~SbomPage!Page!GoesOn(k) /\ k # SbomPage!Page!Key
        <5>1. sbomFetch'[k] = sbomFetch[k] /\ sbomFetch[k].pc = "idle"
          BY <4>1, <4>4 DEF SbomPage!Page!GoesOn, next
        <5> QED  BY <1>i, <2>1, <3>2, <4>1, <4>4, <5>1 DEF MadeKept
      <4> QED  BY <4>2, <4>3, <4>4
    <3> QED  BY <1>Q, <2>2, <3>6, <3>7, <3>8
  <2> QED  BY <2>3, <2>4
<1> QED
  BY <1>1, <1>4, <1>5, <1>6, <1>7, <1>8, <1>9, <1>10, <1>11
  DEF SbomPage!Page!HistoryNext

\* Before the first SBOM there is nothing to show, to ask for or to delete.
MadeFirst ==
    /\ sbomsMade \in 0 .. 1
    /\ sbomsMade = 0 =>
          /\ sbomsStored = {} /\ sbomsDeleted = {} /\ sbomDeletion.id = 0
          /\ \A k \in SbomPage!Page!Keys : sbomPages[k].rows = {} /\ sbomFetch[k].rows = {}

\* A new SBOM is one that was never deleted.
LEMMA MadeGrows ==
  MadeIInv /\ MadeFirst /\ SbomPage!Generated => MadeIInv' /\ MadeFirst'
<1> SUFFICES ASSUME MadeIInv, MadeFirst, SbomPage!Generated PROVE MadeIInv' /\ MadeFirst'
  OBVIOUS
<1>1. /\ sbomsMade < 1 /\ sbomsMade' = sbomsMade + 1
      /\ sbomsStored' = sbomsStored \cup {sbomsMade'}
      /\ UNCHANGED <<sbomPage, sbomFiltered, sbomDescending, sbomPages, sbomFetch,
                     selectedSBOMId, sbomDeletion, sbomsDeleted>>
  BY DEF SbomPage!Generated
<1>2. sbomsMade = 0 /\ sbomsMade' = 1  BY <1>1 DEF MadeFirst
<1>3. /\ sbomsStored' = {1} /\ sbomsDeleted = {} /\ sbomDeletion.id = 0
  BY <1>1, <1>2 DEF MadeFirst
<1>4. SbomPage!Page!HistoryTypeOK'
  <2>1. sbomsStored' \subseteq SbomPage!Page!Scans  BY <1>3 DEF SbomPage!Page!Scans
  <2> QED  BY <1>1, <2>1 DEF MadeIInv, SbomPage!Page!HistoryTypeOK
<1>5. SbomPage!Page!Keys' = SbomPage!Page!Keys /\ SbomPage!Page!Key' = SbomPage!Page!Key
  BY <1>1 DEF SbomPage!Page!Keys, SbomPage!Page!Key
<1>6. ASSUME NEW k \in SbomPage!Page!Keys PROVE MadeKept(k)'
  BY <1>1, <1>5 DEF MadeIInv, MadeKept
<1>7. sbomDeletion'.answer = "done" => sbomDeletion'.id \notin sbomsStored' \cup {0}
  BY <1>1, <1>3 DEF MadeIInv, SbomPage!Page!None
<1>8. MadeFirst'  BY <1>2 DEF MadeFirst
<1> QED  BY <1>1, <1>3, <1>4, <1>5, <1>6, <1>7, <1>8 DEF MadeIInv, SbomPage!Page!None

\* No step of the page shows or deletes an SBOM before there is one.
LEMMA FirstStays ==
  ASSUME MadeIInv, MadeFirst, [SbomPage!Page!HistoryNext]_SbomPage!pageVars,
         sbomsMade' = sbomsMade
  PROVE  MadeFirst'
<1> USE DEF MadeFirst
<1> SUFFICES ASSUME sbomsMade = 0
             PROVE  /\ sbomsStored' = {} /\ sbomsDeleted' = {} /\ sbomDeletion'.id = 0
                    /\ \A k \in SbomPage!Page!Keys : sbomPages'[k].rows = {}
                                                     /\ sbomFetch'[k].rows = {}
  OBVIOUS
<1>k. /\ SbomPage!Page!Key \in SbomPage!Page!Keys
      /\ sbomPages \in [SbomPage!Page!Keys -> MadeAnswers]
      /\ sbomFetch \in [SbomPage!Page!Keys -> MadeFetches]
  BY MadeKeyed DEF MadeIInv
<1>a. SbomPage!Page!Asking.rows = {} /\ SbomPage!Page!NoFetch.rows = {}
  BY DEF SbomPage!Page!Asking, SbomPage!Page!NoFetch
<1>e. /\ sbomsStored = {} /\ sbomsDeleted = {} /\ sbomDeletion.id = 0
      /\ \A k \in SbomPage!Page!Keys : sbomPages[k].rows = {} /\ sbomFetch[k].rows = {}
  OBVIOUS
<1>1. ASSUME NEW k \in SbomPage!Page!Keys, SbomPage!Page!FetchAnswers(k) PROVE
         /\ UNCHANGED <<sbomsStored, sbomsDeleted, sbomDeletion, sbomPages>>
         /\ \A l \in SbomPage!Page!Keys : sbomFetch'[l].rows = {}
  <2>1. SbomPage!Page!RowsOf(k) = {}
    BY <1>e DEF SbomPage!Page!RowsOf, SbomPage!Page!Chosen
  <2> QED  BY <1>1, <1>e, <1>k, <2>1 DEF SbomPage!Page!FetchAnswers
<1>2. ASSUME NEW k \in SbomPage!Page!Keys, SbomPage!Page!FetchArrives(k) PROVE
         /\ UNCHANGED <<sbomsStored, sbomsDeleted, sbomDeletion>>
         /\ \A l \in SbomPage!Page!Keys : sbomPages'[l].rows = {} /\ sbomFetch'[l].rows = {}
  BY <1>2, <1>a, <1>e, <1>k DEF SbomPage!Page!FetchArrives
<1>3. ASSUME NEW k \in SbomPage!Page!Keys, SbomPage!Page!FetchFails(k) PROVE
         /\ UNCHANGED <<sbomsStored, sbomsDeleted, sbomDeletion>>
         /\ \A l \in SbomPage!Page!Keys : sbomPages'[l].rows = {} /\ sbomFetch'[l].rows = {}
  <2>1. sbomPages' = [sbomPages EXCEPT ![k] =
           [@ EXCEPT !.fresh = FALSE, !.old = sbomPages[k].known]]
    BY <1>3 DEF SbomPage!Page!FetchFails
  <2>2. \A l \in SbomPage!Page!Keys : sbomPages'[l].rows = sbomPages[l].rows
    BY <1>k, <2>1 DEF MadeAnswers
  <2> QED  BY <1>3, <1>a, <1>e, <1>k, <2>2 DEF SbomPage!Page!FetchFails
<1>4. ASSUME NEW p, NEW f, NEW d, SbomPage!Page!TurnTo(p, f, d) PROVE
         /\ UNCHANGED <<sbomsStored, sbomsDeleted, sbomDeletion, sbomPages>>
         /\ \A l \in SbomPage!Page!Keys : sbomFetch'[l].rows = {}
  BY <1>4, <1>a, <1>e, <1>k DEF SbomPage!Page!TurnTo, SbomPage!Page!Come
<1>5. ASSUME NEW s, SbomPage!Page!Select(s) \/ SbomPage!Page!AskToDelete(s) PROVE
         UNCHANGED <<sbomsStored, sbomsDeleted, sbomDeletion, sbomPages, sbomFetch>>
  BY <1>5, <1>e, <1>k
  DEF SbomPage!Page!Select, SbomPage!Page!AskToDelete, SbomPage!Page!historyData
<1>6. CASE SbomPage!Page!ServerDeletes
  BY <1>6, <1>e DEF SbomPage!Page!ServerDeletes, SbomPage!Page!None
<1>7. CASE SbomPage!Page!DeletionEnds
  <2>1. sbomDeletion.answer # "done"  BY <1>e DEF MadeIInv, SbomPage!Page!None
  <2> QED
    BY <1>7, <1>e, <2>1
    DEF SbomPage!Page!DeletionEnds, SbomPage!Page!NoDeletion, SbomPage!Page!None
<1>8. CASE SbomPage!Page!Deselect \/ UNCHANGED SbomPage!pageVars
  BY <1>8, <1>e DEF SbomPage!Page!Deselect, SbomPage!pageVars
<1>9. CASE \/ SbomPage!Page!SetFilter \/ SbomPage!Page!ToggleSort
           \/ SbomPage!Page!Previous \/ SbomPage!Page!NextPage
  <2>1. PICK p, f, d : SbomPage!Page!TurnTo(p, f, d)
    BY <1>9 DEF SbomPage!Page!SetFilter, SbomPage!Page!ToggleSort, SbomPage!Page!Previous,
                SbomPage!Page!NextPage
  <2> QED  BY <1>4, <1>e, <2>1
<1> QED
  BY <1>1, <1>2, <1>3, <1>5, <1>6, <1>7, <1>8, <1>9, <1>e DEF SbomPage!Page!HistoryNext

\* What the pages do, as the page of past SBOMs sees it.
LEMMA SbomHistoryRun == [Next]_vars => [SbomPage!SbomHistoryNext]_sbomHistoryVars
<1>1. CASE Next  BY <1>1 DEF Next
<1>2. CASE UNCHANGED vars  BY <1>2 DEF vars
<1> QED  BY <1>1, <1>2

\* The page of SBOMs is the page of scans, but for an SBOM that is generated
\* and a dialog that has its details.
LEMMA MadeRun ==
  [Next]_vars => \/ SbomPage!Generated
                 \/ [SbomPage!Page!HistoryNext]_SbomPage!pageVars /\ sbomsMade' = sbomsMade
<1>1. CASE Next
  <2>1. [SbomPage!SbomHistoryNext]_sbomHistoryVars  BY <1>1 DEF Next
  <2>2. UNCHANGED sbomHistoryVars => UNCHANGED <<SbomPage!pageVars, sbomsMade>>
    BY DEF sbomHistoryVars, SbomPage!pageVars
  <2>3. CASE SbomPage!SbomHistoryNext
    BY <2>3
    DEF SbomPage!SbomHistoryNext, SbomPage!SetFilter, SbomPage!ToggleSort, SbomPage!ClickRow,
        SbomPage!TurnPage, SbomPage!CloseDetails, SbomPage!Answers, SbomPage!Deletes,
        SbomPage!DetailsArrive, SbomPage!SBOMs, SbomPage!Page!HistoryNext
  <2> QED  BY <2>1, <2>2, <2>3
<1>2. CASE UNCHANGED vars
  BY <1>2 DEF vars, sbomHistoryVars, SbomPage!pageVars
<1> QED  BY <1>1, <1>2

\* Nothing was deleted and nothing answered when the page opens.
LEMMA MadeStarts == Init => MadeIInv
<1> SUFFICES ASSUME SbomPage!Page!HistoryInit PROVE MadeIInv
  BY DEF Init, SbomPage!SbomHistoryInit
<1>1. /\ sbomPage = 1 /\ sbomFiltered = FALSE /\ sbomDescending = TRUE
      /\ sbomPages = [k \in SbomPage!Page!Keys |-> SbomPage!Page!Nothing]
      /\ sbomFetch = [k \in SbomPage!Page!Keys |->
            IF k = SbomPage!Page!Key THEN SbomPage!Page!Asking ELSE SbomPage!Page!NoFetch]
      /\ selectedSBOMId = SbomPage!Page!None /\ sbomDeletion = SbomPage!Page!NoDeletion
      /\ sbomsDeleted = {}
  BY DEF SbomPage!Page!HistoryInit
<1>2. sbomsStored \subseteq SbomPage!Page!Scans
  <2>1. PICK n \in 0 .. 1 : sbomsStored = 1 .. n  BY DEF SbomPage!Page!HistoryInit
  <2> QED  BY <2>1, HistoryAssumption DEF SbomPage!Page!Scans
<1>3. /\ SbomPage!Page!NoFetch \in MadeFetches /\ SbomPage!Page!NoFetch.pc = "idle"
      /\ SbomPage!Page!Asking \in MadeFetches /\ SbomPage!Page!Asking.pc = "asking"
  BY MadeRequests
<1>4. SbomPage!Page!Nothing \in MadeAnswers /\ SbomPage!Page!Nothing.rows = {}
  BY HistoryAssumption DEF SbomPage!Page!Nothing, MadeAnswers
<1>5. sbomDeletion \in MadeDeletions /\ sbomDeletion.answer = "none"
  BY <1>1 DEF SbomPage!Page!NoDeletion, MadeDeletions
<1>6. 1 \in 1 .. 1 /\ FALSE \in Filters
  <2>1. FALSE \in Filters  BY HistoryAssumption DEF History!PageAssumption
  <2>2. 1 \in 1 .. 1  OBVIOUS
  <2> QED  BY <2>1, <2>2, Zenon
<1>7. SbomPage!Page!HistoryTypeOK
  BY <1>1, <1>2, <1>3, <1>4, <1>5, <1>6
  DEF SbomPage!Page!HistoryTypeOK, MadeFetches, MadeAnswers, MadeDeletions
<1>8. ASSUME NEW k \in SbomPage!Page!Keys PROVE MadeKept(k)
  BY <1>1, <1>3, <1>4 DEF MadeKept
<1> QED  BY <1>1, <1>5, <1>7, <1>8 DEF MadeIInv

\* Nothing has been generated, or what the server has.
LEMMA FirstStarts == Init => MadeFirst
<1> SUFFICES ASSUME SbomPage!SbomHistoryInit PROVE MadeFirst
  BY DEF Init
<1>1. /\ sbomsMade \in 0 .. 1 /\ sbomsStored = 1 .. sbomsMade /\ sbomsDeleted = {}
      /\ sbomDeletion.id = 0
      /\ sbomPages = [k \in SbomPage!Page!Keys |-> SbomPage!Page!Nothing]
      /\ sbomFetch = [k \in SbomPage!Page!Keys |->
            IF k = SbomPage!Page!Key THEN SbomPage!Page!Asking ELSE SbomPage!Page!NoFetch]
  BY DEF SbomPage!SbomHistoryInit, SbomPage!Page!HistoryInit, SbomPage!Page!NoDeletion,
         SbomPage!Page!None
<1>2. /\ SbomPage!Page!Asking.rows = {} /\ SbomPage!Page!NoFetch.rows = {}
      /\ SbomPage!Page!Nothing.rows = {}
  BY DEF SbomPage!Page!Asking, SbomPage!Page!NoFetch, SbomPage!Page!Nothing
<1>3. sbomsMade = 0 => sbomsStored = {}  BY <1>1
<1> QED  BY <1>1, <1>2, <1>3 DEF MadeFirst

\* Whatever is generated, opened, sorted and deleted.
LEMMA MadeStays == Spec => [](MadeIInv /\ MadeFirst)
<1>1. Init => MadeIInv /\ MadeFirst  BY MadeStarts, FirstStarts
<1>2. MadeIInv /\ MadeFirst /\ [Next]_vars => MadeIInv' /\ MadeFirst'
  BY MadeRun, MadeGrows, MadeKeeps, FirstStays
<1> QED  BY <1>1, <1>2, PTL DEF Spec

\* An SBOM whose deletion was told is not in the table, as a scan, whatever is
\* generated meanwhile (SBOM history page, useDeleteSBOMHistory).
THEOREM DeletedSbomStaysGone == Spec => []SbomPage!DeletedSbomIsGone
<1>1. MadeIInv => SbomPage!DeletedSbomIsGone
  <2> SUFFICES ASSUME MadeIInv PROVE SbomPage!DeletedSbomIsGone
    OBVIOUS
  <2>1. MadeKept(SbomPage!Page!Key)  BY MadeKeyed DEF MadeIInv
  <2> QED
    BY <2>1 DEF MadeKept, SbomPage!DeletedSbomIsGone, SbomPage!Page!DeletedIsGone,
                SbomPage!Page!historyData
<1> QED  BY <1>1, MadeStays, PTL

-----------------------------------------------------------------------------
(* DatabasesPage.                                                          *)

\* What is kept of answers: of a database, its tables.
BaseCaches ==
    {c \in [Bases!Keys -> [known : BOOLEAN, items : SUBSET Bases!Listable, error : BOOLEAN]] :
        \A i \in 1 .. 2, d \in 1 .. 2 : c[<<i, d>>].items \subseteq {1}}
Selections == (0 .. 2) \X (0 .. 2) \X (0 .. 1)
LevelRequest == [pc : {"idle", "asking", "answered"}, items : SUBSET Bases!Listable]

\* A path is chosen and, as far as it goes, still listed.
Follows(way, s, c) ==
    \/ way = << >>
    \/ \E i \in 1 .. 2 :
          /\ s[1] = i /\ i \in c[<< >>].items
          /\ \/ way = <<i>>
             \/ \E d \in 1 .. 2 :
                   /\ s[2] = d /\ d \in c[<<i>>].items
                   /\ \/ way = <<i, d>>
                      \/ /\ way = <<i, d, 1>>
                         /\ s[3] = 1 /\ 1 \in c[<<i, d>>].items

\* After one round of effects the instance and the database are settled, and
\* after two the table is, which depends on them.
BasesIInv ==
    /\ catalogue \in DatabaseCatalogues
    /\ catalogueChanges \in 0 .. 1 /\ failures \in 0 .. 1
    /\ chosenPath \in Selections /\ answers \in BaseCaches
    /\ requests \in [Bases!Levels -> LevelRequest]
    /\ \A l \in {2, 3} : requests[l].pc # "answered"
    /\ rounds \in 0 .. 2
    /\ rounds = 1 => \E s \in Selections : chosenPath = Bases!AfterEffects(s, answers)
    /\ rounds = 2 => \E s \in Selections :
          chosenPath = Bases!AfterEffects(Bases!AfterEffects(s, answers), answers)
    /\ Follows(picked, chosenPath, answers)

\* The pages run the page of databases by its own steps.
LEMMA BasesRun == [Next]_vars => [Bases!DatabasesNext]_databasesVars
<1>1. CASE Next
  BY <1>1 DEF Next
<1>2. CASE UNCHANGED vars
  BY <1>2 DEF vars
<1> QED  BY <1>1, <1>2

\* The keys of the queries, and what they may list.
LEMMA BaseKeys ==
  /\ Bases!Listable = 1 .. 2
  /\ << >> \in Bases!Keys
  /\ \A i : <<i>> \in Bases!Keys <=> i \in 1 .. 2
  /\ \A i, d : <<i, d>> \in Bases!Keys <=> i \in 1 .. 2 /\ d \in 1 .. 2
  /\ \A i, d, t : <<i, d, t>> \in Bases!Keys <=> i \in 1 .. 2 /\ d \in 1 .. 2 /\ t = 1
  /\ Bases!Levels = {0, 1, 2, 3}
<1>1. Bases!Listable = 1 .. 2  BY DEF Bases!Listable
<1>2. << >> \in Bases!Keys  BY DEF Bases!Keys
<1>3. \A i : <<i>> \in Bases!Keys <=> i \in 1 .. 2  BY DEF Bases!Keys
<1>4. \A i, d : <<i, d>> \in Bases!Keys <=> i \in 1 .. 2 /\ d \in 1 .. 2  BY DEF Bases!Keys
<1>5. \A i, d, t : <<i, d, t>> \in Bases!Keys <=> i \in 1 .. 2 /\ d \in 1 .. 2 /\ t = 1
  BY DEF Bases!Keys
<1>6. Bases!Levels = {0, 1, 2, 3}  BY DEF Bases!Levels
<1> QED  BY <1>1, <1>2, <1>3, <1>4, <1>5, <1>6

\* What the first of a list is, and the one selected or else the first.
FirstIs(names) ==
    /\ names = {} => Bases!FirstOf(names) = 0
    /\ names # {} => Bases!FirstOf(names) \in names
    /\ \A n : Bases!OrFirst(n, names) = 0 <=> names = {}
    /\ \A n : names # {} => Bases!OrFirst(n, names) \in names
    /\ \A n \in names : Bases!OrFirst(n, names) = n

Few(names) == names \subseteq {1, 2}

\* The first of a list that has one is in it.
LEMMA FirstIsListed == \A names : Few(names) => FirstIs(names)
<1> SUFFICES ASSUME NEW names, names \subseteq {1, 2} PROVE FirstIs(names)
  BY DEF Few
<1>1. names = {} => Bases!FirstOf(names) = 0  BY DEF Bases!FirstOf, Bases!None
<1>2. ASSUME names # {} PROVE Bases!FirstOf(names) \in names
  <2>1. \E n \in names : \A m \in names : n <= m
    <3>1. CASE 1 \in names
      <4>1. \A m \in names : 1 <= m  OBVIOUS
      <4> QED  BY <3>1, <4>1
    <3>2. CASE 1 \notin names
      <4>1. names = {2}  BY <1>2, <3>2
      <4> QED  BY <4>1
    <3> QED  BY <3>1, <3>2
  <2> QED  BY <1>2, <2>1 DEF Bases!FirstOf
<1> QED  BY <1>1, <1>2 DEF Bases!OrFirst, FirstIs

\* What a cache lists.
LEMMA BaseItems ==
  ASSUME NEW c \in BaseCaches
  PROVE  /\ c[<< >>].items \subseteq 1 .. 2
         /\ \A i : Bases!Items(c, <<i>>) \subseteq 1 .. 2
         /\ \A i, d : Bases!Items(c, <<i, d>>) \subseteq {1}
         /\ \A i : i \notin 1 .. 2 => Bases!Items(c, <<i>>) = {}
         /\ \A i, d : i \notin 1 .. 2 \/ d \notin 1 .. 2 => Bases!Items(c, <<i, d>>) = {}
<1>1. \A k \in Bases!Keys : c[k].items \subseteq 1 .. 2  BY BaseKeys DEF BaseCaches
<1>2. \A i, d \in 1 .. 2 : c[<<i, d>>].items \subseteq {1}  BY DEF BaseCaches
<1> QED  BY <1>1, <1>2, BaseKeys DEF Bases!Items

\* What the effects make of a selection: first the instance and the database,
\* then the table.
LEMMA EffectsAre ==
  ASSUME NEW s \in Selections, NEW c \in BaseCaches
  PROVE  LET a == Bases!AfterEffects(s, c)
             i == Bases!selectedInstance(s, c)
             D == Bases!Items(c, <<i>>)
             t == Bases!selectedTable(s, c) IN
         /\ a \in Selections
         /\ Bases!selectedInstance(a, c) = i
         /\ a[1] = IF i = 0 \/ s[1] = 0 THEN i ELSE s[1]
         /\ a[2] = Bases!OrFirst(s[2], D)
         /\ a[3] = IF t # 0 /\ s[3] = 0 THEN t ELSE IF t = 0 \/ s[2] \notin D THEN 0 ELSE s[3]
<1> DEFINE I == c[<< >>].items
           i == Bases!OrFirst(s[1], I)
           D == Bases!Items(c, <<i>>)
           T == Bases!Items(c, <<i, s[2]>>)
           t == Bases!OrFirst(s[3], T)
           a == Bases!AfterEffects(s, c)
<1>1. /\ Bases!selectedInstance(s, c) = i /\ Bases!databases(s, c) = D
      /\ Bases!selectedTable(s, c) = t
  BY DEF Bases!selectedInstance, Bases!databases, Bases!selectedTable, Bases!tables
<1>2. I \subseteq {1, 2} /\ D \subseteq {1, 2} /\ T \subseteq {1}
  <2>1. 1 .. 2 = {1, 2}  OBVIOUS
  <2> QED  BY <2>1, BaseItems
<1>f. FirstIs(I) /\ FirstIs(D) /\ FirstIs(T)
  <2>1. Few(I) /\ Few(D) /\ Few(T)  BY <1>2 DEF Few
  <2> QED  BY <2>1, FirstIsListed, Zenon
<1>3. s = <<s[1], s[2], s[3]>> /\ s[1] \in 0 .. 2 /\ s[2] \in 0 .. 2 /\ s[3] \in 0 .. 1
  BY DEF Selections
<1> HIDE DEF I, D, T, i, t
<1>4. a = << IF i = 0 \/ s[1] = 0 THEN i ELSE s[1],
             Bases!OrFirst(s[2], D),
             IF t # 0 /\ s[3] = 0 THEN t ELSE IF t = 0 \/ s[2] \notin D THEN 0 ELSE s[3] >>
  BY <1>1 DEF Bases!AfterEffects, Bases!None
<1>5. /\ i \in 0 .. 2 /\ (i = 0 <=> I = {}) /\ (i # 0 => i \in I)
  <2>1. i = 0 <=> I = {}  BY <1>f, Zenon DEF i, FirstIs
  <2>2. I # {} => i \in I  BY <1>f, Zenon DEF i, FirstIs
  <2>3. i = 0 \/ i = 1 \/ i = 2  BY <1>2, <2>1, <2>2
  <2>4. i \in 0 .. 2  BY <2>3
  <2> QED  BY <2>1, <2>2, <2>4
<1>6. Bases!OrFirst(s[2], D) \in 0 .. 2
  <2>1. Bases!OrFirst(s[2], D) = 0 \/ Bases!OrFirst(s[2], D) \in D
    BY <1>f, Zenon DEF FirstIs
  <2>2. \A n \in {0, 1, 2} : n \in 0 .. 2  OBVIOUS
  <2>3. Bases!OrFirst(s[2], D) \in {0, 1, 2}  BY <1>2, <2>1, Zenon
  <2> QED  BY <2>2, <2>3, Zenon
<1>7. t \in 0 .. 1
  <2>1. t = 0 \/ t \in T  BY <1>f, Zenon DEF t, FirstIs
  <2>2. t = 0 \/ t = 1  BY <1>2, <2>1
  <2> QED  BY <2>2
<1>8. a \in Selections  BY <1>3, <1>4, <1>5, <1>6, <1>7 DEF Selections
<1>9. a[1] = IF i = 0 \/ s[1] = 0 THEN i ELSE s[1]  BY <1>4
<1>10. Bases!selectedInstance(a, c) = i
  <2>1. Bases!selectedInstance(a, c) = Bases!OrFirst(a[1], I)
    BY DEF Bases!selectedInstance, I
  <2>2. CASE i = 0 \/ s[1] = 0
    <3>1. a[1] = i  BY <1>9, <2>2
    <3> QED  BY <1>f, <1>5, <2>1, <3>1 DEF FirstIs
  <2>3. CASE ~(i = 0 \/ s[1] = 0)
    BY <1>9, <2>1, <2>3 DEF i
  <2> QED  BY <2>2, <2>3
<1> QED  BY <1>1, <1>4, <1>8, <1>9, <1>10 DEF i, D, T, t

\* After two rounds the effects find nothing to repair.
LEMMA TwoRounds ==
  ASSUME NEW s \in Selections, NEW c \in BaseCaches
  PROVE  LET b == Bases!AfterEffects(Bases!AfterEffects(s, c), c) IN
         Bases!AfterEffects(b, c) = b
<1> DEFINE i == Bases!selectedInstance(s, c)
           D == Bases!Items(c, <<i>>)
           a == Bases!AfterEffects(s, c)
           b == Bases!AfterEffects(a, c)
           e == Bases!AfterEffects(b, c)
           T == Bases!Items(c, <<i, a[2]>>)
<1>1. /\ a \in Selections /\ Bases!selectedInstance(a, c) = i
      /\ a[1] = IF i = 0 \/ s[1] = 0 THEN i ELSE s[1]
      /\ a[2] = Bases!OrFirst(s[2], D)
  BY EffectsAre
<1>2. /\ b \in Selections /\ Bases!selectedInstance(b, c) = i
      /\ b[1] = IF i = 0 \/ a[1] = 0 THEN i ELSE a[1]
      /\ b[2] = Bases!OrFirst(a[2], D)
      /\ b[3] = LET t == Bases!selectedTable(a, c) IN
                IF t # 0 /\ a[3] = 0 THEN t ELSE IF t = 0 \/ a[2] \notin D THEN 0 ELSE a[3]
  <2> HIDE DEF a
  <2> QED  BY <1>1, EffectsAre
<1>3. /\ e \in Selections
      /\ e[1] = IF i = 0 \/ b[1] = 0 THEN i ELSE b[1]
      /\ e[2] = Bases!OrFirst(b[2], D)
      /\ e[3] = LET t == Bases!selectedTable(b, c) IN
                IF t # 0 /\ b[3] = 0 THEN t ELSE IF t = 0 \/ b[2] \notin D THEN 0 ELSE b[3]
  <2> HIDE DEF b
  <2> QED  BY <1>2, EffectsAre
<1>4. D \subseteq {1, 2} /\ T \subseteq {1}
  <2>1. 1 .. 2 = {1, 2}  OBVIOUS
  <2> QED  BY <2>1, BaseItems
<1>f. FirstIs(D) /\ FirstIs(T)
  <2>1. Few(D) /\ Few(T)  BY <1>4 DEF Few
  <2> QED  BY <2>1, FirstIsListed, Zenon
<1> HIDE DEF a, b, e, i, D, T
<1>5. e[1] = b[1]  BY <1>1, <1>2, <1>3
<1>6. a[2] \in D \/ (D = {} /\ a[2] = 0)
  BY <1>1, <1>f DEF FirstIs
<1>7. b[2] = a[2] /\ e[2] = b[2]
  BY <1>2, <1>3, <1>f, <1>6 DEF FirstIs
<1>8. /\ Bases!selectedTable(a, c) = Bases!OrFirst(a[3], T)
      /\ Bases!selectedTable(b, c) = Bases!OrFirst(b[3], T)
  BY <1>1, <1>2, <1>7 DEF Bases!selectedTable, Bases!tables, T
<1>9. /\ \A n : Bases!OrFirst(n, T) = 0 <=> T = {}
      /\ \A n : T # {} => Bases!OrFirst(n, T) \in T
      /\ \A n \in T : Bases!OrFirst(n, T) = n
  BY <1>f DEF FirstIs
<1>10. a[2] \notin D => T = {}
  BY <1>6, BaseItems DEF T
<1>11. e[3] = b[3]
  <2>1. CASE T = {}  BY <1>2, <1>3, <1>8, <1>9, <2>1
  <2>2. CASE T # {}
    <3>1. a[2] \in D /\ b[2] \in D  BY <1>7, <1>10, <2>2
    <3> QED  BY <1>2, <1>3, <1>4, <1>8, <1>9, <2>2, <3>1
  <2> QED  BY <2>1, <2>2
<1>12. e = <<e[1], e[2], e[3]>> /\ b = <<b[1], b[2], b[3]>>
  BY <1>2, <1>3 DEF Selections
<1>13. e = b  BY <1>5, <1>7, <1>11, <1>12
<1> QED  BY <1>13 DEF e, b, a

\* A short sequence is the tuple of its elements.
LEMMA Explicit ==
  ASSUME NEW S, NEW q \in Seq(S)
  PROVE  /\ Len(q) = 0 => q = << >>
         /\ Len(q) = 1 => q = <<q[1]>>
         /\ Len(q) = 2 => q = <<q[1], q[2]>>
         /\ Len(q) = 3 => q = <<q[1], q[2], q[3]>>
<1>0. Len(q) = 0 => q = << >>  OBVIOUS
<1>1. Len(q) = 1 => q = <<q[1]>>  OBVIOUS
<1>2. Len(q) = 2 => q = <<q[1], q[2]>>  OBVIOUS
<1>3. Len(q) = 3 => q = <<q[1], q[2], q[3]>>  OBVIOUS
<1> QED  BY <1>0, <1>1, <1>2, <1>3

\* The beginnings of a path, and a path that goes on.
LEMMA Beginnings ==
  ASSUME NEW a, NEW b, NEW c
  PROVE  /\ SubSeq(<<a, b, c>>, 1, 0) = << >> /\ SubSeq(<<a, b, c>>, 1, 1) = <<a>>
         /\ SubSeq(<<a, b, c>>, 1, 2) = <<a, b>> /\ SubSeq(<<a, b, c>>, 1, 3) = <<a, b, c>>
         /\ SubSeq(<<a, b>>, 1, 0) = << >> /\ SubSeq(<<a, b>>, 1, 1) = <<a>>
         /\ SubSeq(<<a, b>>, 1, 2) = <<a, b>>
         /\ SubSeq(<<a>>, 1, 0) = << >> /\ SubSeq(<<a>>, 1, 1) = <<a>>
         /\ Append(<<a, b>>, c) = <<a, b, c>>
<1> DEFINE S == {a, b, c}
<1>1. ASSUME NEW q \in Seq(S), NEW n \in 0 .. Len(q)
      PROVE  /\ SubSeq(q, 1, n) \in Seq(S) /\ Len(SubSeq(q, 1, n)) = n
             /\ \A i \in 1 .. n : SubSeq(q, 1, n)[i] = q[i]
  BY <1>1
<1>2. ASSUME NEW q \in Seq(S), Len(q) \in {1, 2, 3}
      PROVE  /\ SubSeq(q, 1, 0) = << >> /\ SubSeq(q, 1, 1) = <<q[1]>>
             /\ Len(q) > 1 => SubSeq(q, 1, 2) = <<q[1], q[2]>>
             /\ Len(q) > 2 => SubSeq(q, 1, 3) = <<q[1], q[2], q[3]>>
  <2> HIDE DEF S
  <2>0. SubSeq(q, 1, 0) = << >>  OBVIOUS
  <2>1. SubSeq(q, 1, 1) = <<q[1]>>
    <3>1. 1 \in 0 .. Len(q)  BY <1>2
    <3>2. SubSeq(q, 1, 1) \in Seq(S) /\ Len(SubSeq(q, 1, 1)) = 1  BY <1>1, <3>1
    <3>3. SubSeq(q, 1, 1)[1] = q[1]  BY <1>1, <3>1
    <3> QED  BY <3>2, <3>3, Explicit
  <2>2. ASSUME Len(q) > 1 PROVE SubSeq(q, 1, 2) = <<q[1], q[2]>>
    <3>1. 2 \in 0 .. Len(q)  BY <1>2, <2>2
    <3>2. SubSeq(q, 1, 2) \in Seq(S) /\ Len(SubSeq(q, 1, 2)) = 2  BY <1>1, <3>1
    <3>3. SubSeq(q, 1, 2)[1] = q[1] /\ SubSeq(q, 1, 2)[2] = q[2]  BY <1>1, <3>1
    <3> QED  BY <3>2, <3>3, Explicit
  <2>3. ASSUME Len(q) > 2 PROVE SubSeq(q, 1, 3) = <<q[1], q[2], q[3]>>
    <3>1. 3 \in 0 .. Len(q)  BY <1>2, <2>3
    <3>2. SubSeq(q, 1, 3) \in Seq(S) /\ Len(SubSeq(q, 1, 3)) = 3  BY <1>1, <3>1
    <3>3. /\ SubSeq(q, 1, 3)[1] = q[1] /\ SubSeq(q, 1, 3)[2] = q[2]
          /\ SubSeq(q, 1, 3)[3] = q[3]
      BY <1>1, <3>1
    <3> QED  BY <3>2, <3>3, Explicit
  <2> QED  BY <2>0, <2>1, <2>2, <2>3
<1>3. <<a, b, c>> \in Seq(S) /\ <<a, b>> \in Seq(S) /\ <<a>> \in Seq(S)  OBVIOUS
<1>4. Append(<<a, b>>, c) = <<a, b, c>>
  <2>1. /\ Append(<<a, b>>, c) \in Seq(S) /\ Len(Append(<<a, b>>, c)) = 3
        /\ Append(<<a, b>>, c)[1] = a /\ Append(<<a, b>>, c)[2] = b
        /\ Append(<<a, b>>, c)[3] = c
    BY <1>3
  <2> HIDE DEF S
  <2> QED  BY <2>1, Explicit
<1> HIDE DEF S
<1>5. /\ SubSeq(<<a, b, c>>, 1, 0) = << >> /\ SubSeq(<<a, b, c>>, 1, 1) = <<a>>
      /\ SubSeq(<<a, b, c>>, 1, 2) = <<a, b>> /\ SubSeq(<<a, b, c>>, 1, 3) = <<a, b, c>>
  <2> DEFINE q == <<a, b, c>>
  <2>1. q \in Seq(S) /\ Len(q) = 3 /\ q[1] = a /\ q[2] = b /\ q[3] = c  BY <1>3
  <2>2. Len(q) \in {1, 2, 3} /\ Len(q) > 1 /\ Len(q) > 2  BY <2>1
  <2> HIDE DEF q
  <2>3. /\ SubSeq(q, 1, 0) = << >> /\ SubSeq(q, 1, 1) = <<q[1]>>
        /\ SubSeq(q, 1, 2) = <<q[1], q[2]>> /\ SubSeq(q, 1, 3) = <<q[1], q[2], q[3]>>
    BY <1>2, <2>1, <2>2
  <2> QED  BY <2>1, <2>3 DEF q
<1>6. /\ SubSeq(<<a, b>>, 1, 0) = << >> /\ SubSeq(<<a, b>>, 1, 1) = <<a>>
      /\ SubSeq(<<a, b>>, 1, 2) = <<a, b>>
  <2> DEFINE q == <<a, b>>
  <2>1. q \in Seq(S) /\ Len(q) = 2 /\ q[1] = a /\ q[2] = b  BY <1>3
  <2>2. Len(q) \in {1, 2, 3} /\ Len(q) > 1  BY <2>1
  <2> HIDE DEF q
  <2>3. /\ SubSeq(q, 1, 0) = << >> /\ SubSeq(q, 1, 1) = <<q[1]>>
        /\ SubSeq(q, 1, 2) = <<q[1], q[2]>>
    BY <1>2, <2>1, <2>2
  <2> QED  BY <2>1, <2>3 DEF q
<1>7. SubSeq(<<a>>, 1, 0) = << >> /\ SubSeq(<<a>>, 1, 1) = <<a>>
  <2> DEFINE q == <<a>>
  <2>1. q \in Seq(S) /\ Len(q) = 1 /\ q[1] = a  BY <1>3
  <2>2. Len(q) \in {1, 2, 3}  BY <2>1
  <2> HIDE DEF q
  <2>3. SubSeq(q, 1, 0) = << >> /\ SubSeq(q, 1, 1) = <<q[1]>>
    BY <1>2, <2>1, <2>2
  <2> QED  BY <2>1, <2>3 DEF q
<1> QED  BY <1>4, <1>5, <1>6, <1>7

\* The keys of what is shown.
LEMMA ShownKeys ==
  /\ Bases!Shown = <<Bases!Shown[1], chosenPath[2], Bases!Shown[3]>>
  /\ Bases!Shown[1] = Bases!OrFirst(chosenPath[1], answers[<< >>].items)
  /\ Bases!Shown[3] = Bases!OrFirst(chosenPath[3],
                                    Bases!Items(answers, <<Bases!Shown[1], chosenPath[2]>>))
  /\ Bases!Key(0) = << >> /\ Bases!Key(1) = <<Bases!Shown[1]>>
  /\ Bases!Key(2) = <<Bases!Shown[1], chosenPath[2]>>
  /\ Bases!Key(3) = <<Bases!Shown[1], chosenPath[2], Bases!Shown[3]>>
<1> DEFINE i == Bases!selectedInstance(chosenPath, answers)
           t == Bases!selectedTable(chosenPath, answers)
<1>1. Bases!Shown = <<i, chosenPath[2], t>>  BY DEF Bases!Shown, Bases!Path
<1>2. i = Bases!OrFirst(chosenPath[1], answers[<< >>].items)  BY DEF Bases!selectedInstance
<1>3. t = Bases!OrFirst(chosenPath[3], Bases!Items(answers, <<i, chosenPath[2]>>))
  BY DEF Bases!selectedTable, Bases!tables
<1> HIDE DEF i, t
<1>4. Bases!Shown[1] = i /\ Bases!Shown[3] = t  BY <1>1
<1>5. /\ Bases!Key(0) = << >> /\ Bases!Key(1) = <<i>> /\ Bases!Key(2) = <<i, chosenPath[2]>>
      /\ Bases!Key(3) = <<i, chosenPath[2], t>>
  BY <1>1, Beginnings DEF Bases!Key
<1> QED  BY <1>1, <1>2, <1>3, <1>4, <1>5

\* What is followed is what is shown.
LEMMA FollowedIsShown ==
  ASSUME chosenPath \in Selections, answers \in BaseCaches, NEW way,
         Follows(way, chosenPath, answers)
  PROVE  \/ way = << >>
         \/ \E i \in 1 .. 2 :
               /\ Bases!Shown[1] = i
               /\ \/ way = <<i>>
                  \/ way = <<i, chosenPath[2]>>
                  \/ way = <<i, chosenPath[2], 1>> /\ Bases!Shown[3] = 1
<1> SUFFICES ASSUME NEW i \in 1 .. 2, chosenPath[1] = i, i \in answers[<< >>].items,
                    \/ way = <<i>>
                    \/ \E d \in 1 .. 2 :
                          /\ chosenPath[2] = d /\ d \in answers[<<i>>].items
                          /\ \/ way = <<i, d>>
                             \/ /\ way = <<i, d, 1>>
                                /\ chosenPath[3] = 1 /\ 1 \in answers[<<i, d>>].items
             PROVE  /\ Bases!Shown[1] = i
                    /\ \/ way = <<i>>
                       \/ way = <<i, chosenPath[2]>>
                       \/ way = <<i, chosenPath[2], 1>> /\ Bases!Shown[3] = 1
  BY DEF Follows
<1>1. Bases!Shown[1] = i  BY ShownKeys DEF Bases!OrFirst
<1>2. CASE way = <<i>>  BY <1>1, <1>2
<1>3. ASSUME NEW d \in 1 .. 2, chosenPath[2] = d, d \in answers[<<i>>].items,
             \/ way = <<i, d>>
             \/ way = <<i, d, 1>> /\ chosenPath[3] = 1 /\ 1 \in answers[<<i, d>>].items
      PROVE  way = <<i, chosenPath[2]>> \/ (way = <<i, chosenPath[2], 1>> /\ Bases!Shown[3] = 1)
  <2>1. CASE way = <<i, d>>  BY <1>3, <2>1
  <2>2. CASE way = <<i, d, 1>> /\ chosenPath[3] = 1 /\ 1 \in answers[<<i, d>>].items
    <3>1. Bases!Items(answers, <<i, d>>) = answers[<<i, d>>].items
      BY BaseKeys DEF Bases!Items
    <3>2. Bases!Shown[3] = 1  BY <1>1, <1>3, <2>2, <3>1, ShownKeys DEF Bases!OrFirst
    <3> QED  BY <1>3, <2>2, <3>2
  <2> QED  BY <1>3, <2>1, <2>2
<1> QED  BY <1>1, <1>2, <1>3

\* The effects do not leave what is followed.
LEMMA EffectsFollow ==
  ASSUME NEW s \in Selections, NEW c \in BaseCaches, NEW way, Follows(way, s, c)
  PROVE  Follows(way, Bases!AfterEffects(s, c), c)
<1> DEFINE a == Bases!AfterEffects(s, c)
           i == Bases!selectedInstance(s, c)
           D == Bases!Items(c, <<i>>)
           t == Bases!selectedTable(s, c)
<1>1. /\ a[1] = IF i = 0 \/ s[1] = 0 THEN i ELSE s[1]
      /\ a[2] = Bases!OrFirst(s[2], D)
      /\ a[3] = IF t # 0 /\ s[3] = 0 THEN t ELSE IF t = 0 \/ s[2] \notin D THEN 0 ELSE s[3]
  BY EffectsAre
<1> SUFFICES ASSUME NEW j \in 1 .. 2, s[1] = j, j \in c[<< >>].items,
                    \/ way = <<j>>
                    \/ \E d \in 1 .. 2 :
                          /\ s[2] = d /\ d \in c[<<j>>].items
                          /\ \/ way = <<j, d>>
                             \/ /\ way = <<j, d, 1>>
                                /\ s[3] = 1 /\ 1 \in c[<<j, d>>].items
             PROVE  Follows(way, a, c)
  BY DEF Follows
<1>2. i = j /\ D = c[<<j>>].items
  BY BaseKeys DEF Bases!selectedInstance, Bases!OrFirst, Bases!Items
<1>t. t = Bases!OrFirst(s[3], Bases!Items(c, <<i, s[2]>>))
  BY DEF Bases!selectedTable, Bases!tables
<1> HIDE DEF a, i, D, t
<1>3. a[1] = j  BY <1>1, <1>2
<1>4. CASE way = <<j>>  BY <1>3, <1>4 DEF Follows
<1>5. ASSUME NEW d \in 1 .. 2, s[2] = d, d \in c[<<j>>].items,
             \/ way = <<j, d>>
             \/ way = <<j, d, 1>> /\ s[3] = 1 /\ 1 \in c[<<j, d>>].items
      PROVE  Follows(way, a, c)
  <2>1. a[2] = d  BY <1>1, <1>2, <1>5 DEF Bases!OrFirst
  <2>2. CASE way = <<j, d>>  BY <1>3, <1>5, <2>1, <2>2 DEF Follows
  <2>3. CASE way = <<j, d, 1>> /\ s[3] = 1 /\ 1 \in c[<<j, d>>].items
    <3>1. Bases!Items(c, <<j, d>>) = c[<<j, d>>].items  BY BaseKeys DEF Bases!Items
    <3>2. t = 1  BY <1>2, <1>t, <1>5, <2>3, <3>1 DEF Bases!OrFirst
    <3>3. a[3] = 1  BY <1>1, <1>2, <1>5, <2>3, <3>2
    <3> QED  BY <1>3, <1>5, <2>1, <2>3, <3>3 DEF Follows
  <2> QED  BY <1>5, <2>2, <2>3
<1> QED  BY <1>4, <1>5

\* What may be kept under a key.
Fits(answer, k) ==
    /\ answer \in [known : BOOLEAN, items : SUBSET Bases!Listable, error : BOOLEAN]
    /\ \A i \in 1 .. 2, d \in 1 .. 2 : k = <<i, d>> => answer.items \subseteq {1}

\* What is kept after one more answer.
OneMore(c, k, answer, more) ==
    more = [c EXCEPT ![k] = answer] =>
        /\ more \in BaseCaches
        /\ \A j \in Bases!Keys : more[j] = IF j = k THEN answer ELSE c[j]

\* An answer that fits its key leaves the rest as it was.
LEMMA OneMoreAnswer ==
  \A c \in BaseCaches : \A k, answer, more : Fits(answer, k) => OneMore(c, k, answer, more)
<1> SUFFICES ASSUME NEW c \in BaseCaches, NEW k, NEW answer, Fits(answer, k),
                    NEW more
             PROVE  OneMore(c, k, answer, more)
  BY Zenon
<1> SUFFICES ASSUME more = [c EXCEPT ![k] = answer]
             PROVE  /\ more \in BaseCaches
                    /\ \A j \in Bases!Keys : more[j] = IF j = k THEN answer ELSE c[j]
  BY Zenon DEF OneMore
<1> DEFINE Each == [known : BOOLEAN, items : SUBSET Bases!Listable, error : BOOLEAN]
<1>1. c \in [Bases!Keys -> Each]  BY DEF BaseCaches
<1> HIDE DEF Each
<1>2. \A j \in Bases!Keys : more[j] = IF j = k THEN answer ELSE c[j]  BY <1>1
<1>3. answer \in Each  BY DEF Each, Fits
<1>4. more \in [Bases!Keys -> Each]  BY <1>1, <1>3
<1>5. ASSUME NEW i \in 1 .. 2, NEW d \in 1 .. 2 PROVE more[<<i, d>>].items \subseteq {1}
  <2>1. <<i, d>> \in Bases!Keys  BY BaseKeys
  <2>2. c[<<i, d>>].items \subseteq {1}  BY DEF BaseCaches
  <2> QED  BY <1>2, <2>1, <2>2 DEF Fits
<1>6. more \in BaseCaches  BY <1>4, <1>5 DEF BaseCaches, Each
<1> QED  BY <1>2, <1>6

\* What the answers of a level list.
LEMMA ListedOf ==
  ASSUME catalogue \in DatabaseCatalogues, NEW k
  PROVE  /\ Bases!Listed(k) \subseteq Bases!Listable
         /\ \A i, d : k = <<i, d>> => Bases!Listed(k) \subseteq {1}
<1>1. \A p \in catalogue : p \in {<<1>>, <<2>>, <<1, 2>>, <<2, 2>>, <<2, 2, 1>>}
  BY DEF DatabaseCatalogues
<1>2. ASSUME NEW i, NEW d, k = <<i, d>>, NEW n \in Bases!Listed(k) PROVE n = 1
  <2>1. Append(<<i, d>>, n) = <<i, d, n>>  BY Beginnings
  <2>2. <<i, d, n>> \in catalogue  BY <1>2, <2>1 DEF Bases!Listed
  <2>3. <<i, d, n>> \in {<<1>>, <<2>>, <<1, 2>>, <<2, 2>>, <<2, 2, 1>>}  BY <1>1, <2>2
  <2> QED  BY <2>3
<1> QED  BY <1>2 DEF Bases!Listed

\* What an answer at a level changes: the items that level lists, and the path chosen when
\* its next step is no longer among them.
ItemsListed(l, items) ==
  \A k \in Bases!Keys :
     answers'[k].items = IF k = Bases!Key(l) THEN items ELSE answers[k].items

PathCut(l, items) ==
  picked' = IF Len(picked) > l /\ SubSeq(picked, 1, l) = Bases!Key(l)
               /\ picked[l + 1] \notin items
            THEN Bases!Key(l) ELSE picked

\* An answer that no longer lists what was chosen ends the path before it.
LEMMA AnswerFollowed ==
  ASSUME chosenPath \in Selections, answers \in BaseCaches, NEW l \in 0 .. 3,
         NEW items, items \subseteq 1 .. 2, l = 2 => items \subseteq {1},
         Follows(picked, chosenPath, answers),
         answers' \in BaseCaches, chosenPath' = chosenPath,
         ItemsListed(l, items), PathCut(l, items)
  PROVE  Follows(picked', chosenPath, answers')
<1> DEFINE s == chosenPath
           c == answers
           e == answers'
           K == Bases!Key(l)
<1>a. \A k \in Bases!Keys : e[k].items = IF k = K THEN items ELSE c[k].items
  BY DEF ItemsListed
<1>b. picked' = IF Len(picked) > l /\ SubSeq(picked, 1, l) = K /\ picked[l + 1] \notin items
                THEN K ELSE picked
  BY DEF PathCut
<1> USE <1>a, <1>b
<1>0. /\ Bases!Key(0) = << >> /\ Bases!Key(1) = <<Bases!Shown[1]>>
      /\ Bases!Key(2) = <<Bases!Shown[1], s[2]>>
      /\ Bases!Key(3) = <<Bases!Shown[1], s[2], Bases!Shown[3]>>
  BY ShownKeys
<1>k. /\ << >> \in Bases!Keys
      /\ \A i \in 1 .. 2 : <<i>> \in Bases!Keys
      /\ \A i, d \in 1 .. 2 : <<i, d>> \in Bases!Keys
  BY BaseKeys
<1>l. l = 0 \/ l = 1 \/ l = 2 \/ l = 3  OBVIOUS
<1>1. CASE picked = << >>
  <2>1. Len(picked) = 0  BY <1>1
  <2>2. picked' = << >>  BY <1>1, <2>1
  <2> QED  BY <2>2 DEF Follows
<1>2. ASSUME NEW i \in 1 .. 2, s[1] = i, i \in c[<< >>].items, Bases!Shown[1] = i,
             picked = <<i>>
      PROVE  Follows(picked', s, e)
  <2>1. Len(picked) = 1 /\ picked[1] = i  BY <1>2
  <2>2. CASE l = 0
    <3>1. e[<< >>].items = items  BY <1>0, <1>k, <2>2
    <3>2. picked' = << >> \/ (i \in items /\ picked' = <<i>>)
      <4>1. SubSeq(picked, 1, 0) = << >>  BY <1>2, Beginnings
      <4>2. l + 1 = 1 /\ Len(picked) > l  BY <2>1, <2>2
      <4>3. K = << >>  BY <1>0, <2>2
      <4>4. picked' = IF picked[l + 1] \notin items THEN << >> ELSE picked
        BY <2>2, <4>1, <4>2, <4>3, Zenon
      <4> QED  BY <1>2, <2>1, <4>2, <4>4
    <3> QED  BY <1>2, <3>1, <3>2 DEF Follows
  <2>3. CASE l # 0
    <3>1. picked' = <<i>>  BY <1>2, <2>1, <2>3
    <3>2. << >> # K  BY <1>0, <1>l, <2>3
    <3>3. e[<< >>].items = c[<< >>].items  BY <1>k, <3>2
    <3> QED  BY <1>2, <3>1, <3>3 DEF Follows
  <2> QED  BY <2>2, <2>3
<1>3. ASSUME NEW i \in 1 .. 2, s[1] = i, i \in c[<< >>].items, Bases!Shown[1] = i,
             NEW d \in 1 .. 2, s[2] = d, d \in c[<<i>>].items, picked = <<i, d>>
      PROVE  Follows(picked', s, e)
  <2>1. Len(picked) = 2 /\ picked[1] = i /\ picked[2] = d  BY <1>3
  <2>2. CASE l = 0
    <3>1. e[<< >>].items = items /\ e[<<i>>].items = c[<<i>>].items  BY <1>0, <1>k, <2>2
    <3>2. picked' = << >> \/ (i \in items /\ picked' = <<i, d>>)
      <4>1. SubSeq(picked, 1, 0) = << >>  BY <1>3, Beginnings
      <4>2. l + 1 = 1 /\ Len(picked) > l  BY <2>1, <2>2
      <4>3. K = << >>  BY <1>0, <2>2
      <4>4. picked' = IF picked[l + 1] \notin items THEN << >> ELSE picked
        BY <2>2, <4>1, <4>2, <4>3, Zenon
      <4> QED  BY <1>3, <2>1, <4>2, <4>4
    <3> QED  BY <1>3, <3>1, <3>2 DEF Follows
  <2>3. CASE l = 1
    <3>1. e[<< >>].items = c[<< >>].items /\ e[<<i>>].items = items
      BY <1>0, <1>3, <1>k, <2>3
    <3>2. picked' = <<i>> \/ (d \in items /\ picked' = <<i, d>>)
      BY <1>0, <1>3, <2>1, <2>3, Beginnings
    <3> QED  BY <1>3, <3>1, <3>2 DEF Follows
  <2>4. CASE l > 1
    <3>1. picked' = <<i, d>>  BY <1>3, <2>1, <2>4
    <3>2. << >> # K /\ <<i>> # K
      <4>1. CASE l = 2  BY <1>0, <4>1
      <4>2. CASE l = 3  BY <1>0, <4>2
      <4> QED  BY <1>l, <2>4, <4>1, <4>2
    <3>3. e[<< >>].items = c[<< >>].items /\ e[<<i>>].items = c[<<i>>].items  BY <1>k, <3>2
    <3> QED  BY <1>3, <3>1, <3>3 DEF Follows
  <2> QED  BY <1>l, <2>2, <2>3, <2>4
<1>4. ASSUME NEW i \in 1 .. 2, s[1] = i, i \in c[<< >>].items, Bases!Shown[1] = i,
             NEW d \in 1 .. 2, s[2] = d, d \in c[<<i>>].items, picked = <<i, d, 1>>,
             s[3] = 1, 1 \in c[<<i, d>>].items
      PROVE  Follows(picked', s, e)
  <2>1. Len(picked) = 3 /\ picked[1] = i /\ picked[2] = d /\ picked[3] = 1  BY <1>4
  <2>2. CASE l = 0
    <3>1. /\ e[<< >>].items = items /\ e[<<i>>].items = c[<<i>>].items
          /\ e[<<i, d>>].items = c[<<i, d>>].items
      BY <1>0, <1>k, <2>2
    <3>2. picked' = << >> \/ (i \in items /\ picked' = <<i, d, 1>>)
      <4>1. SubSeq(picked, 1, 0) = << >>  BY <1>4, Beginnings
      <4>2. l + 1 = 1 /\ Len(picked) > l  BY <2>1, <2>2
      <4>3. K = << >>  BY <1>0, <2>2
      <4>4. picked' = IF picked[l + 1] \notin items THEN << >> ELSE picked
        BY <2>2, <4>1, <4>2, <4>3, Zenon
      <4> QED  BY <1>4, <2>1, <4>2, <4>4
    <3> QED  BY <1>4, <3>1, <3>2 DEF Follows
  <2>3. CASE l = 1
    <3>1. /\ e[<< >>].items = c[<< >>].items /\ e[<<i>>].items = items
          /\ e[<<i, d>>].items = c[<<i, d>>].items
      BY <1>0, <1>4, <1>k, <2>3
    <3>2. picked' = <<i>> \/ (d \in items /\ picked' = <<i, d, 1>>)
      BY <1>0, <1>4, <2>1, <2>3, Beginnings
    <3> QED  BY <1>4, <3>1, <3>2 DEF Follows
  <2>4. CASE l = 2
    <3>1. /\ e[<< >>].items = c[<< >>].items /\ e[<<i>>].items = c[<<i>>].items
          /\ e[<<i, d>>].items = items
      BY <1>0, <1>4, <1>k, <2>4
    <3>2. picked' = <<i, d>> \/ (1 \in items /\ picked' = <<i, d, 1>>)
      BY <1>0, <1>4, <2>1, <2>4, Beginnings
    <3> QED  BY <1>4, <3>1, <3>2 DEF Follows
  <2>5. CASE l = 3
    <3>1. picked' = <<i, d, 1>>  BY <1>4, <2>1, <2>5
    <3>2. << >> # K /\ <<i>> # K /\ <<i, d>> # K  BY <1>0, <2>5
    <3>3. /\ e[<< >>].items = c[<< >>].items /\ e[<<i>>].items = c[<<i>>].items
          /\ e[<<i, d>>].items = c[<<i, d>>].items
      BY <1>k, <3>2
    <3> QED  BY <1>4, <3>1, <3>3 DEF Follows
  <2> QED  BY <1>l, <2>2, <2>3, <2>4, <2>5
<1>5. picked # << >> => Bases!Shown[1] = chosenPath[1]
  BY ShownKeys DEF Follows, Bases!OrFirst
<1> HIDE DEF K
<1> QED  BY <1>1, <1>2, <1>3, <1>4, <1>5 DEF Follows

\* A selection is followed by what the answers list, and by nothing else.
LEMMA ListedAlike ==
  ASSUME NEW way, NEW s, NEW c, NEW e, Follows(way, s, c),
         \A k \in Bases!Keys : e[k].items = c[k].items
  PROVE  Follows(way, s, e)
<1>1. e[<< >>].items = c[<< >>].items  BY BaseKeys
<1>2. \A i \in 1 .. 2 : e[<<i>>].items = c[<<i>>].items  BY BaseKeys
<1>3. \A i, d \in 1 .. 2 : e[<<i, d>>].items = c[<<i, d>>].items  BY BaseKeys
<1> QED  BY <1>1, <1>2, <1>3 DEF Follows

\* The requests of the levels; those about a database and a table are answered
\* as they arrive.
TypedRequests(reqs) ==
    reqs \in [Bases!Levels -> LevelRequest] /\ \A l \in {2, 3} : reqs[l].pc # "answered"

\* A render's requests are those of before, or ones that are asked or idle.
LEMMA Rerendered ==
  ASSUME NEW s, NEW c, NEW reqs, TypedRequests(reqs), Bases!Rerender(s, c, reqs)
  PROVE  chosenPath' = s /\ answers' = c /\ TypedRequests(requests')
<1> DEFINE new(l) == LET k == SubSeq(Bases!Path(s, c), 1, l) IN
                     IF k = Bases!Key(l) THEN reqs[l]
                     ELSE IF Bases!Enabled(k) THEN Bases!Asking ELSE Bases!Idle
<1>1. chosenPath' = s /\ answers' = c /\ requests' = [l \in Bases!Levels |-> new(l)]
  BY DEF Bases!Rerender
<1>2. \A l : new(l) = reqs[l] \/ new(l) = Bases!Asking \/ new(l) = Bases!Idle
  OBVIOUS
<1> HIDE DEF new
<1>3. /\ Bases!Idle \in LevelRequest /\ Bases!Idle.pc = "idle"
      /\ Bases!Asking \in LevelRequest /\ Bases!Asking.pc = "asking"
  BY DEF Bases!Idle, Bases!Asking, LevelRequest
<1>4. \A l \in Bases!Levels : new(l) \in LevelRequest  BY <1>2, <1>3 DEF TypedRequests
<1>5. \A l \in {2, 3} : new(l).pc # "answered"
  <2> SUFFICES ASSUME NEW l \in {2, 3} PROVE new(l).pc # "answered"
    OBVIOUS
  <2>1. reqs[l].pc # "answered"  BY DEF TypedRequests
  <2> QED  BY <1>2, <1>3, <2>1
<1>6. {2, 3} \subseteq Bases!Levels  BY BaseKeys
<1> QED  BY <1>1, <1>4, <1>5, <1>6 DEF TypedRequests

\* What an answer or a failure leaves asked.
LEMMA OneRequestLess ==
  ASSUME TypedRequests(requests), NEW l
  PROVE  TypedRequests([requests EXCEPT ![l] = Bases!Idle])
<1> DEFINE less == [requests EXCEPT ![l] = Bases!Idle]
<1>1. Bases!Idle \in LevelRequest /\ Bases!Idle.pc # "answered"
  BY DEF Bases!Idle, LevelRequest
<1>2. \A m \in Bases!Levels : less[m] = IF m = l THEN Bases!Idle ELSE requests[m]
  BY DEF TypedRequests
<1>3. less \in [Bases!Levels -> LevelRequest]  BY <1>1 DEF TypedRequests
<1>4. {2, 3} \subseteq Bases!Levels  BY BaseKeys
<1> HIDE DEF less
<1>5. \A m \in {2, 3} : less[m].pc # "answered"  BY <1>1, <1>2, <1>4 DEF TypedRequests
<1> QED  BY <1>3, <1>5 DEF TypedRequests, less

\* The page of databases opens on no selection, and nothing has been answered.
LEMMA BasesStarts == Init => BasesIInv
<1> SUFFICES ASSUME Init PROVE BasesIInv
  OBVIOUS
<1>1. Bases!DatabasesInit  BY DEF Init
<1>2. /\ catalogue \in DatabaseCatalogues /\ catalogueChanges = 0 /\ failures = 0
      /\ chosenPath = <<0, 0, 0>>
      /\ answers = [k \in Bases!Keys |-> Bases!Nothing]
      /\ requests = [l \in Bases!Levels |-> IF l = 0 THEN Bases!Asking ELSE Bases!Idle]
      /\ rounds = 0 /\ picked = << >>
  BY <1>1 DEF Bases!DatabasesInit, Bases!None
<1>3. chosenPath \in Selections  BY <1>2 DEF Selections
<1>4. answers \in BaseCaches
  <2>1. Bases!Nothing \in [known : BOOLEAN, items : SUBSET Bases!Listable, error : BOOLEAN]
    BY DEF Bases!Nothing
  <2>2. \A k \in Bases!Keys : answers[k].items = {}  BY <1>2 DEF Bases!Nothing
  <2>3. \A i, d \in 1 .. 2 : answers[<<i, d>>].items = {}  BY <2>2, BaseKeys
  <2>4. answers \in [Bases!Keys ->
                      [known : BOOLEAN, items : SUBSET Bases!Listable, error : BOOLEAN]]
    BY <1>2, <2>1
  <2> QED  BY <2>3, <2>4 DEF BaseCaches
<1>5. requests \in [Bases!Levels -> LevelRequest]
  BY <1>2 DEF Bases!Asking, Bases!Idle, LevelRequest
<1>6. \A l \in {2, 3} : requests[l].pc # "answered"
  BY <1>2, BaseKeys DEF Bases!Idle
<1> QED  BY <1>2, <1>3, <1>4, <1>5, <1>6 DEF BasesIInv, Follows

\* An answer that arrives.
LEMMA SuccessIsKept ==
  ASSUME BasesIInv, NEW l \in 0 .. 3, NEW items, items \subseteq Bases!Listable,
         \A i, d : Bases!Key(l) = <<i, d>> => items \subseteq {1}, l = 2 => items \subseteq {1},
         Bases!Success(l, items)
  PROVE  BasesIInv'
<1> DEFINE answer == [known |-> TRUE, items |-> items, error |-> FALSE]
<1>0. items \subseteq 1 .. 2 /\ chosenPath \in Selections /\ answers \in BaseCaches
  BY BaseKeys DEF BasesIInv
<1>1. TypedRequests([requests EXCEPT ![l] = Bases!Idle])
  BY OneRequestLess DEF BasesIInv, TypedRequests
<1>2. Bases!Rerender(chosenPath, [answers EXCEPT ![Bases!Key(l)] = answer],
                     [requests EXCEPT ![l] = Bases!Idle])
  BY DEF Bases!Success, Bases!Arrive
<1>3. /\ chosenPath' = chosenPath /\ answers' = [answers EXCEPT ![Bases!Key(l)] = answer]
      /\ TypedRequests(requests')
  <2> HIDE DEF answer
  <2> QED  BY <1>1, <1>2, Rerendered
<1>4. answer \in [known : BOOLEAN, items : SUBSET Bases!Listable, error : BOOLEAN]
  OBVIOUS
<1>5. answer.items = items  OBVIOUS
<1>f. Fits(answer, Bases!Key(l))  BY <1>4, <1>5 DEF Fits
<1> HIDE DEF answer
<1>6. /\ answers' \in BaseCaches
      /\ \A k \in Bases!Keys : answers'[k] = IF k = Bases!Key(l) THEN answer ELSE answers[k]
  <2>1. OneMore(answers, Bases!Key(l), answer, answers')
    BY <1>0, <1>f, OneMoreAnswer, Zenon
  <2> QED  BY <1>3, <2>1 DEF OneMore
<1>7. ItemsListed(l, items)  BY <1>5, <1>6 DEF ItemsListed
<1>8. PathCut(l, items)  BY DEF Bases!Success, PathCut
<1>9. Follows(picked, chosenPath, answers)  BY DEF BasesIInv
<1>10. Follows(picked', chosenPath, answers')
  <2>1. answers' \in BaseCaches /\ chosenPath' = chosenPath  BY <1>3, <1>6
  <2> QED  BY <1>0, <1>7, <1>8, <1>9, <2>1, AnswerFollowed
<1>11. rounds' = 0 /\ UNCHANGED <<catalogue, catalogueChanges, failures>>
  BY DEF Bases!Success, Bases!Arrive
<1> QED  BY <1>0, <1>3, <1>6, <1>10, <1>11 DEF BasesIInv, TypedRequests

\* A request that fails: what was listed is kept.
LEMMA FailureIsKept ==
  ASSUME BasesIInv, NEW l \in 0 .. 3, Bases!Fails(l)
  PROVE  BasesIInv'
<1> DEFINE k == Bases!Key(l)
           answer == [answers[k] EXCEPT !.error = TRUE]
           Each == [known : BOOLEAN, items : SUBSET Bases!Listable, error : BOOLEAN]
<1>0. /\ chosenPath \in Selections /\ answers \in BaseCaches
      /\ Follows(picked, chosenPath, answers)
  BY DEF BasesIInv
<1>1. TypedRequests([requests EXCEPT ![l] = Bases!Idle])
  BY OneRequestLess DEF BasesIInv, TypedRequests
<1>2. Bases!Rerender(chosenPath, [answers EXCEPT ![k] = answer],
                     [requests EXCEPT ![l] = Bases!Idle])
  BY DEF Bases!Fails, Bases!Arrive
<1> HIDE DEF k
<1>3. /\ chosenPath' = chosenPath /\ answers' = [answers EXCEPT ![k] = answer]
      /\ TypedRequests(requests')
  <2> HIDE DEF answer
  <2> QED  BY <1>1, <1>2, Rerendered
<1>4. answers \in [Bases!Keys -> Each]  BY <1>0 DEF BaseCaches
<1>5. answers' \in BaseCaches /\ \A j \in Bases!Keys : answers'[j].items = answers[j].items
  <2>1. CASE k \in Bases!Keys
    <3>1. answers[k] \in Each  BY <1>4, <2>1
    <3>2. answer \in Each /\ answer.items = answers[k].items  BY <3>1
    <3>3. \A i \in 1 .. 2, d \in 1 .. 2 : k = <<i, d>> => answer.items \subseteq {1}
      BY <1>0, <3>2 DEF BaseCaches
    <3>f. Fits(answer, k)  BY <3>2, <3>3 DEF Fits
    <3> HIDE DEF answer
    <3>4. /\ answers' \in BaseCaches
          /\ \A j \in Bases!Keys : answers'[j] = IF j = k THEN answer ELSE answers[j]
      <4>1. OneMore(answers, k, answer, answers')
        BY <1>0, <3>f, OneMoreAnswer, Zenon
      <4> QED  BY <1>3, <4>1 DEF OneMore
    <3> QED  BY <3>2, <3>4
  <2>2. CASE k \notin Bases!Keys
    <3> HIDE DEF answer, Each
    <3>1. answers' = answers  BY <1>3, <1>4, <2>2
    <3> QED  BY <1>0, <3>1
  <2> QED  BY <2>1, <2>2
<1>6. picked' = picked /\ failures < 1 /\ failures' = failures + 1 /\ rounds' = 0
      /\ UNCHANGED <<catalogue, catalogueChanges>>
  BY DEF Bases!Fails, Bases!Arrive
<1>7. Follows(picked', chosenPath', answers')  BY <1>0, <1>3, <1>5, <1>6, ListedAlike
<1>8. failures' \in 0 .. 1  BY <1>6 DEF BasesIInv
<1> QED  BY <1>0, <1>3, <1>5, <1>6, <1>7, <1>8 DEF BasesIInv, TypedRequests

\* What a pick leaves, of a selection whose path is listed.
LEMMA PickIsKept ==
  ASSUME BasesIInv, NEW s \in Selections, Bases!Rerender(s, answers, requests),
         Follows(picked', s, answers), rounds' = 0,
         UNCHANGED <<catalogue, catalogueChanges, failures>>
  PROVE  BasesIInv'
<1>1. TypedRequests(requests)  BY DEF BasesIInv, TypedRequests
<1>2. chosenPath' = s /\ answers' = answers /\ TypedRequests(requests')
  BY <1>1, Rerendered
<1> QED  BY <1>2 DEF BasesIInv, TypedRequests

\* A step that only asks, answers or changes the server keeps the rest.
LEMMA RequestIsKept ==
  ASSUME BasesIInv, TypedRequests(requests'), catalogue' \in DatabaseCatalogues,
         catalogueChanges' \in 0 .. 1,
         UNCHANGED <<failures, chosenPath, answers, rounds, picked>>
  PROVE  BasesIInv'
BY DEF BasesIInv, TypedRequests

\* Asking again.
LEMMA AskedAgain ==
  ASSUME BasesIInv, Bases!AskAgain PROVE TypedRequests(requests')
<1>1. /\ Bases!Asking \in LevelRequest /\ Bases!Asking.pc = "asking"
  BY DEF Bases!Idle, Bases!Asking, LevelRequest
<1>2. {2, 3} \subseteq Bases!Levels  BY BaseKeys
<1>3. \A l \in Bases!Levels : requests'[l] = Bases!Asking \/ requests'[l] = requests[l]
  BY DEF Bases!AskAgain
<1>4. requests' = [l \in Bases!Levels |-> requests'[l]]  BY DEF Bases!AskAgain
<1>5. \A l \in Bases!Levels : requests'[l] \in LevelRequest
  BY <1>1, <1>3 DEF BasesIInv
<1>6. requests' \in [Bases!Levels -> LevelRequest]  BY <1>4, <1>5
<1>7. \A l \in {2, 3} : requests'[l].pc # "answered"
  <2> SUFFICES ASSUME NEW l \in {2, 3} PROVE requests'[l].pc # "answered"
    OBVIOUS
  <2>1. requests[l].pc # "answered"  BY DEF BasesIInv
  <2> QED  BY <1>1, <1>2, <1>3, <2>1
<1> QED  BY <1>6, <1>7 DEF TypedRequests

\* Every step of the page keeps what its selection rests on.
LEMMA BasesIsKept == BasesIInv /\ [Next]_vars => BasesIInv'
<1> SUFFICES ASSUME BasesIInv, [Bases!DatabasesNext]_databasesVars PROVE BasesIInv'
  BY BasesRun
<1>0. /\ chosenPath \in Selections /\ answers \in BaseCaches /\ TypedRequests(requests)
      /\ Follows(picked, chosenPath, answers)
  BY DEF BasesIInv, TypedRequests
<1>1. CASE Bases!Effects
  <2> DEFINE a == Bases!AfterEffects(chosenPath, answers)
  <2>1. a \in Selections  BY <1>0, EffectsAre
  <2>2. Follows(picked, a, answers)  BY <1>0, EffectsFollow
  <2>3. chosenPath' = a /\ answers' = answers /\ TypedRequests(requests')
    <3>1. Bases!Rerender(a, answers, requests)  BY <1>1 DEF Bases!Effects
    <3> HIDE DEF a
    <3> QED  BY <1>0, <3>1, Rerendered
  <2>4. /\ chosenPath # a /\ rounds' = rounds + 1
        /\ UNCHANGED <<catalogue, catalogueChanges, failures, picked>>
    BY <1>1 DEF Bases!Effects, Bases!Settled
  <2>5. rounds = 0 \/ rounds = 1 \/ rounds = 2  BY DEF BasesIInv
  <2>6. rounds # 2
    <3> SUFFICES ASSUME rounds = 2 PROVE FALSE
      OBVIOUS
    <3>1. PICK s \in Selections :
             chosenPath = Bases!AfterEffects(Bases!AfterEffects(s, answers), answers)
      BY DEF BasesIInv
    <3> QED  BY <1>0, <2>4, <3>1, TwoRounds
  <2>7. rounds' = 1 => \E s \in Selections : chosenPath' = Bases!AfterEffects(s, answers')
    BY <1>0, <2>3
  <2>8. rounds' = 2 => \E s \in Selections :
           chosenPath' = Bases!AfterEffects(Bases!AfterEffects(s, answers'), answers')
    <3> SUFFICES ASSUME rounds' = 2
                 PROVE  \E s \in Selections :
                    chosenPath' = Bases!AfterEffects(Bases!AfterEffects(s, answers), answers)
      BY <2>3
    <3>1. rounds = 1  BY <2>4, <2>5
    <3>2. PICK s \in Selections : chosenPath = Bases!AfterEffects(s, answers)
      BY <3>1 DEF BasesIInv
    <3> QED  BY <2>3, <3>2
  <2>9. rounds' \in 0 .. 2  BY <2>4, <2>5, <2>6
  <2>10. Follows(picked', chosenPath', answers')  BY <2>2, <2>3, <2>4
  <2>11. chosenPath' \in Selections  BY <2>1, <2>3
  <2> HIDE DEF a
  <2> QED  BY <1>0, <2>3, <2>4, <2>7, <2>8, <2>9, <2>10, <2>11 DEF BasesIInv, TypedRequests
<1>2. CASE Bases!Settled /\ Bases!Event
  <2>1. CASE Bases!Changes
    <3>1. /\ catalogueChanges' \in 0 .. 1 /\ catalogue' \in DatabaseCatalogues
          /\ requests' = requests /\ UNCHANGED <<failures, chosenPath, answers, rounds, picked>>
      BY <2>1 DEF Bases!Changes, BasesIInv
    <3>2. TypedRequests(requests')  BY <1>0, <3>1
    <3> QED  BY <3>1, <3>2, RequestIsKept
  <2>2. ASSUME NEW l \in Bases!Levels, Bases!Answers(l) PROVE BasesIInv'
    <3>1. /\ l < 2
          /\ requests' = [requests EXCEPT ![l] =
                             [pc |-> "answered", items |-> Bases!Listed(Bases!Key(l))]]
          /\ UNCHANGED <<catalogue, catalogueChanges, failures, chosenPath, answers, rounds,
                         picked>>
      BY <2>2 DEF Bases!Answers
    <3>2. Bases!Listed(Bases!Key(l)) \subseteq Bases!Listable  BY DEF Bases!Listed
    <3>3. TypedRequests(requests')
      <4> DEFINE new == [pc |-> "answered", items |-> Bases!Listed(Bases!Key(l))]
      <4>1. new \in LevelRequest  BY <3>2 DEF LevelRequest
      <4>2. {2, 3} \subseteq Bases!Levels /\ l \notin {2, 3}  BY <3>1, BaseKeys
      <4> HIDE DEF new
      <4>3. \A m \in Bases!Levels : requests'[m] = IF m = l THEN new ELSE requests[m]
        BY <1>0, <3>1 DEF new, TypedRequests
      <4>4. requests' \in [Bases!Levels -> LevelRequest]
        BY <1>0, <3>1, <4>1 DEF new, TypedRequests
      <4>5. \A m \in {2, 3} : requests'[m].pc # "answered"
        BY <1>0, <4>2, <4>3 DEF TypedRequests
      <4> QED  BY <4>4, <4>5 DEF TypedRequests
    <3>4. catalogue' \in DatabaseCatalogues /\ catalogueChanges' \in 0 .. 1
      BY <3>1 DEF BasesIInv
    <3> QED  BY <3>1, <3>3, <3>4, RequestIsKept
  <2>3. ASSUME NEW l \in Bases!Levels, Bases!Arrives(l) PROVE BasesIInv'
    <3>0. l \in 0 .. 3 /\ l \in Nat  BY BaseKeys
    <3>1. CASE requests[l].pc = "answered" /\ Bases!Success(l, requests[l].items)
      <4>1. requests[l].items \subseteq Bases!Listable
        BY <1>0 DEF TypedRequests, LevelRequest
      <4>2. l # 2 /\ l # 3  BY <1>0, <3>1 DEF TypedRequests
      <4>3. l = 0 \/ l = 1  BY <4>2, BaseKeys
      <4>4. \A i, d : Bases!Key(l) # <<i, d>>  BY <4>3, ShownKeys
      <4> QED  BY <3>0, <3>1, <4>1, <4>2, <4>4, SuccessIsKept
    <3>2. CASE l >= 2 /\ Bases!Success(l, Bases!Listed(Bases!Key(l)))
      <4> DEFINE names == Bases!Listed(Bases!Key(l))
      <4>1. /\ names \subseteq Bases!Listable
            /\ \A i, d : Bases!Key(l) = <<i, d>> => names \subseteq {1}
        BY ListedOf DEF BasesIInv
      <4>2. l = 2 => names \subseteq {1}  BY <4>1, ShownKeys
      <4>3. Bases!Success(l, names)  BY <3>2
      <4> HIDE DEF names
      <4> QED  BY <3>0, <4>1, <4>2, <4>3, SuccessIsKept
    <3> QED  BY <2>3, <3>1, <3>2 DEF Bases!Arrives
  <2>4. ASSUME NEW l \in Bases!Levels, Bases!Fails(l) PROVE BasesIInv'
    <3>1. l \in 0 .. 3  BY BaseKeys
    <3> QED  BY <2>4, <3>1, FailureIsKept
  <2>5. ASSUME NEW i \in 1 .. 2, Bases!PickInstance(i) PROVE BasesIInv'
    <3>1. /\ i \in answers[<< >>].items /\ Bases!Rerender(<<i, 0, 0>>, answers, requests)
          /\ picked' = <<i>> /\ rounds' = 0
          /\ UNCHANGED <<catalogue, catalogueChanges, failures>>
      BY <2>5 DEF Bases!PickInstance, Bases!None
    <3>2. <<i, 0, 0>> \in Selections  BY DEF Selections
    <3>3. Follows(picked', <<i, 0, 0>>, answers)  BY <3>1 DEF Follows
    <3> QED  BY <3>1, <3>2, <3>3, PickIsKept
  <2>i. chosenPath[1] = Bases!Shown[1] /\ Bases!Shown[1] \in 1 .. 2
        => chosenPath[1] \in answers[<< >>].items
    <3> DEFINE I == answers[<< >>].items
    <3>1. FirstIs(I)
      <4>1. I \subseteq 1 .. 2  BY <1>0, BaseItems
      <4>2. I \subseteq {1, 2}  BY <4>1
      <4>3. Few(I)  BY <4>2 DEF Few
      <4> QED  BY <4>3, FirstIsListed, Zenon
    <3>2. Bases!Shown[1] = Bases!OrFirst(chosenPath[1], I)  BY ShownKeys
    <3> HIDE DEF I
    <3>3. Bases!Shown[1] \in 1 .. 2 => Bases!Shown[1] # 0  OBVIOUS
    <3>4. Bases!Shown[1] # 0 => Bases!Shown[1] \in I  BY <3>1, <3>2, Zenon DEF FirstIs
    <3> QED  BY <3>3, <3>4 DEF I
  <2>6. ASSUME NEW d \in 1 .. 2, Bases!PickDatabase(d) PROVE BasesIInv'
    <3> DEFINE s == <<chosenPath[1], d, 0>>
    <3>1. /\ d \in Bases!Items(answers, <<Bases!Shown[1]>>)
          /\ Bases!Rerender(s, answers, requests)
          /\ picked' = IF chosenPath[1] = Bases!Shown[1] THEN <<Bases!Shown[1], d>> ELSE << >>
          /\ rounds' = 0 /\ UNCHANGED <<catalogue, catalogueChanges, failures>>
      <4>1. Bases!databases(chosenPath, answers) = Bases!Items(answers, <<Bases!Shown[1]>>)
        BY DEF Bases!databases, Bases!Shown, Bases!Path
      <4> QED  BY <2>6, <4>1 DEF Bases!PickDatabase, Bases!Chosen, Bases!None
    <3>2. s \in Selections  BY <1>0 DEF Selections
    <3>3. Bases!Shown[1] \in 1 .. 2 /\ d \in answers[<<Bases!Shown[1]>>].items
      BY <3>1, BaseKeys DEF Bases!Items
    <3>4. Follows(picked', s, answers)
      <4>1. s[1] = chosenPath[1] /\ s[2] = d  OBVIOUS
      <4> HIDE DEF s
      <4> QED  BY <2>i, <3>1, <3>3, <4>1 DEF Follows
    <3> HIDE DEF s
    <3> QED  BY <3>1, <3>2, <3>4, PickIsKept
  <2>7. ASSUME NEW t \in {1}, Bases!PickTable(t) PROVE BasesIInv'
    <3> DEFINE s == [chosenPath EXCEPT ![3] = t]
               i == Bases!Shown[1]
               d == chosenPath[2]
    <3>1. /\ t \in Bases!Items(answers, <<i, d>>)
          /\ Bases!Rerender(s, answers, requests)
          /\ picked' = IF chosenPath[1] = i THEN <<i, d, t>> ELSE << >>
          /\ rounds' = 0 /\ UNCHANGED <<catalogue, catalogueChanges, failures>>
      <4>1. Bases!tables(chosenPath, answers) = Bases!Items(answers, <<i, d>>)
        BY DEF Bases!tables, Bases!Shown, Bases!Path
      <4> QED  BY <2>7, <4>1 DEF Bases!PickTable, Bases!Chosen
    <3>2. s \in Selections /\ s[1] = chosenPath[1] /\ s[2] = d /\ s[3] = 1
      BY <1>0 DEF Selections
    <3>3. i \in 1 .. 2 /\ d \in 1 .. 2 /\ 1 \in answers[<<i, d>>].items
      <4>1. <<i, d>> \in Bases!Keys /\ 1 \in answers[<<i, d>>].items
        BY <3>1 DEF Bases!Items
      <4> HIDE DEF i, d
      <4> QED  BY <4>1, BaseKeys
    <3>4. d \in answers[<<i>>].items
      <4> DEFINE D == Bases!Items(answers, <<i>>)
      <4>1. Bases!AfterEffects(chosenPath, answers) = chosenPath  BY <1>2 DEF Bases!Settled
      <4>2. Bases!selectedInstance(chosenPath, answers) = i
        BY DEF Bases!Shown, Bases!Path
      <4>3. d = Bases!OrFirst(d, D)  BY <1>0, <4>1, <4>2, EffectsAre
      <4>4. FirstIs(D)
        <5>1. D \subseteq 1 .. 2  BY <1>0, BaseItems
        <5>2. D \subseteq {1, 2}  BY <5>1
        <5>3. Few(D)  BY <5>2 DEF Few
        <5> QED  BY <5>3, FirstIsListed, Zenon
      <4>5. d # 0  BY <3>3
      <4> HIDE DEF D, d
      <4>6. d \in D  BY <4>3, <4>4, <4>5, Zenon DEF FirstIs
      <4> QED  BY <3>3, <4>6, BaseKeys DEF D, Bases!Items
    <3>5. Follows(picked', s, answers)
      <4> HIDE DEF s, i, d
      <4>1. CASE chosenPath[1] = i
        <5>1. i \in answers[<< >>].items  BY <2>i, <3>3, <4>1 DEF i
        <5>2. picked' = <<i, d, 1>>  BY <3>1, <4>1
        <5> QED  BY <3>2, <3>3, <3>4, <4>1, <5>1, <5>2 DEF Follows
      <4>2. CASE chosenPath[1] # i
        <5>1. picked' = << >>  BY <3>1, <4>2
        <5> QED  BY <5>1 DEF Follows
      <4> QED  BY <4>1, <4>2
    <3> HIDE DEF s, i, d
    <3> QED  BY <3>1, <3>2, <3>5, PickIsKept
  <2>8. CASE Bases!refreshAll \/ Bases!Refocus
    <3>1. /\ Bases!AskAgain
          /\ UNCHANGED <<catalogue, catalogueChanges, failures, chosenPath, answers, rounds,
                         picked>>
      BY <2>8 DEF Bases!refreshAll, Bases!Refocus
    <3>2. TypedRequests(requests')  BY <3>1, AskedAgain
    <3>3. catalogue' \in DatabaseCatalogues /\ catalogueChanges' \in 0 .. 1
      BY <3>1 DEF BasesIInv
    <3> QED  BY <3>1, <3>2, <3>3, RequestIsKept
  <2> QED
    BY <1>2, <2>1, <2>2, <2>3, <2>4, <2>5, <2>6, <2>7, <2>8 DEF Bases!Event
<1>3. CASE UNCHANGED databasesVars
  BY <1>3 DEF BasesIInv, databasesVars
<1> QED  BY <1>1, <1>2, <1>3 DEF Bases!DatabasesNext

\* What the invariant says of a page that has settled.
LEMMA FollowedIsPicked == BasesIInv => Bases!EffectsSettle /\ Bases!PickIsShown
<1> SUFFICES ASSUME BasesIInv PROVE Bases!EffectsSettle /\ Bases!PickIsShown
  OBVIOUS
<1>0. chosenPath \in Selections /\ answers \in BaseCaches /\ Follows(picked, chosenPath, answers)
  BY DEF BasesIInv
<1>1. Bases!EffectsSettle
  <2> SUFFICES ASSUME rounds = 2 PROVE Bases!AfterEffects(chosenPath, answers) = chosenPath
    BY DEF Bases!EffectsSettle, Bases!Settled
  <2>1. PICK s \in Selections :
           chosenPath = Bases!AfterEffects(Bases!AfterEffects(s, answers), answers)
    BY DEF BasesIInv
  <2> QED  BY <1>0, <2>1, TwoRounds
<1>2. SubSeq(Bases!Shown, 1, Len(picked)) = picked
  <2>1. /\ Bases!Key(0) = << >> /\ Bases!Key(1) = <<Bases!Shown[1]>>
        /\ Bases!Key(2) = <<Bases!Shown[1], chosenPath[2]>>
        /\ Bases!Key(3) = <<Bases!Shown[1], chosenPath[2], Bases!Shown[3]>>
    BY ShownKeys
  <2>2. \E n \in {0, 1, 2, 3} : Len(picked) = n /\ picked = Bases!Key(n)
    <3>1. \/ picked = << >>
          \/ \E i \in 1 .. 2 :
                /\ Bases!Shown[1] = i
                /\ \/ picked = <<i>>
                   \/ picked = <<i, chosenPath[2]>>
                   \/ picked = <<i, chosenPath[2], 1>> /\ Bases!Shown[3] = 1
      BY <1>0, FollowedIsShown
    <3>2. CASE picked = << >>  BY <2>1, <3>2
    <3>3. CASE picked = <<Bases!Shown[1]>>  BY <2>1, <3>3
    <3>4. CASE picked = <<Bases!Shown[1], chosenPath[2]>>  BY <2>1, <3>4
    <3>5. CASE picked = <<Bases!Shown[1], chosenPath[2], 1>> /\ Bases!Shown[3] = 1
      BY <2>1, <3>5
    <3> QED  BY <3>1, <3>2, <3>3, <3>4, <3>5
  <2> QED  BY <2>2 DEF Bases!Key
<1> QED  BY <1>1, <1>2 DEF Bases!PickIsShown

\* The effects settle in two rounds, and what the user picked is what is shown
\* for as long as the answers list it.
THEOREM PickStaysShown == Spec => [](Bases!EffectsSettle /\ Bases!PickIsShown)
<1>1. Init => BasesIInv  BY BasesStarts
<1>2. BasesIInv /\ [Next]_vars => BasesIInv'  BY BasesIsKept
<1>3. BasesIInv => Bases!EffectsSettle /\ Bases!PickIsShown  BY FollowedIsPicked
<1> QED  BY <1>1, <1>2, <1>3, PTL DEF Spec

-----------------------------------------------------------------------------
(* HostsEditor.                                                            *)

\* The hosts of the server, and as they are shown.
StoredHost == [name : Names, value : Values]
ShownHost == [name : Names, value : Editor!Shown]

\* What the editors keep, and what is on its way.
HostsTyped ==
    /\ section \in {"docker", "coolify"}
    /\ storedHosts \in Editor!Lists(StoredHost)
    /\ hostOthers \in 0 .. MaxOthers
    /\ listedHosts \in Editor!Lists(ShownHost)
    /\ hostsFetch \in [pc : {"idle", "asking", "answered"}, hosts : Editor!Lists(ShownHost)]
    /\ fileHosts \in Editor!Lists(Editor!Rows) /\ edits \in 0 .. MaxEdits
    /\ editing \in [index : 0 .. MaxRows, was : Names \cup {Editor!None}]
    /\ isAdding \in BOOLEAN
    /\ save \in [pc : {"idle", "asking", "done", "error"}, hosts : Editor!Lists(Editor!Rows)]
    /\ testingKeys \subseteq Editor!AllNames /\ latest \in Editor!AllNames \cup {Editor!None}
    /\ overtaken \subseteq testingKeys

\* No two hosts of any list have one name, so that a draft that is loaded
\* from one has none either.
EditorIInv ==
    /\ HostsTyped
    /\ Editor!Distinct(storedHosts) /\ Editor!Distinct(hostsFetch.hosts)
    /\ Editor!DoneChangesTheRow
    /\ Editor!SpinnersAreTests

\* The pages run the editors by their own steps.
LEMMA EditorRun == [Next]_vars => [Editor!HostsNext]_hostsVars
<1>1. CASE Next
  BY <1>1 DEF Next
<1>2. CASE UNCHANGED vars
  BY <1>2 DEF vars
<1> QED  BY <1>1, <1>2

\* A list is a sequence that is not too long.
LEMMA ListOf ==
  ASSUME NEW S, NEW s
  PROVE  s \in Editor!Lists(S) <=> s \in Seq(S) /\ Len(s) \in 0 .. MaxRows
<1>1. ASSUME s \in Editor!Lists(S) PROVE s \in Seq(S) /\ Len(s) \in 0 .. MaxRows
  <2>1. PICK n \in 0 .. MaxRows : s \in [1 .. n -> S]  BY <1>1 DEF Editor!Lists
  <2> QED  BY <2>1
<1>2. ASSUME s \in Seq(S), Len(s) \in 0 .. MaxRows PROVE s \in Editor!Lists(S)
  <2>1. s \in [1 .. Len(s) -> S]  BY <1>2
  <2> QED  BY <1>2, <2>1 DEF Editor!Lists
<1> QED  BY <1>1, <1>2

\* A list without one of its elements.
LEMMA ListWithout ==
  ASSUME NEW S, NEW s \in Editor!Lists(S), NEW i \in DOMAIN s
  PROVE  /\ Editor!Without(s, i) \in Editor!Lists(S)
         /\ DOMAIN Editor!Without(s, i) = 1 .. Len(s) - 1
         /\ \A j \in 1 .. Len(s) - 1 :
               Editor!Without(s, i)[j] = IF j < i THEN s[j] ELSE s[j + 1]
<1>1. s \in Seq(S) /\ Len(s) \in 0 .. MaxRows /\ i \in 1 .. Len(s)  BY ListOf
<1> DEFINE front == SubSeq(s, 1, i - 1)
           back == SubSeq(s, i + 1, Len(s))
<1>2. /\ front \in Seq(S) /\ Len(front) = i - 1
      /\ \A j \in 1 .. i - 1 : front[j] = s[j]
  BY <1>1
<1>3. /\ back \in Seq(S) /\ Len(back) = Len(s) - i
      /\ \A j \in 1 .. Len(s) - i : back[j] = s[j + i]
  BY <1>1
<1> HIDE DEF front, back
<1>4. Editor!Without(s, i) = front \o back  BY DEF Editor!Without, front, back
<1>5. front \o back \in Seq(S) /\ Len(front \o back) = Len(s) - 1
  BY <1>1, <1>2, <1>3
<1>6. \A j \in 1 .. Len(s) - 1 : (front \o back)[j] = IF j < i THEN s[j] ELSE s[j + 1]
  BY <1>1, <1>2, <1>3
<1>7. MaxRows \in Nat  BY HostsAssumption
<1>8. DOMAIN (front \o back) = 1 .. Len(s) - 1  BY <1>5
<1>9. Len(front \o back) \in 0 .. MaxRows  BY <1>1, <1>5, <1>7
<1>10. front \o back \in Editor!Lists(S)  BY <1>5, <1>9, ListOf
<1> QED  BY <1>4, <1>6, <1>8, <1>10

\* The empty list.
LEMMA EmptyList ==
  /\ << >> \in Editor!Lists(ShownHost) /\ << >> \in Editor!Lists(Editor!Rows)
  /\ Editor!Distinct(<< >>)
<1>1. Len(<< >>) \in 0 .. MaxRows  BY HostsAssumption
<1>2. << >> \in Seq(ShownHost) /\ << >> \in Seq(Editor!Rows)  OBVIOUS
<1>3. Editor!Distinct(<< >>)  BY DEF Editor!Distinct
<1> QED  BY <1>1, <1>2, <1>3, ListOf

\* It still has no name twice.
LEMMA DistinctWithout ==
  ASSUME NEW S, NEW s \in Editor!Lists(S), NEW i \in DOMAIN s, Editor!Distinct(s)
  PROVE  Editor!Distinct(Editor!Without(s, i))
<1>1. s \in Seq(S) /\ i \in 1 .. Len(s)  BY ListOf
<1>2. /\ DOMAIN Editor!Without(s, i) = 1 .. Len(s) - 1
      /\ \A j \in 1 .. Len(s) - 1 :
            Editor!Without(s, i)[j] = IF j < i THEN s[j] ELSE s[j + 1]
  BY ListWithout
<1> QED  BY <1>1, <1>2 DEF Editor!Distinct

\* The answer of the settings, and a draft that is loaded from one.
LEMMA HostViews ==
  /\ \A hosts \in Editor!Lists(StoredHost) :
        /\ Editor!View(hosts) \in Editor!Lists(ShownHost)
        /\ Editor!Distinct(hosts) => Editor!Distinct(Editor!View(hosts))
  /\ \A hosts \in Editor!Lists(ShownHost) :
        /\ Editor!Loaded(hosts) \in Editor!Lists(Editor!Rows)
        /\ Editor!Distinct(hosts) => Editor!Distinct(Editor!Loaded(hosts))
<1>1. ASSUME NEW hosts \in Editor!Lists(StoredHost)
      PROVE  /\ Editor!View(hosts) \in Editor!Lists(ShownHost)
             /\ Editor!Distinct(hosts) => Editor!Distinct(Editor!View(hosts))
  <2>1. hosts \in Seq(StoredHost) /\ Len(hosts) \in 0 .. MaxRows  BY ListOf
  <2>2. ASSUME NEW i \in DOMAIN hosts
        PROVE  Editor!View(hosts)[i] \in ShownHost /\ Editor!View(hosts)[i].name = hosts[i].name
    <3>1. hosts[i] \in StoredHost  BY <2>1
    <3>2. Editor!View(hosts)[i] \in {hosts[i], [hosts[i] EXCEPT !.value = Editor!Masked]}
      BY DEF Editor!View
    <3> QED  BY <3>1, <3>2 DEF StoredHost, ShownHost, Editor!Shown
  <2>3. Editor!View(hosts) \in [1 .. Len(hosts) -> ShownHost]
    BY <2>1, <2>2 DEF Editor!View
  <2>4. Editor!View(hosts) \in Editor!Lists(ShownHost)  BY <2>1, <2>3 DEF Editor!Lists
  <2> QED  BY <2>1, <2>2, <2>3, <2>4 DEF Editor!Distinct
<1>2. ASSUME NEW hosts \in Editor!Lists(ShownHost)
      PROVE  /\ Editor!Loaded(hosts) \in Editor!Lists(Editor!Rows)
             /\ Editor!Distinct(hosts) => Editor!Distinct(Editor!Loaded(hosts))
  <2>1. hosts \in Seq(ShownHost) /\ Len(hosts) \in 0 .. MaxRows  BY ListOf
  <2>2. ASSUME NEW i \in DOMAIN hosts
        PROVE  /\ Editor!Loaded(hosts)[i] \in Editor!Rows
               /\ Editor!Loaded(hosts)[i].name = hosts[i].name
    <3>1. hosts[i] \in ShownHost  BY <2>1
    <3>2. Editor!Loaded(hosts)[i]
             = [name |-> hosts[i].name, value |-> hosts[i].value, was |-> hosts[i].name]
      BY DEF Editor!Loaded
    <3> QED  BY <3>1, <3>2 DEF ShownHost, Editor!Rows
  <2>3. Editor!Loaded(hosts) \in [1 .. Len(hosts) -> Editor!Rows]
    BY <2>1, <2>2 DEF Editor!Loaded
  <2>4. Editor!Loaded(hosts) \in Editor!Lists(Editor!Rows)  BY <2>1, <2>3 DEF Editor!Lists
  <2> QED  BY <2>1, <2>2, <2>3, <2>4 DEF Editor!Distinct
<1> QED  BY <1>1, <1>2

\* The names of a draft's rows are none of the environment's.
LEMMA NamesOfRows ==
  ASSUME NEW hosts \in Editor!Lists(Editor!Rows)
  PROVE  \A row \in Editor!Members(hosts) : row.name \notin EnvNames
<1>1. hosts \in Seq(Editor!Rows)  BY ListOf
<1>2. \A i \in DOMAIN hosts : hosts[i] \in Editor!Rows  BY <1>1
<1> QED  BY <1>2, HostsAssumption DEF Editor!Members, Editor!Rows

\* The editors open with the file's hosts.
LEMMA EditorStarts == Init => EditorIInv
<1> SUFFICES ASSUME Editor!HostsInit PROVE EditorIInv
  BY DEF Init
<1>1. /\ section \in {"docker", "coolify"}
      /\ storedHosts = <<[name |-> "a", value |-> "va"]>>
      /\ hostOthers = 0 /\ edits = 0
      /\ listedHosts = Editor!View(storedHosts) /\ fileHosts = Editor!Loaded(listedHosts)
      /\ hostsFetch = [pc |-> "idle", hosts |-> << >>] /\ save = [pc |-> "idle", hosts |-> << >>]
      /\ editing = [index |-> 0, was |-> Editor!None] /\ isAdding = FALSE
      /\ testingKeys = {} /\ latest = Editor!None /\ overtaken = {}
  BY DEF Editor!HostsInit, Editor!Idle, Editor!NoEdit, FirstHosts
<1>2. storedHosts \in Editor!Lists(StoredHost)
  <2>1. [name |-> "a", value |-> "va"] \in StoredHost  BY HostsAssumption DEF StoredHost
  <2>2. storedHosts \in Seq(StoredHost) /\ Len(storedHosts) = 1  BY <1>1, <2>1
  <2>3. Len(storedHosts) \in 0 .. MaxRows  BY <2>2, HostsAssumption
  <2> QED  BY <2>2, <2>3, ListOf
<1>3. Editor!Distinct(storedHosts)  BY <1>1 DEF Editor!Distinct
<1>4. /\ listedHosts \in Editor!Lists(ShownHost) /\ Editor!Distinct(listedHosts)
      /\ fileHosts \in Editor!Lists(Editor!Rows) /\ Editor!Distinct(fileHosts)
  BY <1>1, <1>2, <1>3, HostViews
<1>5. << >> \in Editor!Lists(ShownHost) /\ << >> \in Editor!Lists(Editor!Rows)
  BY EmptyList
<1>6. HostsTyped
  <2>1. hostsFetch \in [pc : {"idle", "asking", "answered"}, hosts : Editor!Lists(ShownHost)]
    BY <1>1, <1>5
  <2>2. save \in [pc : {"idle", "asking", "done", "error"}, hosts : Editor!Lists(Editor!Rows)]
    BY <1>1, <1>5
  <2>3. editing \in [index : 0 .. MaxRows, was : Names \cup {Editor!None}]
    BY <1>1, HostsAssumption
  <2>4. hostOthers \in 0 .. MaxOthers /\ edits \in 0 .. MaxEdits
    BY <1>1, HostsAssumption, BoundsAssumption
  <2> QED  BY <1>1, <1>2, <1>4, <2>1, <2>2, <2>3, <2>4 DEF HostsTyped
<1>7. Editor!Distinct(hostsFetch.hosts)  BY <1>1 DEF Editor!Distinct
<1>8. Editor!DoneChangesTheRow  BY <1>1, <1>4, NamesOfRows DEF Editor!DoneChangesTheRow
<1>9. Editor!SpinnersAreTests  BY <1>1 DEF Editor!SpinnersAreTests
<1> QED  BY <1>3, <1>6, <1>7, <1>8, <1>9 DEF EditorIInv

\* A draft, with what is edited in it, in which a step leaves no name twice.
LEMMA DoneStays ==
  ASSUME fileHosts' \in Editor!Lists(Editor!Rows), Editor!Distinct(fileHosts)',
         editing'.index # 0 =>
            editing'.index \in DOMAIN fileHosts' /\ fileHosts'[editing'.index].was = editing'.was
  PROVE  Editor!DoneChangesTheRow'
<1>1. \A row \in Editor!Members(fileHosts') : row.name \notin EnvNames  BY NamesOfRows
<1> QED  BY <1>1 DEF Editor!DoneChangesTheRow, Editor!Members

\* Every action of the editors keeps the invariant.
LEMMA EditorIsKept == EditorIInv /\ [Next]_vars => EditorIInv'
<1> SUFFICES ASSUME EditorIInv, [Editor!HostsNext]_hostsVars PROVE EditorIInv'
  BY EditorRun
<1> DEFINE Fetches == [pc : {"idle", "asking", "answered"}, hosts : Editor!Lists(ShownHost)]
           Saves == [pc : {"idle", "asking", "done", "error"}, hosts : Editor!Lists(Editor!Rows)]
           Edits == [index : 0 .. MaxRows, was : Names \cup {Editor!None}]
<1>t. HostsTyped  BY DEF EditorIInv
<1>T. ASSUME section' = section, storedHosts' \in Editor!Lists(StoredHost),
             hostOthers' \in 0 .. MaxOthers, listedHosts' \in Editor!Lists(ShownHost),
             hostsFetch' \in Fetches, fileHosts' \in Editor!Lists(Editor!Rows),
             edits' \in 0 .. MaxEdits, editing' \in Edits, isAdding' \in BOOLEAN,
             save' \in Saves, testingKeys' \subseteq Editor!AllNames,
             latest' \in Editor!AllNames \cup {Editor!None}, overtaken' \subseteq testingKeys'
      PROVE  HostsTyped'
  BY <1>t, <1>T DEF HostsTyped, Editor!Rows
<1>y. /\ storedHosts \in Editor!Lists(StoredHost) /\ hostOthers \in 0 .. MaxOthers
      /\ listedHosts \in Editor!Lists(ShownHost) /\ hostsFetch \in Fetches
      /\ fileHosts \in Editor!Lists(Editor!Rows) /\ edits \in 0 .. MaxEdits
      /\ editing \in Edits /\ isAdding \in BOOLEAN /\ save \in Saves
      /\ testingKeys \subseteq Editor!AllNames /\ latest \in Editor!AllNames \cup {Editor!None}
      /\ overtaken \subseteq testingKeys
  BY <1>t DEF HostsTyped
<1>n. /\ << >> \in Editor!Lists(ShownHost) /\ << >> \in Editor!Lists(Editor!Rows)
      /\ Editor!Distinct(<< >>)
  BY EmptyList
<1>f. /\ \A p \in {"idle", "asking"} : [pc |-> p, hosts |-> << >>] \in Fetches
      /\ Editor!Idle = [pc |-> "idle", hosts |-> << >>] /\ Editor!Idle \in Saves
      /\ [Editor!Idle EXCEPT !.pc = "asking"] = [pc |-> "asking", hosts |-> << >>]
  BY <1>n DEF Editor!Idle
<1>e. Editor!NoEdit \in Edits /\ Editor!NoEdit.index = 0
  BY HostsAssumption DEF Editor!NoEdit
<1>d. Editor!Distinct(fileHosts) /\ Editor!Distinct(storedHosts) /\ Editor!SpinnersAreTests
  BY DEF EditorIInv, Editor!DoneChangesTheRow
<1>i. editing.index # 0 => editing.index \in DOMAIN fileHosts
                           /\ fileHosts[editing.index].was = editing.was
  BY DEF EditorIInv, Editor!DoneChangesTheRow
<1>s. fileHosts \in Seq(Editor!Rows) /\ Len(fileHosts) \in 0 .. MaxRows /\ MaxRows \in Nat
  BY <1>y, HostsAssumption, ListOf
<1> HIDE DEF Fetches, Saves, Edits
\* The steps that leave the draft and the row under edit alone.
<1>D. ASSUME fileHosts' = fileHosts, editing' = editing PROVE Editor!DoneChangesTheRow'
  BY <1>D, <1>y, <1>d, <1>i, DoneStays DEF Editor!Distinct
<1>S. ASSUME UNCHANGED <<testingKeys, latest, overtaken>> PROVE Editor!SpinnersAreTests'
  BY <1>S, <1>d DEF Editor!SpinnersAreTests
<1>K. ASSUME HostsTyped', storedHosts' = storedHosts,
             hostsFetch'.hosts = hostsFetch.hosts \/ hostsFetch'.hosts = << >>,
             Editor!DoneChangesTheRow', Editor!SpinnersAreTests'
      PROVE  EditorIInv'
  <2>1. Editor!Distinct(storedHosts)'  BY <1>d, <1>K DEF Editor!Distinct
  <2>2. Editor!Distinct(hostsFetch.hosts)'
    BY <1>K DEF EditorIInv, Editor!Distinct
  <2> QED  BY <1>K, <2>1, <2>2 DEF EditorIInv
<1>1. CASE Editor!Refetch
  <2>1. /\ hostsFetch' = [pc |-> "asking", hosts |-> << >>]
        /\ UNCHANGED <<section, storedHosts, hostOthers, listedHosts, fileHosts, edits, editing,
                       isAdding, save, testingKeys, latest, overtaken>>
    BY <1>1, <1>f DEF Editor!Refetch
  <2>2. hostsFetch' \in Fetches /\ hostsFetch'.hosts = << >>  BY <1>f, <2>1
  <2>3. HostsTyped'  BY <1>y, <1>T, <2>1, <2>2
  <2> QED  BY <1>D, <1>S, <1>K, <2>1, <2>2, <2>3
<1>2. CASE Editor!FetchAnswers
  <2>1. /\ hostsFetch' = [pc |-> "answered", hosts |-> Editor!View(storedHosts)]
        /\ UNCHANGED <<section, storedHosts, hostOthers, listedHosts, fileHosts, edits, editing,
                       isAdding, save, testingKeys, latest, overtaken>>
    BY <1>2 DEF Editor!FetchAnswers
  <2>2. /\ Editor!View(storedHosts) \in Editor!Lists(ShownHost)
        /\ Editor!Distinct(Editor!View(storedHosts))
    BY <1>y, <1>d, HostViews
  <2>3. hostsFetch' \in Fetches /\ Editor!Distinct(hostsFetch.hosts)'
    BY <2>1, <2>2 DEF Fetches, Editor!Distinct
  <2>4. HostsTyped'  BY <1>y, <1>T, <2>1, <2>3
  <2>5. Editor!Distinct(storedHosts)'  BY <1>d, <2>1 DEF Editor!Distinct
  <2> QED  BY <1>D, <1>S, <2>1, <2>3, <2>4, <2>5 DEF EditorIInv
<1>3. CASE Editor!FetchArrives
  <2>1. /\ listedHosts' = hostsFetch.hosts /\ hostsFetch' = Editor!Idle
        /\ UNCHANGED <<section, storedHosts, hostOthers, edits, save, latest>>
    BY <1>3 DEF Editor!FetchArrives
  <2>2. hostsFetch.hosts \in Editor!Lists(ShownHost)  BY <1>y DEF Fetches
  <2>3. hostsFetch' \in Fetches /\ hostsFetch'.hosts = << >>  BY <1>f, <2>1
  <2>4. CASE UNCHANGED <<fileHosts, editing, isAdding, testingKeys, overtaken>>
    <3>1. HostsTyped'  BY <1>y, <1>T, <2>1, <2>2, <2>3, <2>4
    <3> QED  BY <1>D, <1>S, <1>K, <2>1, <2>3, <2>4, <3>1
  <2>5. CASE /\ fileHosts' = Editor!Loaded(hostsFetch.hosts)
             /\ editing' = Editor!NoEdit /\ isAdding' = FALSE
             /\ testingKeys' = {} /\ overtaken' = {}
    <3>1. fileHosts' \in Editor!Lists(Editor!Rows) /\ Editor!Distinct(fileHosts')
      BY <2>2, <2>5, HostViews DEF EditorIInv
    <3>2. HostsTyped'  BY <1>y, <1>e, <1>T, <2>1, <2>2, <2>3, <2>5, <3>1
    <3>3. Editor!Distinct(fileHosts)'  BY <3>1 DEF Editor!Distinct
    <3>4. Editor!DoneChangesTheRow'  BY <1>e, <2>5, <3>1, <3>3, DoneStays
    <3>5. Editor!SpinnersAreTests'  BY <2>5 DEF Editor!SpinnersAreTests
    <3> QED  BY <1>K, <2>1, <2>3, <3>2, <3>4, <3>5
  <2> QED  BY <1>3, <2>4, <2>5 DEF Editor!FetchArrives, Editor!FollowConfig
<1>4. CASE Editor!OtherSaves
  <2>1. /\ hostOthers < MaxOthers /\ hostOthers' = hostOthers + 1
        /\ UNCHANGED <<section, listedHosts, hostsFetch, fileHosts, edits, editing, isAdding,
                       save,
                       testingKeys, latest, overtaken>>
    BY <1>4 DEF Editor!OtherSaves
  <2>2. PICK i \in DOMAIN storedHosts :
           storedHosts' \in {Editor!Without(storedHosts, i)}
                              \cup {[storedHosts EXCEPT ![i].value = v] : v \in Typed}
    BY <1>4 DEF Editor!OtherSaves
  <2>3. hostOthers' \in 0 .. MaxOthers  BY <1>y, <2>1, BoundsAssumption
  <2>4. storedHosts' \in Editor!Lists(StoredHost) /\ Editor!Distinct(storedHosts')
    <3>1. CASE storedHosts' = Editor!Without(storedHosts, i)
      <4>1. Editor!Without(storedHosts, i) \in Editor!Lists(StoredHost)  BY <1>y, ListWithout
      <4>2. Editor!Distinct(Editor!Without(storedHosts, i))  BY <1>y, <1>d, DistinctWithout
      <4> QED  BY <3>1, <4>1, <4>2
    <3>2. ASSUME NEW v \in Typed, storedHosts' = [storedHosts EXCEPT ![i].value = v]
          PROVE  storedHosts' \in Editor!Lists(StoredHost) /\ Editor!Distinct(storedHosts')
      <4>1. storedHosts \in Seq(StoredHost) /\ Len(storedHosts) \in 0 .. MaxRows
        BY <1>y, ListOf
      <4>2. /\ [storedHosts[i] EXCEPT !.value = v] \in StoredHost
            /\ [storedHosts[i] EXCEPT !.value = v].name = storedHosts[i].name
        <5>1. storedHosts[i] \in StoredHost  BY <4>1
        <5> QED  BY <5>1, HostsAssumption DEF StoredHost
      <4>3. /\ storedHosts' \in Seq(StoredHost) /\ Len(storedHosts') = Len(storedHosts)
            /\ DOMAIN storedHosts' = DOMAIN storedHosts
            /\ \A j \in DOMAIN storedHosts : storedHosts'[j].name = storedHosts[j].name
        BY <3>2, <4>1, <4>2
      <4>4. storedHosts' \in Editor!Lists(StoredHost)  BY <4>1, <4>3, ListOf
      <4> QED  BY <1>d, <4>3, <4>4 DEF Editor!Distinct
    <3> QED  BY <2>2, <3>1, <3>2
  <2>5. HostsTyped'  BY <1>y, <1>T, <2>1, <2>3, <2>4
  <2>6. Editor!Distinct(storedHosts)' /\ Editor!Distinct(hostsFetch.hosts)'
    BY <2>1, <2>4 DEF EditorIInv, Editor!Distinct
  <2> QED  BY <1>D, <1>S, <2>1, <2>5, <2>6 DEF EditorIInv
<1>5. CASE Editor!handleCancelEdit \/ \E i \in 1 .. MaxRows : Editor!handleStartEdit(i)
  <2>1. UNCHANGED <<section, storedHosts, hostOthers, listedHosts, hostsFetch, fileHosts, edits,
                    isAdding, save, testingKeys, latest, overtaken>>
    BY <1>5 DEF Editor!handleCancelEdit, Editor!handleStartEdit
  <2>2. \/ editing' = Editor!NoEdit
        \/ \E i \in 1 .. MaxRows : i \in DOMAIN fileHosts
                                   /\ editing' = [index |-> i, was |-> fileHosts[i].was]
    BY <1>5 DEF Editor!handleCancelEdit, Editor!handleStartEdit, Editor!RowButtons
  <2>3. /\ editing' \in Edits
        /\ editing'.index # 0 => editing'.index \in DOMAIN fileHosts
                                 /\ fileHosts[editing'.index].was = editing'.was
    <3>1. CASE editing' = Editor!NoEdit  BY <1>e, <3>1
    <3>2. ASSUME NEW i \in 1 .. MaxRows, i \in DOMAIN fileHosts,
                 editing' = [index |-> i, was |-> fileHosts[i].was]
          PROVE  /\ editing' \in Edits
                 /\ editing'.index \in DOMAIN fileHosts
                 /\ fileHosts[editing'.index].was = editing'.was
      <4>1. fileHosts[i] \in Editor!Rows  BY <1>s, <3>2
      <4>2. fileHosts[i].was \in Names \cup {Editor!None}  BY <4>1 DEF Editor!Rows
      <4> QED  BY <1>s, <3>2, <4>2 DEF Edits
    <3> QED  BY <2>2, <3>1, <3>2
  <2>4. HostsTyped'  BY <1>y, <1>T, <2>1, <2>3
  <2>5. Editor!DoneChangesTheRow'  BY <1>y, <1>d, <2>1, <2>3, DoneStays DEF Editor!Distinct
  <2> QED  BY <1>S, <1>K, <2>1, <2>4, <2>5
<1>6. ASSUME NEW i \in 1 .. MaxRows, Editor!handleRemove(i) PROVE EditorIInv'
  <2>1. /\ i \in DOMAIN fileHosts /\ editing.index = 0
        /\ fileHosts' = Editor!Without(fileHosts, i)
        /\ edits < MaxEdits /\ edits' = edits + 1
        /\ UNCHANGED <<section, storedHosts, hostOthers, listedHosts, hostsFetch, editing,
                       isAdding,
                       save, testingKeys, latest, overtaken>>
    BY <1>6 DEF Editor!handleRemove, Editor!RowButtons, Editor!Edit
  <2>2. fileHosts' \in Editor!Lists(Editor!Rows)  BY <1>y, <2>1, ListWithout
  <2>3. Editor!Distinct(fileHosts')  BY <1>y, <1>d, <2>1, DistinctWithout
  <2>4. edits' \in 0 .. MaxEdits  BY <1>y, <2>1, HostsAssumption
  <2>5. HostsTyped'  BY <1>y, <1>T, <2>1, <2>2, <2>4
  <2>6. Editor!DoneChangesTheRow'  BY <2>1, <2>2, <2>3, DoneStays DEF Editor!Distinct
  <2> QED  BY <1>S, <1>K, <2>1, <2>5, <2>6
<1>7. CASE Editor!OpenOrCloseForm
  <2>1. /\ isAdding' = ~isAdding
        /\ UNCHANGED <<section, storedHosts, hostOthers, listedHosts, hostsFetch, fileHosts,
                       edits,
                       editing, save, testingKeys, latest, overtaken>>
    BY <1>7 DEF Editor!OpenOrCloseForm
  <2>2. HostsTyped'  BY <1>y, <1>T, <2>1
  <2> QED  BY <1>D, <1>S, <1>K, <2>1, <2>2
<1>8. ASSUME NEW n \in Editor!AllNames, NEW v \in Editor!Shown, Editor!handleSaveEdit(n, v)
      PROVE  EditorIInv'
  <2> DEFINE i == editing.index
             row == [[fileHosts[i] EXCEPT !.name = n] EXCEPT !.value = v]
  <2>1. /\ i # 0 /\ n \notin EnvNames
        /\ \A j \in DOMAIN fileHosts : j # i => fileHosts[j].name # n
        /\ fileHosts' = [fileHosts EXCEPT ![i].name = n, ![i].value = v]
        /\ edits < MaxEdits /\ edits' = edits + 1 /\ editing' = Editor!NoEdit
        /\ UNCHANGED <<section, storedHosts, hostOthers, listedHosts, hostsFetch, isAdding,
                       save, testingKeys, latest, overtaken>>
    BY <1>8 DEF Editor!handleSaveEdit, Editor!MayBecome, Editor!Edit
  <2>2. i \in DOMAIN fileHosts  BY <1>i, <2>1
  <2>3. n \in Names  BY <2>1 DEF Editor!AllNames
  <2>4. row \in Editor!Rows /\ row.name = n
    <3>1. fileHosts[i] \in Editor!Rows  BY <1>s, <2>2
    <3> QED  BY <2>3, <3>1 DEF Editor!Rows
  <2>5. /\ DOMAIN fileHosts' = DOMAIN fileHosts /\ fileHosts'[i] = row
        /\ \A j \in DOMAIN fileHosts : j # i => fileHosts'[j] = fileHosts[j]
    BY <1>s, <2>1, <2>2
  <2> HIDE DEF row, i
  <2>6. fileHosts' = [fileHosts EXCEPT ![i] = fileHosts'[i]]
    <3>1. fileHosts' = [j \in DOMAIN fileHosts |-> fileHosts'[j]]
      BY <2>1, <2>5 DEF i
    <3>2. \A j \in DOMAIN fileHosts :
             fileHosts'[j] = [fileHosts EXCEPT ![i] = fileHosts'[i]][j]
      BY <1>s, <2>2, <2>5
    <3> QED  BY <1>s, <3>1, <3>2
  <2>7. fileHosts' \in Seq(Editor!Rows) /\ Len(fileHosts') = Len(fileHosts)
    BY <1>s, <2>2, <2>4, <2>5, <2>6
  <2>8. fileHosts' \in Editor!Lists(Editor!Rows)  BY <1>s, <2>7, ListOf
  <2>9. Editor!Distinct(fileHosts')  BY <1>d, <2>1, <2>2, <2>4, <2>5 DEF Editor!Distinct, i
  <2>10. edits' \in 0 .. MaxEdits  BY <1>y, <2>1, HostsAssumption
  <2>11. HostsTyped'  BY <1>y, <1>e, <1>T, <2>1, <2>8, <2>10
  <2>12. Editor!DoneChangesTheRow'
    BY <1>e, <2>1, <2>8, <2>9, DoneStays DEF Editor!Distinct
  <2> QED  BY <1>S, <1>K, <2>1, <2>11, <2>12
<1>9. ASSUME NEW n \in Editor!AllNames, NEW v \in Typed, Editor!handleAddHost(n, v)
      PROVE  EditorIInv'
  <2> DEFINE row == [name |-> n, value |-> v, was |-> Editor!None]
  <2>1. /\ Len(fileHosts) < MaxRows /\ n \notin EnvNames
        /\ \A j \in DOMAIN fileHosts : j # 0 => fileHosts[j].name # n
        /\ fileHosts' = Append(fileHosts, row)
        /\ edits < MaxEdits /\ edits' = edits + 1 /\ isAdding' = FALSE
        /\ UNCHANGED <<section, storedHosts, hostOthers, listedHosts, hostsFetch, editing,
                       save, testingKeys, latest, overtaken>>
    BY <1>9 DEF Editor!handleAddHost, Editor!MayBecome, Editor!Edit
  <2>2. n \in Names  BY <2>1 DEF Editor!AllNames
  <2>3. row \in Editor!Rows /\ row.name = n
    BY <2>2, HostsAssumption DEF Editor!Rows, Editor!Shown
  <2> HIDE DEF row
  <2>4. /\ fileHosts' \in Seq(Editor!Rows) /\ Len(fileHosts') = Len(fileHosts) + 1
        /\ \A j \in 1 .. Len(fileHosts) : fileHosts'[j] = fileHosts[j]
        /\ fileHosts'[Len(fileHosts) + 1] = row
    BY <1>s, <2>1, <2>3
  <2>5. fileHosts' \in Editor!Lists(Editor!Rows)
    <3>1. Len(fileHosts') \in 0 .. MaxRows  BY <1>s, <2>1, <2>4
    <3> QED  BY <2>4, <3>1, ListOf
  <2>6. DOMAIN fileHosts = 1 .. Len(fileHosts) /\ DOMAIN fileHosts' = 1 .. Len(fileHosts) + 1
    BY <1>s, <2>4
  <2>7. Editor!Distinct(fileHosts')
    <3> SUFFICES ASSUME NEW j \in DOMAIN fileHosts', NEW k \in DOMAIN fileHosts',
                        fileHosts'[j].name = fileHosts'[k].name, j # k
                 PROVE  FALSE
      BY DEF Editor!Distinct
    <3>1. CASE j \in 1 .. Len(fileHosts) /\ k \in 1 .. Len(fileHosts)
      BY <1>d, <2>4, <2>6, <3>1 DEF Editor!Distinct
    <3>2. ASSUME NEW m \in 1 .. Len(fileHosts) PROVE fileHosts[m].name # n
      BY <1>s, <2>1, <2>6
    <3> QED  BY <1>s, <2>3, <2>4, <2>6, <3>1, <3>2
  <2>8. edits' \in 0 .. MaxEdits  BY <1>y, <2>1, HostsAssumption
  <2>9. HostsTyped'  BY <1>y, <1>T, <2>1, <2>5, <2>8
  <2>10. editing'.index # 0 => editing'.index \in DOMAIN fileHosts'
                               /\ fileHosts'[editing'.index].was = editing'.was
    BY <1>s, <1>i, <2>1, <2>4, <2>6
  <2>11. Editor!DoneChangesTheRow'  BY <2>5, <2>7, <2>10, DoneStays DEF Editor!Distinct
  <2> QED  BY <1>S, <1>K, <2>1, <2>9, <2>11
<1>10. CASE Editor!handleSave
  <2>1. /\ save' = [pc |-> "asking", hosts |-> fileHosts]
        /\ UNCHANGED <<section, storedHosts, hostOthers, listedHosts, hostsFetch, fileHosts,
                       edits,
                       editing, isAdding, testingKeys, latest, overtaken>>
    BY <1>10 DEF Editor!handleSave
  <2>2. save' \in Saves  BY <1>y, <2>1 DEF Saves
  <2>3. HostsTyped'  BY <1>y, <1>T, <2>1, <2>2
  <2> QED  BY <1>D, <1>S, <1>K, <2>1, <2>3
<1>11. CASE Editor!ServerUpdates
  <2> DEFINE hosts == save.hosts
             saved(j) == [name |-> hosts[j].name, value |-> Editor!Token(hosts[j])]
  <2>1. /\ Editor!Accepted(hosts) /\ storedHosts' = [j \in DOMAIN hosts |-> saved(j)]
        /\ \E answer \in {"done", "error"} : save' = [save EXCEPT !.pc = answer]
        /\ UNCHANGED <<section, hostOthers, listedHosts, hostsFetch, fileHosts, edits, editing,
                       isAdding, testingKeys, latest, overtaken>>
    BY <1>11 DEF Editor!ServerUpdates
  <2>2. hosts \in Editor!Lists(Editor!Rows)  BY <1>y DEF Saves
  <2>3. hosts \in Seq(Editor!Rows) /\ Len(hosts) \in 0 .. MaxRows  BY <2>2, ListOf
  <2>4. ASSUME NEW j \in DOMAIN hosts
        PROVE  saved(j) \in StoredHost /\ saved(j).name = hosts[j].name
    <3>1. hosts[j] \in Editor!Rows  BY <2>3
    <3>2. Editor!Token(hosts[j]) \in Values
      <4>1. CASE hosts[j].value = Editor!Masked
        <5>1. Editor!Kept(hosts[j]) # {}
          BY <2>1, <4>1 DEF Editor!Accepted, Editor!Members
        <5>2. Editor!Token(hosts[j]) \in Editor!Kept(hosts[j])
          BY <4>1, <5>1 DEF Editor!Token
        <5>3. storedHosts \in Seq(StoredHost)  BY <1>y, ListOf
        <5>4. ASSUME NEW s \in Editor!Members(storedHosts) PROVE s.value \in Values
          <6>1. PICK m \in DOMAIN storedHosts : s = storedHosts[m]  BY DEF Editor!Members
          <6>2. s \in StoredHost  BY <5>3, <6>1
          <6> QED  BY <6>2 DEF StoredHost
        <5> QED  BY <5>2, <5>4 DEF Editor!Kept
      <4>2. CASE hosts[j].value # Editor!Masked
        BY <3>1, <4>2 DEF Editor!Token, Editor!Rows, Editor!Shown
      <4> QED  BY <4>1, <4>2
    <3> QED  BY <3>1, <3>2 DEF StoredHost, Editor!Rows
  <2> HIDE DEF saved
  <2>5. storedHosts' \in Seq(StoredHost) /\ Len(storedHosts') = Len(hosts)
    <3>1. storedHosts' \in [1 .. Len(hosts) -> StoredHost]  BY <2>1, <2>3, <2>4
    <3> QED  BY <2>3, <3>1
  <2>6. storedHosts' \in Editor!Lists(StoredHost)  BY <2>3, <2>5, ListOf
  <2>7. Editor!Distinct(storedHosts')
    BY <2>1, <2>3, <2>4 DEF Editor!Accepted, Editor!Distinct
  <2>8. save' \in Saves  BY <1>y, <2>1 DEF Saves
  <2>9. HostsTyped'  BY <1>y, <1>T, <2>1, <2>6, <2>8
  <2>10. Editor!Distinct(storedHosts)' /\ Editor!Distinct(hostsFetch.hosts)'
    BY <2>1, <2>7 DEF EditorIInv, Editor!Distinct
  <2> QED  BY <1>D, <1>S, <2>1, <2>9, <2>10 DEF EditorIInv
<1>12. CASE Editor!ServerRefuses \/ Editor!SaveEnds
  <2>1. UNCHANGED <<section, storedHosts, hostOthers, listedHosts, fileHosts, edits, editing,
                    isAdding, testingKeys, latest, overtaken>>
    BY <1>12 DEF Editor!ServerRefuses, Editor!SaveEnds
  <2>2. save' \in Saves
    <3>1. [save EXCEPT !.pc = "error"] \in Saves  BY <1>y DEF Saves
    <3> QED  BY <1>12, <1>f, <3>1 DEF Editor!ServerRefuses, Editor!SaveEnds
  <2>3. hostsFetch' \in {hostsFetch, [pc |-> "asking", hosts |-> << >>]}
    BY <1>12, <1>f DEF Editor!ServerRefuses, Editor!SaveEnds
  <2>4. /\ hostsFetch' \in Fetches
        /\ hostsFetch'.hosts = hostsFetch.hosts \/ hostsFetch'.hosts = << >>
    BY <1>y, <1>f, <2>3
  <2>5. HostsTyped'  BY <1>y, <1>T, <2>1, <2>2, <2>4
  <2> QED  BY <1>D, <1>S, <1>K, <2>1, <2>4, <2>5
<1>13. CASE Editor!TestEnds \/ \E k \in Editor!AllNames : Editor!handleTest(k)
  <2>1. UNCHANGED <<section, storedHosts, hostOthers, listedHosts, hostsFetch, fileHosts, edits,
                    editing, isAdding, save>>
    BY <1>13 DEF Editor!TestEnds, Editor!handleTest
  <2>2. /\ testingKeys' \subseteq Editor!AllNames
        /\ latest' \in Editor!AllNames \cup {Editor!None}
        /\ overtaken' \subseteq testingKeys'
        /\ Editor!SpinnersAreTests'
    BY <1>13, <1>y, <1>d DEF Editor!TestEnds, Editor!handleTest, Editor!SpinnersAreTests
  <2>3. HostsTyped'  BY <1>y, <1>T, <2>1, <2>2
  <2> QED  BY <1>D, <1>K, <2>1, <2>2, <2>3
<1>14. CASE UNCHANGED hostsVars
  <2>1. UNCHANGED <<section, storedHosts, hostOthers, listedHosts, hostsFetch, fileHosts, edits,
                    editing, isAdding, save, testingKeys, latest, overtaken>>
    BY <1>14 DEF hostsVars
  <2>2. HostsTyped'  BY <1>y, <1>T, <2>1
  <2> QED  BY <1>D, <1>S, <1>K, <2>1, <2>2
<1> QED
  BY <1>1, <1>2, <1>3, <1>4, <1>5, <1>6, <1>7, <1>8, <1>9, <1>10, <1>11, <1>12, <1>13, <1>14
  DEF Editor!HostsNext

\* Done changes the row that Edit was pressed on, no two rows have one name,
\* and a host whose test goes on spinning is tested or was overtaken
\* (docker-hosts-section.tsx, coolify-hosts-section.tsx).
THEOREM EditsAreOfTheirRow ==
  Spec => [](Editor!DoneChangesTheRow /\ Editor!SpinnersAreTests)
<1>1. Init => EditorIInv  BY EditorStarts
<1>2. EditorIInv /\ [Next]_vars => EditorIInv'  BY EditorIsKept
<1>3. EditorIInv => Editor!DoneChangesTheRow /\ Editor!SpinnersAreTests  BY DEF EditorIInv
<1> QED  BY <1>1, <1>2, <1>3, PTL DEF Spec

\* What the server makes of a masked token is the token it has under the
\* name the row was loaded with, unless hosts trade names.
LEMMA MaskIsKept ==
  EditorIInv /\ [Next]_vars =>
    [\A i \in DOMAIN save.hosts :
        LET row == save.hosts[i] IN
        save'.pc = "done" /\ save.pc = "asking" /\ row.value = Editor!Masked
            /\ ~Editor!Trades(save.hosts)
        => \E s \in Editor!Members(storedHosts) :
              s.name = row.was /\ storedHosts'[i].value = s.value]_hostsVars
<1> SUFFICES ASSUME EditorIInv, [Next]_vars, ~UNCHANGED hostsVars,
                    NEW i \in DOMAIN save.hosts, save'.pc = "done", save.pc = "asking",
                    save.hosts[i].value = Editor!Masked, ~Editor!Trades(save.hosts)
             PROVE  \E s \in Editor!Members(storedHosts) :
                       s.name = save.hosts[i].was /\ storedHosts'[i].value = s.value
  OBVIOUS
<1>1. Editor!HostsNext  BY EditorRun
<1>2. Editor!ServerUpdates
  <2>1. save' # save  OBVIOUS
  <2>2. save' # [pc |-> "asking", hosts |-> fileHosts]  OBVIOUS
  <2>3. save' # [save EXCEPT !.pc = "error"]
    BY DEF EditorIInv, HostsTyped
  <2>4. ~Editor!SaveEnds  BY DEF Editor!SaveEnds
  <2> QED
    BY <1>1, <2>1, <2>2, <2>3, <2>4
    DEF Editor!HostsNext, Editor!Refetch, Editor!FetchAnswers, Editor!FetchArrives,
        Editor!OtherSaves, Editor!handleCancelEdit, Editor!OpenOrCloseForm,
        Editor!handleRemove, Editor!handleStartEdit, Editor!handleSaveEdit,
        Editor!handleAddHost, Editor!handleSave, Editor!ServerRefuses, Editor!handleTest,
        Editor!TestEnds
<1>3. /\ Editor!Accepted(save.hosts)
      /\ storedHosts'[i].value = Editor!Token(save.hosts[i])
  BY <1>2 DEF Editor!ServerUpdates
<1>4. save.hosts[i] \in Editor!Members(save.hosts)  BY DEF Editor!Members
<1>5. Editor!Kept(save.hosts[i]) # {}  BY <1>3, <1>4 DEF Editor!Accepted
<1>6. Editor!Token(save.hosts[i]) \in Editor!Kept(save.hosts[i])  BY <1>5 DEF Editor!Token
<1>7. PICK s \in Editor!Members(storedHosts) :
         s.name = save.hosts[i].name /\ Editor!Token(save.hosts[i]) = s.value
  BY <1>6 DEF Editor!Kept
<1>8. save.hosts[i].was = save.hosts[i].name  BY <1>4, <1>7 DEF Editor!Trades
<1> QED  BY <1>3, <1>7, <1>8

\* A token that is left masked is kept when the hosts are saved, unless hosts
\* trade names on the way (docker-hosts-section.tsx handleSave,
\* settings_handlers.go UpdateDockerHosts).
THEOREM MaskedIsKeptOnSave == Spec => Editor!MaskedIsKept
<1>1. Init => EditorIInv  BY EditorStarts
<1>2. EditorIInv /\ [Next]_vars => EditorIInv'  BY EditorIsKept
<1>3. EditorIInv /\ [Next]_vars =>
        [\A i \in DOMAIN save.hosts :
            LET row == save.hosts[i] IN
            save'.pc = "done" /\ save.pc = "asking" /\ row.value = Editor!Masked
                /\ ~Editor!Trades(save.hosts)
            => \E s \in Editor!Members(storedHosts) :
                  s.name = row.was /\ storedHosts'[i].value = s.value]_Editor!hostsVars
  BY MaskIsKept DEF hostsVars, Editor!hostsVars
<1> QED  BY <1>1, <1>2, <1>3, PTL DEF Spec, Editor!MaskedIsKept

-----------------------------------------------------------------------------
(* SettingsForms.                                                          *)

\* What a draft d and what is configured, s, have in common when the form
\* shows the server: all but the password, which is not shown, and which
\* token it is.
Agrees(d, s) ==
    /\ d.on = s.on /\ d.value = s.value
    /\ (d.token = Forms!None) <=> (s.token = Forms!None)

\* Forms without a password.
Plainly(x) == form \in {"bot", "scanner"} => x.password = FALSE

\* The query knows the server, unless a save was not yet told of; a draft that
\* was not typed into is the answer's, or will be when the query has told of
\* another; and a save goes on with what was sent, whatever arrives meanwhile.
FormsIInv ==
    /\ Forms!FormsTypeOK
    /\ Forms!SecretsAreKept
    /\ Plainly(configured) /\ Plainly(config) /\ Plainly(draft) /\ Plainly(request.sent)
    /\ fetch.pc = "answered" => Plainly(fetch.answer)
    /\ others = 0 =>
          /\ request.pc # "saved" =>
                /\ fetch.pc = "idle" => config = Forms!View(configured)
                /\ fetch.pc = "answered" => fetch.answer = Forms!View(configured)
          /\ request.pc = "saved" => Agrees(request.sent, configured)
          /\ form = "scanner" /\ request.pc = "testing" /\ request.test = "changed" =>
                configured.value = request.sent.value
          /\ form \in {"bot", "scanner"} =>
                /\ request.pc \in {"idle", "testing"} /\ ~typed =>
                      Agrees(draft, configured) \/ config # Forms!View(configured)
                /\ request.pc \in {"saving", "saved"} =>
                      draft = request.sent \/ draft = Forms!Loaded(config)

\* The pages run the forms by their own steps.
LEMMA FormsRun == [Next]_vars => [Forms!FormsNext]_formsVars
<1>1. CASE Next
  BY <1>1 DEF Next
<1>2. CASE UNCHANGED vars
  BY <1>2 DEF vars
<1> QED  BY <1>1, <1>2

\* What the server tells of its settings, and what a form makes of that.
LEMMA FormViews ==
  ASSUME NEW s \in Forms!Drafts
  PROVE  /\ Forms!View(s) \in Forms!Drafts /\ Forms!Loaded(s) \in Forms!Drafts
         /\ Forms!View(s).password = s.password /\ Forms!View(s).on = s.on
         /\ Forms!Loaded(s).password = FALSE
         /\ Agrees(Forms!View(s), s) /\ Agrees(Forms!Loaded(s), s)
<1>1. Forms!Masked # Forms!None  BY DEF Forms!Masked, Forms!None
<1>2. [s EXCEPT !.token = Forms!Masked] \in Forms!Drafts  BY DEF Forms!Drafts
<1>3. [s EXCEPT !.password = FALSE] \in Forms!Drafts  BY DEF Forms!Drafts
<1>4. CASE s.token = Forms!None
  BY <1>2, <1>3, <1>4 DEF Forms!View, Forms!Loaded, Agrees, Forms!Drafts
<1>5. CASE s.token # Forms!None
  BY <1>1, <1>2, <1>3, <1>5 DEF Forms!View, Forms!Loaded, Agrees, Forms!Drafts
<1> QED  BY <1>4, <1>5

\* A draft that agrees with the server shows it.
LEMMA AgreeingShows ==
  ASSUME NEW d \in Forms!Drafts, NEW s \in Forms!Drafts, Agrees(d, s), d.password = FALSE
  PROVE  Forms!View(d) = Forms!Loaded(Forms!View(s))
<1>1. Forms!View(d) \in Forms!Drafts /\ Forms!Loaded(Forms!View(s)) \in Forms!Drafts
  BY FormViews
<1>2. /\ Forms!View(d).on = d.on /\ Forms!View(d).password = FALSE
      /\ Forms!View(d).value = d.value
      /\ Forms!View(d).token = IF d.token = Forms!None THEN Forms!None ELSE Forms!Masked
  BY DEF Forms!View, Forms!Drafts
<1>3. LET l == Forms!Loaded(Forms!View(s)) IN
      /\ l.on = s.on /\ l.password = FALSE /\ l.value = s.value
      /\ l.token = IF s.token = Forms!None THEN Forms!None ELSE Forms!Masked
  BY DEF Forms!View, Forms!Loaded, Forms!Drafts
<1> HIDE DEF Agrees
<1> QED  BY <1>1, <1>2, <1>3 DEF Agrees, Forms!Drafts

\* What a save makes of the settings agrees with what was sent.
LEMMA SavedAgrees ==
  ASSUME NEW s \in Forms!Drafts, NEW d \in Forms!Drafts, Forms!Valid(s, d),
         s.token # Forms!Masked
  PROVE  /\ Forms!Saved(s, d) \in Forms!Drafts
         /\ Forms!Saved(s, d).token # Forms!Masked
         /\ Forms!Saved(s, d).value = d.value
         /\ s.password = FALSE /\ d.password = FALSE => Forms!Saved(s, d).password = FALSE
         /\ Agrees(d, Forms!Saved(s, d))
         /\ form = "auth" /\ Forms!Saved(s, d).on => Forms!Saved(s, d).password
<1>1. Forms!Masked # Forms!None  BY DEF Forms!Masked, Forms!None
<1> QED  BY <1>1 DEF Forms!Saved, Forms!Valid, Agrees, Forms!Drafts

\* What is changed in a draft leaves it one.
LEMMA ChangesAreDrafts ==
  ASSUME NEW d \in Forms!Drafts, form \in {"readOnly", "auth", "bot", "scanner"}
  PROVE  \A c \in Forms!Changes(d) :
            /\ c \in Forms!Drafts
            /\ form \in {"bot", "scanner"} => c.password = d.password
<1>1. CASE form = "readOnly"
  BY <1>1 DEF Forms!Changes, Forms!Switched, Forms!Drafts
<1>2. CASE form = "auth"
  BY <1>2 DEF Forms!Changes, Forms!Authenticated, Forms!Drafts
<1>3. CASE form = "bot"
  BY <1>3 DEF Forms!Changes, Forms!BotChanged, Forms!Drafts
<1>4. CASE form = "scanner"
  BY <1>4 DEF Forms!Changes, Forms!ScannerChanged, Forms!Drafts
<1> QED  BY <1>1, <1>2, <1>3, <1>4

\* The forms start with what the server has.
LEMMA FormsStart == Init => FormsIInv
<1> SUFFICES ASSUME Forms!FormsInit PROVE FormsIInv
  BY DEF Init
<1>1. /\ form \in {"readOnly", "auth", "bot", "scanner"}
      /\ configured \in Forms!Drafts /\ configured.on = FALSE
      /\ configured.token # Forms!Masked
      /\ form \in {"bot", "scanner"} => configured.password = FALSE
  BY TokensAssumption DEF Forms!FormsInit, Forms!Drafts, Forms!Masked, Forms!None
<1>2. /\ config = Forms!View(configured) /\ draft = Forms!Loaded(config)
      /\ fetch = [pc |-> "idle", answer |-> config]
      /\ request = [pc |-> "idle", sent |-> draft, test |-> "none"]
      /\ typed = FALSE /\ others = 0 /\ saves = 0
  BY DEF Forms!FormsInit, Forms!Idle
<1>3. config \in Forms!Drafts /\ draft \in Forms!Drafts /\ config.password = configured.password
      /\ draft.password = FALSE
  BY <1>1, <1>2, FormViews
<1>4. Forms!FormsTypeOK
  <2>1. fetch \in [pc : {"idle", "asking", "answered"}, answer : Forms!Drafts]
    BY <1>2, <1>3
  <2>2. request \in [pc : {"idle", "saving", "saved", "failed", "testing"}, sent : Forms!Drafts,
                     test : {"none", "changed", "unchanged"}]
    BY <1>2, <1>3
  <2>3. others \in 0 .. MaxOthers /\ saves \in 0 .. MaxSaves  BY <1>2, BoundsAssumption
  <2> QED  BY <1>1, <1>2, <1>3, <2>1, <2>2, <2>3 DEF Forms!FormsTypeOK
<1>5. Agrees(draft, configured)
  <2>1. Agrees(config, configured) /\ Agrees(draft, config)  BY <1>1, <1>2, <1>3, FormViews
  <2> QED  BY <2>1 DEF Agrees
<1>6. Forms!SecretsAreKept  BY <1>1 DEF Forms!SecretsAreKept
<1> QED  BY <1>1, <1>2, <1>3, <1>4, <1>5, <1>6 DEF FormsIInv, Plainly

\* Every action of the forms keeps the invariant.
LEMMA FormsAreKept == FormsIInv /\ [Next]_vars => FormsIInv'
<1> SUFFICES ASSUME FormsIInv, [Forms!FormsNext]_formsVars PROVE FormsIInv'
  BY FormsRun
<1> DEFINE Fetches == [pc : {"idle", "asking", "answered"}, answer : Forms!Drafts]
           Requests == [pc : {"idle", "saving", "saved", "failed", "testing"},
                        sent : Forms!Drafts, test : {"none", "changed", "unchanged"}]
<1>t. /\ form \in {"readOnly", "auth", "bot", "scanner"}
      /\ configured \in Forms!Drafts /\ config \in Forms!Drafts /\ draft \in Forms!Drafts
      /\ others \in 0 .. MaxOthers /\ saves \in 0 .. MaxSaves
      /\ fetch \in Fetches /\ request \in Requests /\ typed \in BOOLEAN
      /\ MaxOthers \in Nat /\ MaxSaves \in Nat
  BY BoundsAssumption DEF FormsIInv, Forms!FormsTypeOK
<1>s. configured.token # Forms!Masked  BY DEF FormsIInv, Forms!SecretsAreKept
<1>a. /\ fetch.pc \in {"idle", "asking", "answered"} /\ fetch.answer \in Forms!Drafts
      /\ request.pc \in {"idle", "saving", "saved", "failed", "testing"}
      /\ request.sent \in Forms!Drafts /\ request.test \in {"none", "changed", "unchanged"}
  BY <1>t
<1>f. \A p \in {"idle", "asking", "answered"} :
         /\ \A d \in Forms!Drafts : [pc |-> p, answer |-> d] \in Fetches
         /\ [fetch EXCEPT !.pc = p] \in Fetches
         /\ [fetch EXCEPT !.pc = p].pc = p /\ [fetch EXCEPT !.pc = p].answer = fetch.answer
  BY <1>t
<1>r. \A p \in {"idle", "saving", "saved", "failed", "testing"} :
         /\ [request EXCEPT !.pc = p] \in Requests
         /\ LET q == [request EXCEPT !.pc = p] IN
            q.pc = p /\ q.sent = request.sent /\ q.test = request.test
  BY <1>t
<1>n. \A p \in {"idle", "saving", "saved", "failed", "testing"} :
      \A d \in Forms!Drafts : \A c \in {"none", "changed", "unchanged"} :
         [pc |-> p, sent |-> d, test |-> c] \in Requests
  OBVIOUS
<1>v. /\ Forms!View(configured) \in Forms!Drafts
      /\ Plainly(configured) => Plainly(Forms!View(configured))
  BY <1>t, FormViews DEF Plainly
<1>T. ASSUME form' = form, configured' \in Forms!Drafts, config' \in Forms!Drafts,
             draft' \in Forms!Drafts, others' \in 0 .. MaxOthers, saves' \in 0 .. MaxSaves,
             fetch' \in Fetches, request' \in Requests, typed' \in BOOLEAN
      PROVE  Forms!FormsTypeOK'
  BY <1>t, <1>T DEF Forms!FormsTypeOK
<1> HIDE DEF Fetches, Requests
<1>1. CASE Forms!OtherSaves
  <2>1. PICK d \in Forms!Changes(Forms!View(configured)) :
             Forms!Valid(configured, d) /\ configured' = Forms!Saved(configured, d)
    BY <1>1 DEF Forms!OtherSaves
  <2>2. /\ others' = others + 1 /\ others < MaxOthers
        /\ UNCHANGED <<form, saves, config, fetch, draft, request, typed>>
    BY <1>1 DEF Forms!OtherSaves
  <2>3. d \in Forms!Drafts /\ (Plainly(configured) => Plainly(d))
    BY <1>t, <1>v, ChangesAreDrafts DEF Plainly
  <2>4. /\ configured' \in Forms!Drafts /\ configured'.token # Forms!Masked
        /\ Plainly(configured) => Plainly(configured)'
        /\ form = "auth" /\ configured'.on => configured'.password
    BY <1>t, <1>s, <2>1, <2>2, <2>3, SavedAgrees DEF Plainly
  <2>5. others' \in 0 .. MaxOthers /\ others' # 0  BY <1>t, <2>2
  <2>6. Forms!FormsTypeOK'  BY <1>t, <1>T, <2>2, <2>4, <2>5
  <2>7. Forms!SecretsAreKept'  BY <2>2, <2>4 DEF Forms!SecretsAreKept
  <2> QED  BY <2>2, <2>4, <2>5, <2>6, <2>7 DEF FormsIInv, Plainly
<1>2. CASE Forms!Refetch
  <2>1. /\ fetch' = [fetch EXCEPT !.pc = "asking"]
        /\ UNCHANGED <<form, configured, others, saves, config, draft, request, typed>>
    BY <1>2 DEF Forms!Refetch
  <2>2. fetch' \in Fetches /\ fetch'.pc = "asking"  BY <1>f, <2>1
  <2>3. Forms!FormsTypeOK'  BY <1>t, <1>T, <2>1, <2>2
  <2> QED  BY <2>1, <2>2, <2>3 DEF FormsIInv, Plainly, Agrees, Forms!SecretsAreKept
<1>3. CASE Forms!FetchAnswers
  <2>1. /\ fetch' = [pc |-> "answered", answer |-> Forms!View(configured)]
        /\ UNCHANGED <<form, configured, others, saves, config, draft, request, typed>>
    BY <1>3 DEF Forms!FetchAnswers
  <2>2. /\ fetch' \in Fetches /\ fetch'.pc = "answered"
        /\ fetch'.answer = Forms!View(configured) /\ Plainly(fetch.answer)'
    BY <1>f, <1>v, <2>1 DEF FormsIInv, Plainly
  <2>3. Forms!FormsTypeOK'  BY <1>t, <1>T, <2>1, <2>2
  <2>4. Forms!View(configured)' = Forms!View(configured)  BY <2>1
  <2> QED  BY <2>1, <2>2, <2>3, <2>4 DEF FormsIInv, Plainly, Agrees, Forms!SecretsAreKept
<1>4. CASE Forms!FetchArrives
  <2>1. /\ fetch.pc = "answered" /\ config' = fetch.answer
        /\ fetch' = [pc |-> "idle", answer |-> fetch.answer]
        /\ UNCHANGED <<form, configured, others, saves, request>>
        /\ IF form \in {"bot", "scanner"} /\ fetch.answer # config
           THEN draft' = Forms!Loaded(fetch.answer) /\ typed' = FALSE
           ELSE UNCHANGED <<draft, typed>>
    BY <1>4 DEF Forms!FetchArrives, Forms!FollowConfig
  <2>2. /\ fetch' \in Fetches /\ fetch'.pc = "idle"  BY <1>a, <1>f, <2>1
  <2>3. /\ Forms!Loaded(fetch.answer) \in Forms!Drafts
        /\ Plainly(Forms!Loaded(fetch.answer)) /\ Plainly(fetch.answer)
    BY <1>a, <2>1, FormViews DEF Plainly, FormsIInv
  <2>4. draft' \in Forms!Drafts /\ typed' \in BOOLEAN /\ Plainly(draft)' /\ Plainly(config)'
    BY <1>t, <2>1, <2>3 DEF FormsIInv, Plainly
  <2>5. Forms!FormsTypeOK'  BY <1>t, <1>a, <1>T, <2>1, <2>2, <2>4
  <2>6. Forms!View(configured)' = Forms!View(configured)  BY <2>1
  <2>7. Agrees(Forms!Loaded(Forms!View(configured)), configured)
    BY <1>t, <1>v, FormViews DEF Agrees
  <2>8. others = 0 /\ request.pc # "saved" => config' = Forms!View(configured)
    BY <2>1 DEF FormsIInv
  <2>9. others = 0 /\ form \in {"bot", "scanner"} /\ request.pc \in {"idle", "testing"}
          /\ ~typed' => Agrees(draft, configured)'
    BY <2>1, <2>7, <2>8 DEF FormsIInv, Agrees
  <2>10. others = 0 /\ form \in {"bot", "scanner"} /\ request.pc \in {"saving", "saved"} =>
           draft' = request.sent \/ draft' = Forms!Loaded(config')
    BY <2>1 DEF FormsIInv
  <2>11. Forms!Loaded(config)' = Forms!Loaded(config')  OBVIOUS
  <2> QED
    BY <2>1, <2>2, <2>4, <2>5, <2>6, <2>8, <2>9, <2>10, <2>11
    DEF FormsIInv, Plainly, Agrees, Forms!SecretsAreKept
<1>5. CASE Forms!Type
  <2>1. /\ draft' \in Forms!Changes(draft) /\ typed' = TRUE
        /\ form # "auth" => request.pc = "idle"
        /\ UNCHANGED <<form, configured, others, saves, config, fetch, request>>
    BY <1>5 DEF Forms!Type, Forms!pending
  <2>2. draft' \in Forms!Drafts /\ Plainly(draft)'
    BY <1>t, <2>1, ChangesAreDrafts DEF FormsIInv, Plainly
  <2>3. Forms!FormsTypeOK'  BY <1>t, <1>T, <2>1, <2>2
  <2>4. Forms!View(configured)' = Forms!View(configured)  BY <2>1
  <2> QED  BY <2>1, <2>2, <2>3, <2>4 DEF FormsIInv, Plainly, Agrees, Forms!SecretsAreKept
<1>6. ASSUME NEW d \in Forms!Drafts, NEW c \in {"none", "changed"}, Forms!Send(d, c),
             request.pc = "idle", draft' = d, Plainly(d)
      PROVE  FormsIInv'
  <2>1. /\ saves' \in 0 .. MaxSaves /\ typed' = FALSE
        /\ request' = [pc |-> "saving", sent |-> d, test |-> c]
        /\ UNCHANGED <<form, configured, others, config, fetch>>
    BY <1>6, <1>t DEF Forms!Send
  <2>2. request' \in Requests /\ request'.pc = "saving" /\ request'.sent = d
    BY <1>n, <2>1
  <2>3. Forms!FormsTypeOK'  BY <1>t, <1>6, <1>T, <2>1, <2>2
  <2>4. Forms!View(configured)' = Forms!View(configured)  BY <2>1
  <2> QED
    BY <1>6, <2>1, <2>2, <2>3, <2>4 DEF FormsIInv, Plainly, Agrees, Forms!SecretsAreKept
<1>7. CASE Forms!handleSave
  <2>1. /\ Forms!Send(draft, "none") /\ draft' = draft /\ request.pc = "idle"
    BY <1>7 DEF Forms!handleSave, Forms!pending
  <2> QED  BY <1>6, <1>t, <2>1 DEF FormsIInv
<1>8. CASE Forms!handleToggle
  <2>1. PICK d : d = [config EXCEPT !.on = ~config.on]  OBVIOUS
  <2>2. d \in Forms!Drafts /\ d.password = config.password  BY <1>t, <2>1 DEF Forms!Drafts
  <2>3. /\ Forms!Send(d, "none") /\ draft' = request'.sent /\ request.pc = "idle"
    BY <1>8, <2>1 DEF Forms!handleToggle, Forms!pending
  <2>4. draft' = d  BY <2>3 DEF Forms!Send
  <2>5. Plainly(d)  BY <2>2 DEF FormsIInv, Plainly
  <2> QED  BY <1>6, <2>2, <2>3, <2>4, <2>5
<1>9. ASSUME Forms!Test, request.pc = "idle", form = "scanner" => draft = Forms!Loaded(config)
      PROVE  FormsIInv'
  <2>1. PICK c \in {"changed", "unchanged"} :
           /\ request' = [pc |-> "testing", sent |-> draft, test |-> c]
           /\ c = "changed" => draft # Forms!Loaded(config)
    BY <1>9 DEF Forms!Test, Forms!hasChanges
  <2>2. UNCHANGED <<form, configured, others, saves, config, fetch, draft, typed>>
    BY <1>9 DEF Forms!Test
  <2>3. /\ request' \in Requests /\ request'.pc = "testing" /\ request'.sent = draft
        /\ form = "scanner" => request'.test # "changed"
    BY <1>9, <1>n, <1>t, <2>1
  <2>4. Forms!FormsTypeOK'  BY <1>t, <1>T, <2>2, <2>3
  <2>5. Forms!View(configured)' = Forms!View(configured)  BY <2>2
  <2> QED
    BY <1>9, <2>2, <2>3, <2>4, <2>5 DEF FormsIInv, Plainly, Agrees, Forms!SecretsAreKept
<1>10. CASE Forms!handleTest
  <2>1. CASE Forms!Send(draft, "changed") /\ draft' = draft
    <3>1. request.pc = "idle"  BY <1>10 DEF Forms!handleTest, Forms!pending
    <3> QED  BY <1>6, <1>t, <2>1, <3>1 DEF FormsIInv
  <2>2. CASE Forms!Test /\ ~Forms!hasChanges
    BY <1>9, <1>10, <2>2 DEF Forms!handleTest, Forms!pending, Forms!hasChanges
  <2> QED  BY <1>10, <2>1, <2>2 DEF Forms!handleTest
<1>11. CASE Forms!TestBot
  BY <1>9, <1>11 DEF Forms!TestBot, Forms!pending
<1>12. CASE Forms!ServerSaves
  <2>1. /\ request.pc = "saving" /\ Forms!Valid(configured, request.sent)
        /\ configured' = Forms!Saved(configured, request.sent)
        /\ UNCHANGED <<form, saves, config, fetch, draft, typed>>
    BY <1>12 DEF Forms!ServerSaves
  <2>2. /\ configured' \in Forms!Drafts /\ configured'.token # Forms!Masked
        /\ Plainly(configured)'
        /\ Agrees(request.sent, configured')
        /\ form = "auth" /\ configured'.on => configured'.password
    BY <1>a, <1>t, <1>s, <2>1, SavedAgrees DEF FormsIInv, Plainly
  <2>3. /\ request' \in Requests /\ request'.pc \in {"saved", "failed"}
        /\ request'.sent = request.sent
        /\ others' \in 0 .. MaxOthers
        /\ others' = 0 => others = 0 /\ request'.pc = "saved"
    <3>1. CASE request' = [request EXCEPT !.pc = "saved"] /\ others' = others
      BY <1>r, <1>t, <3>1
    <3>2. CASE /\ others < MaxOthers /\ others' = others + 1
               /\ request' = [request EXCEPT !.pc = "failed"]
      BY <1>r, <1>t, <3>2
    <3> QED  BY <1>12, <3>1, <3>2 DEF Forms!ServerSaves
  <2>4. Forms!FormsTypeOK'  BY <1>t, <1>T, <2>1, <2>2, <2>3
  <2>5. Agrees(request.sent, configured)'  BY <2>2, <2>3 DEF Agrees
  <2> QED
    BY <2>1, <2>2, <2>3, <2>4, <2>5 DEF FormsIInv, Plainly, Forms!SecretsAreKept
<1>13. CASE Forms!ServerRefuses
  <2>1. /\ request' = [request EXCEPT !.pc = "failed"] /\ request.pc = "saving"
        /\ UNCHANGED <<form, configured, others, saves, config, fetch, draft, typed>>
    BY <1>13 DEF Forms!ServerRefuses
  <2>2. request' \in Requests /\ request'.pc = "failed" /\ request'.sent = request.sent
    BY <1>r, <2>1
  <2>3. Forms!FormsTypeOK'  BY <1>t, <1>T, <2>1, <2>2
  <2>4. Forms!View(configured)' = Forms!View(configured)  BY <2>1
  <2> QED  BY <2>1, <2>2, <2>3, <2>4 DEF FormsIInv, Plainly, Agrees, Forms!SecretsAreKept
<1>14. CASE Forms!SaveEnds
  <2>1. /\ request.pc = "saved" /\ fetch' = [fetch EXCEPT !.pc = "asking"]
        /\ UNCHANGED <<form, configured, others, saves, config, typed>>
    BY <1>14 DEF Forms!SaveEnds
  <2>2. /\ form = "auth" => draft' = [draft EXCEPT !.password = FALSE]
        /\ form = "scanner" => draft' = request.sent
        /\ form \notin {"auth", "scanner"} => draft' = draft
    BY <1>14, <1>t DEF Forms!SaveEnds
  <2>3. [draft EXCEPT !.password = FALSE] \in Forms!Drafts  BY <1>t DEF Forms!Drafts
  <2>4. draft' \in Forms!Drafts /\ Plainly(draft)'
    BY <1>t, <1>a, <2>1, <2>2, <2>3 DEF FormsIInv, Plainly
  <2>5. fetch' \in Fetches /\ fetch'.pc = "asking"  BY <1>f, <2>1
  <2>6. /\ request' \in Requests /\ request'.sent = request.sent
        /\ request'.pc \in {"idle", "testing"}
    <3>1. CASE request' = [request EXCEPT !.pc = "testing"]  BY <1>r, <3>1
    <3>2. CASE request' = [pc |-> "idle", sent |-> request.sent, test |-> "none"]
      BY <1>a, <1>n, <3>2
    <3> QED  BY <1>14, <3>1, <3>2 DEF Forms!SaveEnds, Forms!Idle
  <2>7. Forms!FormsTypeOK'  BY <1>t, <1>T, <2>1, <2>4, <2>5, <2>6
  <2>8. others = 0 => Agrees(request.sent, configured)  BY <2>1 DEF FormsIInv
  <2>9. config \in Forms!Drafts /\ configured \in Forms!Drafts  BY <1>t
  <2>10. others = 0 /\ form \in {"bot", "scanner"}
           => Agrees(draft', configured) \/ config # Forms!View(configured)
    <3>1. Agrees(Forms!Loaded(Forms!View(configured)), configured)
      BY <1>t, <1>v, FormViews DEF Agrees
    <3> QED  BY <2>1, <2>2, <2>8, <3>1 DEF FormsIInv
  <2>11. Agrees(draft', configured) => Agrees(draft, configured)'  BY <2>1 DEF Agrees
  <2>12. others = 0 => configured.value = request.sent.value  BY <2>8 DEF Agrees
  <2>13. Forms!View(configured)' = Forms!View(configured)  BY <2>1
  <2> QED
    BY <2>1, <2>4, <2>5, <2>6, <2>7, <2>10, <2>11, <2>12, <2>13
    DEF FormsIInv, Plainly, Forms!SecretsAreKept
<1>15. CASE Forms!SaveFails
  <2>1. /\ request' = [pc |-> "idle", sent |-> request.sent, test |-> "none"]
        /\ typed' = TRUE /\ request.pc = "failed"
        /\ UNCHANGED <<form, configured, others, saves, config, fetch, draft>>
    BY <1>15 DEF Forms!SaveFails, Forms!Idle
  <2>2. request' \in Requests /\ request'.pc = "idle" /\ request'.sent = request.sent
    BY <1>a, <1>n, <2>1
  <2>3. Forms!FormsTypeOK'  BY <1>t, <1>T, <2>1, <2>2
  <2>4. Forms!View(configured)' = Forms!View(configured)  BY <2>1
  <2> QED  BY <2>1, <2>2, <2>3, <2>4 DEF FormsIInv, Plainly, Agrees, Forms!SecretsAreKept
<1>16. CASE Forms!TestEnds
  <2>1. /\ request' = [pc |-> "idle", sent |-> request.sent, test |-> "none"]
        /\ request.pc = "testing"
        /\ UNCHANGED <<form, configured, others, saves, config, fetch, draft, typed>>
    BY <1>16 DEF Forms!TestEnds, Forms!Idle
  <2>2. request' \in Requests /\ request'.pc = "idle" /\ request'.sent = request.sent
    BY <1>a, <1>n, <2>1
  <2>3. Forms!FormsTypeOK'  BY <1>t, <1>T, <2>1, <2>2
  <2>4. Forms!View(configured)' = Forms!View(configured)  BY <2>1
  <2> QED  BY <2>1, <2>2, <2>3, <2>4 DEF FormsIInv, Plainly, Agrees, Forms!SecretsAreKept
<1>17. CASE UNCHANGED formsVars
  <2>1. UNCHANGED <<form, configured, others, saves, config, fetch, draft, request, typed>>
    BY <1>17 DEF formsVars
  <2>2. Forms!FormsTypeOK'  BY <1>t, <1>T, <2>1
  <2>3. Forms!View(configured)' = Forms!View(configured)  BY <2>1
  <2> QED  BY <2>1, <2>2, <2>3 DEF FormsIInv, Plainly, Agrees, Forms!SecretsAreKept
<1> QED
  BY <1>1, <1>2, <1>3, <1>4, <1>5, <1>7, <1>8, <1>10, <1>11, <1>12, <1>13, <1>14, <1>15,
     <1>16, <1>17
  DEF Forms!FormsNext

\* A form that was not typed into shows what is configured when nothing is
\* under way and nobody else saves; the scanner is tested with what was
\* changed; and a token that is left masked stays a token, authentication
\* never without a password (use-settings.ts, the sections of the settings).
THEOREM FormsShowTheServer ==
  Spec => [](Forms!FormShowsTheServer /\ Forms!TestIsOfTheForm /\ Forms!SecretsAreKept)
<1>1. Init => FormsIInv  BY FormsStart
<1>2. FormsIInv /\ [Next]_vars => FormsIInv'  BY FormsAreKept
<1>3. FormsIInv => Forms!FormShowsTheServer /\ Forms!TestIsOfTheForm /\ Forms!SecretsAreKept
  <2> SUFFICES ASSUME FormsIInv PROVE Forms!FormShowsTheServer /\ Forms!TestIsOfTheForm
    BY DEF FormsIInv
  <2>1. config \in Forms!Drafts /\ draft \in Forms!Drafts /\ configured \in Forms!Drafts
    BY DEF FormsIInv, Forms!FormsTypeOK
  <2>2. Forms!View(configured).on = configured.on  BY <2>1, FormViews
  <2>3. form \in {"bot", "scanner"} => draft.password = FALSE  BY DEF FormsIInv, Plainly
  <2>4. form \in {"bot", "scanner"} /\ Agrees(draft, configured) =>
           Forms!View(draft) = Forms!Loaded(Forms!View(configured))
    BY <2>1, <2>3, AgreeingShows
  <2>5. Forms!FormShowsTheServer
    BY <2>2, <2>4
    DEF FormsIInv, Forms!FormShowsTheServer, Forms!Quiet, Forms!pending, Forms!checked
  <2>6. Forms!TestIsOfTheForm  BY DEF FormsIInv, Forms!TestIsOfTheForm
  <2> QED  BY <2>5, <2>6
<1> QED  BY <1>1, <1>2, <1>3, PTL DEF Spec

-----------------------------------------------------------------------------
(* The types of the pages of past SBOMs and of databases.                  *)

\* What a dialog has read was stored.
LEMMA ReadIsKept ==
  SbomPage!SbomHistoryTypeOK /\ [Next]_vars => (read \subseteq SbomPage!SBOMs)'
<1> SUFFICES ASSUME SbomPage!SbomHistoryTypeOK, [Next]_vars PROVE read' \subseteq SbomPage!SBOMs
  BY DEF SbomPage!SBOMs, SbomPage!Page!Scans
<1>0. read \subseteq SbomPage!SBOMs /\ sbomsStored \subseteq SbomPage!SBOMs
  BY DEF SbomPage!SbomHistoryTypeOK, SbomPage!Page!HistoryTypeOK, SbomPage!SBOMs
<1>1. CASE SbomPage!SbomHistoryNext
  <2>1. read' = read \/ (selectedSBOMId \in sbomsStored /\ read' = read \cup {selectedSBOMId})
    BY <1>1 DEF SbomPage!SbomHistoryNext, SbomPage!Generated, SbomPage!DetailsArrive
  <2> QED  BY <1>0, <2>1
<1>2. CASE UNCHANGED read  BY <1>0, <1>2
<1> QED  BY <1>1, <1>2, SbomHistoryRun DEF sbomHistoryVars

\* The page of past SBOMs keeps its types.
THEOREM SbomHistoryTypes == Spec => []SbomPage!SbomHistoryTypeOK
<1>1. Init => read \subseteq SbomPage!SBOMs
  BY DEF Init, SbomPage!SbomHistoryInit
<1>2. MadeIInv /\ MadeFirst /\ read \subseteq SbomPage!SBOMs => SbomPage!SbomHistoryTypeOK
  BY DEF MadeIInv, MadeFirst, SbomPage!SbomHistoryTypeOK
<1>3. /\ MadeIInv /\ MadeFirst /\ read \subseteq SbomPage!SBOMs /\ [Next]_vars
      => (read \subseteq SbomPage!SBOMs)'
  BY <1>2, ReadIsKept
<1> QED  BY <1>1, <1>2, <1>3, MadeStays, PTL DEF Spec

\* The page of databases keeps its types.
LEMMA BasesTyped == BasesIInv => Bases!DatabasesTypeOK
<1> SUFFICES ASSUME BasesIInv PROVE Bases!DatabasesTypeOK
  OBVIOUS
<1>1. chosenPath \in ((1 .. 2) \cup {Bases!None}) \X ((1 .. 2) \cup {Bases!None})
                        \X ({1} \cup {Bases!None})
  <2>1. chosenPath \in (0 .. 2) \X (0 .. 2) \X (0 .. 1)  BY DEF BasesIInv, Selections
  <2>2. /\ 0 .. 2 = (1 .. 2) \cup {Bases!None} /\ 0 .. 1 = {1} \cup {Bases!None}
    BY DEF Bases!None
  <2> QED  BY <2>1, <2>2
<1>2. answers \in [Bases!Keys -> [known : BOOLEAN, items : SUBSET Bases!Listable,
                                  error : BOOLEAN]]
  BY DEF BasesIInv, BaseCaches
<1>3. requests \in [Bases!Levels -> [pc : {"idle", "asking", "answered"},
                                     items : SUBSET Bases!Listable]]
  BY DEF BasesIInv, LevelRequest
<1>4. picked \in Bases!Keys
  <2>1. Follows(picked, chosenPath, answers)  BY DEF BasesIInv
  <2>2. CASE picked = << >>  BY <2>2, BaseKeys
  <2>3. ASSUME NEW i \in 1 .. 2, picked = <<i>> PROVE picked \in Bases!Keys
    BY <2>3, BaseKeys
  <2>4. ASSUME NEW i \in 1 .. 2, NEW d \in 1 .. 2, picked = <<i, d>> \/ picked = <<i, d, 1>>
        PROVE  picked \in Bases!Keys
    BY <2>4, BaseKeys
  <2> QED  BY <2>1, <2>2, <2>3, <2>4, Zenon DEF Follows
<1>5. catalogue \in DatabaseCatalogues /\ catalogueChanges \in 0 .. 1 /\ failures \in 0 .. 1
      /\ rounds \in Nat
  BY DEF BasesIInv
<1> QED  BY <1>1, <1>2, <1>3, <1>4, <1>5 DEF Bases!DatabasesTypeOK

-----------------------------------------------------------------------------
(* All types.                                                              *)

\* The types the dialogs of scans, the editors and the streams keep are those
\* of their modules.
LEMMA DialogIsTyped == DialogIInv => Scans!DialogTypeOK
BY DEF DialogIInv, DialogTyped, ScanRecord, BulkRecord, SeenRecord, Scans!DialogTypeOK,
       Scans!AllImages
LEMMA EditorIsTyped == EditorIInv => Editor!HostsTypeOK
BY DEF EditorIInv, HostsTyped, StoredHost, ShownHost, Editor!HostsTypeOK
LEMMA LogsAreTyped == LogsIInv => Logs!TypeOK
<1> SUFFICES ASSUME LogsIInv PROVE Logs!TypeOK
  OBVIOUS
<1>1. Logs!Incarnations \cup {Logs!None} = 0 .. MaxIncarnations
  BY BoundsAssumption DEF Logs!Incarnations, Logs!None
<1> QED
  BY <1>1 DEF LogsIInv, PageInv, StreamsInv, LoadingInv, Logs!TypeOK, Logs!Incarnations,
              Logs!None

-----------------------------------------------------------------------------
(* The pages together.                                                     *)

\* What is ticked is shown, what is stopped was agreed to, and what is killed
\* was named (the dashboard, its dialogs and the page of processes).
THEOREM OnlyWhatIsMeant == Spec => []OnlyWhatIsMeantIsStopped
<1>1. /\ List!PageShowsWhatIsTicked /\ Actions!OnlyAgreedIsStopped
      /\ Procs!KilledWasNamed /\ Procs!RulesAreAsAnswered
      => OnlyWhatIsMeantIsStopped
  BY Zenon DEF OnlyWhatIsMeantIsStopped
<1> QED  BY <1>1, TickedIsShown, StopsAreAgreed, RulesAreKept, PTL

\* The tables, the forms and the switches of the pages show what the server
\* has, each up to what its page was never told (the pages of images, of past
\* scans and SBOMs, of processes, of databases and of settings).
THEOREM PagesShow == Spec => []PagesShowTheServer
<1>1. /\ Pulls!RestShowsTheHosts /\ History!DeletedIsGone /\ SbomPage!DeletedSbomIsGone
      /\ Procs!SwitchesShowTheRules /\ Bases!EffectsSettle /\ Bases!PickIsShown
      /\ Editor!DoneChangesTheRow /\ Editor!SpinnersAreTests
      /\ Forms!FormShowsTheServer /\ Forms!TestIsOfTheForm /\ Forms!SecretsAreKept
      => PagesShowTheServer
  BY Zenon DEF PagesShowTheServer
<1> QED
  BY <1>1, TableIsOfTheHosts, DeletedStaysGone, DeletedSbomStaysGone, RulesAreKept,
     PickStaysShown, EditsAreOfTheirRow, FormsShowTheServer, PTL

\* Every step keeps what it must: the arrows of a search land on a match,
\* a cancelled pull asks no further host, a masked token stays the one of its
\* host, and a token that is good is not given up (LogView, LogsSheet,
\* ImagesPage, HostsEditor, AuthSession).
THEOREM StepsKeep == Spec => StepsKeepWhatTheyMust
BY ArrowLands, SheetArrowLands, CancelledIsLast, MaskedIsKeptOnSave, TokensStay, PTL
DEF StepsKeepWhatTheyMust

\* Every part of the pages keeps the types of its variables, for any constants
\* that satisfy the assumptions of MCPages.
THEOREM PagesTypes == Spec => []TypeOK
<1>1. /\ LogsIInv => Logs!TypeOK
      /\ ListIInv => List!ListTypeOK
      /\ ActIInv => Actions!ActionsTypeOK
      /\ DialogIInv => Scans!DialogTypeOK
      /\ HistoryIInv => History!HistoryTypeOK
      /\ TerminalIInv => Terminal!TerminalTypeOK
      /\ StatsIInv => Stats!StatsTypeOK
      /\ ProcIInv => Procs!ProcessesTypeOK
      /\ BasesIInv => Bases!DatabasesTypeOK
      /\ EditorIInv => Editor!HostsTypeOK
      /\ FormsIInv => Forms!FormsTypeOK
  BY LogsAreTyped, DialogIsTyped, EditorIsTyped, BasesTyped
  DEF ListIInv, ActIInv, HistoryIInv, TerminalIInv, StatsIInv, ProcIInv, FormsIInv
<1>2. /\ LogsIInv /\ View!ViewTypeOK /\ Sheet!SheetTypeOK /\ ListIInv /\ ActIInv
      /\ Env!FormTypeOK /\ DialogIInv /\ Sboms!SbomTypeOK /\ Pulls!ImagesTypeOK
      /\ HistoryIInv /\ SbomPage!SbomHistoryTypeOK /\ TerminalIInv /\ StatsIInv
      /\ ProcIInv /\ BasesIInv /\ EditorIInv /\ FormsIInv /\ Session!SessionTypeOK
      => TypeOK
  BY <1>1, Zenon DEF TypeOK
<1>3. Spec => [](ListIInv /\ ActIInv)
  <2>1. Spec => []ListIInv  BY ListStarts, ListIsKept, PTL DEF Spec
  <2>2. Spec => []ActIInv  BY ActStarts, ActIsKept, PTL DEF Spec
  <2> QED  BY <2>1, <2>2, PTL
<1>4. Spec => []Env!FormTypeOK  BY FormTyped, FormTypesKept, PTL DEF Spec
<1>5. Spec => []HistoryIInv
  <2>1. HistoryIInv /\ [Next]_vars => HistoryIInv'  BY HistoryRun, HistoryKeeps
  <2> QED  BY <2>1, HistoryStarts, PTL DEF Spec
<1>6. Spec => []ProcIInv  BY ProcStarts, ProcIsKept, PTL DEF Spec
<1>7. Spec => []BasesIInv  BY BasesStarts, BasesIsKept, PTL DEF Spec
<1>8. Spec => []EditorIInv  BY EditorStarts, EditorIsKept, PTL DEF Spec
<1>9. Spec => []FormsIInv  BY FormsStart, FormsAreKept, PTL DEF Spec
<1> QED
  BY <1>2, <1>3, <1>4, <1>5, <1>6, <1>7, <1>8, <1>9, LogsStay, ArrowLands, SheetTypes,
     DialogsStay, SbomTypesStay, ImagesTypesStay, SbomHistoryTypes, TerminalStays, StatsStays,
     TokensStay, PTL
===============================================================================
