-------------------------- MODULE RoutedClientProofs --------------------------
(***************************************************************************)
(* For any number of clients and of coordinators one after the other: a    *)
(* coordinator admits each mutation at most once, and tells nobody it      *)
(* refused what it admitted.                                               *)
(***************************************************************************)
EXTENDS RoutedClient, TLAPS

\* The ledger and the admissions are two views of one fact.
LedgerCounts ==
    \A c \in Client : admitted[c] = IF ledger[c] = "ok" THEN 1 ELSE 0

\* A refused client was refused by the coordinator that serves, or has nothing
\* left in its FIFO.
RefusedIsSettled ==
    \A c \in Client : pc[c] = "err" =>
        \/ ledger[c] = "err"
        \/ ledger[c] = "none" /\ \A i \in 1..Len(backlog) : backlog[i].id # c

\* What a coordinator that stopped had accepted, nobody will serve.
DownIsEmpty == ~up => backlog = <<>>

IInv == TypeOK /\ LedgerCounts /\ RefusedIsSettled /\ DownIsEmpty

LEMMA InitInv == Init => IInv
BY BoundAssumption DEF Init, IInv, TypeOK, LedgerCounts, RefusedIsSettled,
   DownIsEmpty, Stage, Answer

\* A client step moves one client to a stage that is not an answer.
LEMMA ClientInv ==
    ASSUME IInv, NEW c \in Client, NEW t \in Try,
           Begin(c) \/ Connect(c, t) \/ Unreached(c, t) \/ GiveUp(c, t)
    PROVE  IInv'
<1> USE DEF IInv
<1>1. UNCHANGED serverVars
  BY DEF Begin, Connect, Unreached, GiveUp
<1>2. /\ pc[c] # "err"
      /\ \E s \in Stage \ Answer : pc' = [pc EXCEPT ![c] = s]
  BY DEF Begin, Connect, Unreached, GiveUp, Try, Wait, After, Stage, Answer
<1>3. \/ backlog' = backlog
      \/ up /\ backlog' = Append(backlog, [id |-> c, try |-> t])
  BY DEF Begin, Connect, Unreached, GiveUp
<1>4. TypeOK'
  <2>1. pc' \in [Client -> Stage]
    BY <1>2 DEF TypeOK
  <2>2. [id |-> c, try |-> t] \in Requests
    BY DEF Requests
  <2>3. backlog' \in Seq(Requests)
    <3>1. backlog \in Seq(Requests)
      BY DEF TypeOK
    <3>2. CASE backlog' = backlog
      BY <3>1, <3>2
    <3>3. CASE backlog' = Append(backlog, [id |-> c, try |-> t])
      BY <2>2, <3>1, <3>3
    <3> QED BY <1>3, <3>2, <3>3
  <2> QED BY <1>1, <2>1, <2>3 DEF TypeOK, serverVars
<1>5. LedgerCounts'
  BY <1>1 DEF LedgerCounts, serverVars
<1>6. RefusedIsSettled'
  <2> SUFFICES ASSUME NEW d \in Client, pc'[d] = "err", ledger[d] # "err"
               PROVE  ledger[d] = "none" /\ \A i \in 1..Len(backlog') : backlog'[i].id # d
    BY <1>1 DEF RefusedIsSettled, serverVars
  <2>1. d # c /\ pc[d] = "err"
    BY <1>2 DEF TypeOK, Answer
  <2>2. ledger[d] = "none" /\ \A i \in 1..Len(backlog) : backlog[i].id # d
    BY <2>1 DEF RefusedIsSettled
  <2>3. CASE backlog' = backlog
    BY <2>2, <2>3
  <2>4. CASE backlog' = Append(backlog, [id |-> c, try |-> t])
    <3>1. backlog \in Seq(Requests) /\ [id |-> c, try |-> t] \in Requests
      BY DEF TypeOK, Requests
    <3>2. ASSUME NEW i \in 1..Len(backlog')
          PROVE  \/ i \in 1..Len(backlog) /\ backlog'[i] = backlog[i]
                 \/ backlog'[i] = [id |-> c, try |-> t]
      BY <2>4, <3>1
    <3> QED BY <3>2, <2>1, <2>2
  <2> QED BY <1>3, <2>3, <2>4
<1>7. DownIsEmpty'
  BY <1>1, <1>3 DEF DownIsEmpty, serverVars
<1> QED BY <1>4, <1>5, <1>6, <1>7

LEMMA HandleInv ==
    ASSUME IInv, NEW reply \in Answer, Handle(reply)
    PROVE  IInv'
<1> USE DEF IInv
<1> DEFINE id == Head(backlog).id
           t  == Head(backlog).try
<1>1. /\ up /\ up' = up /\ backlog # <<>> /\ backlog' = Tail(backlog)
      /\ sessions' = sessions /\ saved' = saved
  BY DEF Handle, serverVars
<1>2. id \in Client /\ t \in Try
  <2>1. Head(backlog) \in Requests
    BY <1>1 DEF TypeOK
  <2> QED BY <2>1 DEF Requests
<1>3. backlog' \in Seq(Requests)
      /\ \A i \in 1..Len(backlog') : i + 1 \in 1..Len(backlog)
                                     /\ backlog'[i] = backlog[i + 1]
  BY <1>1 DEF TypeOK
<1>4. id = backlog[1].id /\ 1 \in 1..Len(backlog)
  BY <1>1 DEF TypeOK
<1> HIDE DEF id, t
<1>5. CASE IsReplay(id)
  <2>1. UNCHANGED serverVars /\ Reply(id, t, ledger[id])
    BY <1>5 DEF Handle, id, t
  <2>2. ledger[id] \in Answer
    BY <1>2, <1>5 DEF IsReplay, TypeOK
  <2>3. \/ pc' = pc
        \/ pc' = [pc EXCEPT ![id] = ledger[id]]
    BY <2>1 DEF Reply
  <2>4. TypeOK'
    BY <1>1, <1>3, <2>1, <2>2, <2>3 DEF TypeOK, serverVars, Stage
  <2>5. LedgerCounts'
    BY <2>1 DEF LedgerCounts, serverVars
  <2>6. RefusedIsSettled'
    <3> SUFFICES ASSUME NEW d \in Client, pc'[d] = "err", ledger[d] # "err"
                 PROVE  ledger[d] = "none" /\ \A i \in 1..Len(backlog') : backlog'[i].id # d
      BY <2>1 DEF RefusedIsSettled, serverVars
    <3>1. pc[d] = "err"
      BY <2>3, <1>2 DEF TypeOK
    <3> QED BY <3>1, <1>3 DEF RefusedIsSettled
  <2>7. DownIsEmpty'
    BY <1>1 DEF DownIsEmpty
  <2> QED BY <2>4, <2>5, <2>6, <2>7
<1>6. CASE ~IsReplay(id)
  <2>1. /\ Reply(id, t, reply)
        /\ ledger' = [ledger EXCEPT ![id] = reply]
        /\ reply = "ok" => /\ admitted' = [admitted EXCEPT ![id] = @ + 1]
                           /\ landed' = [landed EXCEPT ![id] = @ + 1]
        /\ reply # "ok" => UNCHANGED <<admitted, landed>>
    BY <1>6 DEF Handle, Record, id, t
  <2>2. ledger[id] = "none"
    BY <1>2, <1>6 DEF IsReplay
  <2>3. \/ pc' = pc
        \/ pc' = [pc EXCEPT ![id] = reply]
    BY <2>1 DEF Reply
  <2>4. TypeOK'
    <3>1. pc' \in [Client -> Stage]
      BY <2>3, <1>2 DEF TypeOK, Stage
    <3>2. ledger' \in [Client -> Answer \cup {"none"}]
      BY <2>1, <1>2 DEF TypeOK
    <3>3. admitted' \in [Client -> Nat] /\ landed' \in [Client -> Nat]
      <4>1. CASE reply = "ok"
        <5>1. admitted[id] + 1 \in Nat /\ landed[id] + 1 \in Nat
          BY <1>2 DEF TypeOK
        <5>2. admitted' = [admitted EXCEPT ![id] = @ + 1]
          BY <4>1, <2>1
        <5>3. landed' = [landed EXCEPT ![id] = @ + 1]
          BY <4>1, <2>1
        <5>4. admitted' \in [Client -> Nat]
          BY <5>1, <5>2 DEF TypeOK
        <5>5. landed' \in [Client -> Nat]
          BY <5>1, <5>3 DEF TypeOK
        <5> QED BY <5>4, <5>5
      <4>2. CASE reply # "ok"
        BY <4>2, <2>1, <1>2 DEF TypeOK
      <4> QED BY <4>1, <4>2
    <3> QED BY <1>1, <1>3, <3>1, <3>2, <3>3 DEF TypeOK
  <2>5. LedgerCounts'
    <3> SUFFICES ASSUME NEW d \in Client
                 PROVE  admitted'[d] = IF ledger'[d] = "ok" THEN 1 ELSE 0
      BY DEF LedgerCounts
    <3>1. admitted[d] = IF ledger[d] = "ok" THEN 1 ELSE 0
      BY DEF LedgerCounts
    <3>2. CASE reply = "ok"
      BY <3>1, <3>2, <2>1, <2>2, <1>2 DEF TypeOK
    <3>3. CASE reply # "ok"
      BY <3>1, <3>3, <2>1, <2>2, <1>2 DEF TypeOK
    <3> QED BY <3>2, <3>3
  <2>6. RefusedIsSettled'
    <3> SUFFICES ASSUME NEW d \in Client, pc'[d] = "err", ledger'[d] # "err"
                 PROVE  ledger'[d] = "none" /\ \A i \in 1..Len(backlog') : backlog'[i].id # d
      BY DEF RefusedIsSettled
    <3>1. CASE d = id
      \* A client already refused with nothing in the ledger would have no
      \* request in the FIFO, yet its request heads it.
      <4>1. reply # "err"
        BY <3>1, <2>1, <1>2 DEF TypeOK
      <4>2. pc[d] = "err"
        BY <3>1, <4>1, <2>3, <1>2 DEF TypeOK
      <4>3. backlog[1].id # d
        BY <4>2, <2>2, <3>1, <1>4 DEF RefusedIsSettled
      <4> QED BY <4>3, <3>1, <1>4
    <3>2. CASE d # id
      <4>1. pc[d] = "err" /\ ledger'[d] = ledger[d]
        BY <3>2, <2>1, <2>3, <1>2 DEF TypeOK
      <4> QED BY <4>1, <1>3 DEF RefusedIsSettled
    <3> QED BY <3>1, <3>2
  <2>7. DownIsEmpty'
    BY <1>1 DEF DownIsEmpty
  <2> QED BY <2>4, <2>5, <2>6, <2>7
<1> QED BY <1>5, <1>6

LEMMA SessionInv ==
    ASSUME IInv, Save \/ End \/ Abort \/ Start
    PROVE  IInv'
<1> USE DEF IInv
<1>1. CASE Save
  BY <1>1 DEF Save, TypeOK, LedgerCounts, RefusedIsSettled, DownIsEmpty
<1>2. CASE End \/ Abort
  <2>1. Disconnect /\ UNCHANGED <<sessions, ledger, admitted, saved>>
        /\ landed' \in [Client -> Nat]
    BY <1>2 DEF End, Abort, TypeOK
  <2>2. /\ \A d \in Client : pc'[d] \in Stage /\ (pc'[d] = "err" => pc[d] = "err")
        /\ pc' \in [Client -> Stage]
        /\ backlog' = <<>> /\ up' = FALSE
    BY <2>1 DEF Disconnect, TypeOK, Stage, Answer
  <2>3. TypeOK'
    <3>1. backlog' = <<>>
      BY <2>2
    <3>2. backlog' \in Seq(Requests)
      BY <3>1
    <3>3. up' \in BOOLEAN /\ pc' \in [Client -> Stage]
      BY <2>2
    <3> QED BY <2>1, <3>2, <3>3 DEF TypeOK
  <2>4. LedgerCounts' /\ DownIsEmpty'
    BY <2>1, <2>2 DEF LedgerCounts, DownIsEmpty
  <2>5. RefusedIsSettled'
    BY <2>1, <2>2 DEF RefusedIsSettled, TypeOK
  <2> QED BY <2>3, <2>4, <2>5
<1>3. CASE Start
  <2>1. backlog = <<>>
    BY <1>3 DEF Start, DownIsEmpty
  <2>2. TypeOK'
    BY <1>3, BoundAssumption DEF Start, TypeOK
  <2>3. LedgerCounts' /\ RefusedIsSettled' /\ DownIsEmpty'
    BY <1>3, <2>1 DEF Start, LedgerCounts, RefusedIsSettled, DownIsEmpty
  <2> QED BY <2>2, <2>3
<1> QED BY <1>1, <1>2, <1>3

LEMMA Inductive == Spec => []IInv
<1>1. IInv /\ [Next]_vars => IInv'
  <2> SUFFICES ASSUME IInv, [Next]_vars
               PROVE  IInv'
    OBVIOUS
  <2>1. CASE Next
    BY <2>1, ClientInv, HandleInv, SessionInv DEF Next, Try
  <2>2. CASE UNCHANGED vars
    BY <2>2 DEF vars, IInv, TypeOK, LedgerCounts, RefusedIsSettled, DownIsEmpty
  <2> QED BY <2>1, <2>2
<1> QED BY InitInv, <1>1, PTL DEF Spec

\* Every variable keeps its type; a client process never makes a third try.
THEOREM TypeCorrect == Spec => []TypeOK
<1>1. IInv => TypeOK
  BY DEF IInv
<1> QED BY <1>1, Inductive, PTL

\* A coordinator admits a client's mutation at most once (the ledger of
\* handle_connection), for any number of clients, tries and abandoned requests.
THEOREM AdmittedOnce == Spec => []AtMostOnce
<1>1. IInv => AtMostOnce
  <2> SUFFICES ASSUME IInv, NEW c \in Client
               PROVE  admitted[c] <= 1
    BY DEF AtMostOnce
  <2> QED BY DEF IInv, LedgerCounts
<1> QED BY <1>1, Inductive, PTL

\* A client is never told its mutation was refused by the coordinator that
\* admitted it.
THEOREM RefusalsStand == Spec => []RefusedIsNotAdmitted
<1>1. IInv => RefusedIsNotAdmitted
  BY DEF IInv, LedgerCounts, RefusedIsSettled, RefusedIsNotAdmitted
<1> QED BY <1>1, Inductive, PTL
=============================================================================
