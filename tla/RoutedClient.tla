----------------------------- MODULE RoutedClient -----------------------------
(***************************************************************************)
(* How a node or edge command reaches the coordinator: one client process  *)
(* per command, its fresh client id, the connection, one reconnect retry   *)
(* (send_with_retry), the FIFO of accepted connections and the ledger of   *)
(* replies.  A client that stops waiting leaves its request in the FIFO; a *)
(* coordinator that stops resets what is queued.  What a mutation does is  *)
(* SessionStore; here it is admitted or refused.                           *)
(***************************************************************************)
EXTENDS Integers, Sequences

CONSTANTS Client,      \* one per command, and so one per client id
          MaxSessions  \* how many coordinators serve, one after the other

ASSUME BoundAssumption == MaxSessions \in Nat \ {0}

Try    == {1, 2}
Answer == {"ok", "err"}
Wait(t)    == <<"wait1", "wait2">>[t]
\* What follows a try that brought no answer: the retry, or the report.
After(t)   == <<"try2", "failed">>[t]
Stage == {"idle", "try1", "wait1", "try2", "wait2", "failed"} \cup Answer

VARIABLES
    pc,        \* where each client process is; an answer is its last stage
    backlog,   \* the accepted connections, oldest first, and their requests
    sessions,  \* how many coordinators have been started
    up,        \* one of them serves
    ledger,    \* its replies, by client id
    admitted,  \* how often it admitted each mutation
    landed,    \* how often each mutation is in the working state
    saved      \* how often each mutation is in the node files

vars == <<pc, backlog, sessions, up, ledger, admitted, landed, saved>>
serverVars == <<sessions, up, ledger, admitted, landed, saved>>

Requests == [id : Client, try : Try]

TypeOK ==
    /\ pc \in [Client -> Stage]
    /\ backlog \in Seq(Requests)
    /\ sessions \in 1..MaxSessions /\ up \in BOOLEAN
    /\ ledger \in [Client -> Answer \cup {"none"}]
    /\ admitted \in [Client -> Nat]
    /\ landed \in [Client -> Nat] /\ saved \in [Client -> Nat]

\* A session just started.
Init ==
    /\ pc = [c \in Client |-> "idle"]
    /\ backlog = <<>>
    /\ sessions = 1 /\ up = TRUE
    /\ ledger = [c \in Client |-> "none"]
    /\ admitted = [c \in Client |-> 0]
    /\ landed = admitted /\ saved = admitted

-----------------------------------------------------------------------------
(* The client: cmd_node, cmd_edge, forward_mutation, send_with_retry *)

\* With no session the command is refused; with one it makes its client id.
Begin(c) ==
    /\ pc[c] = "idle" /\ up
    /\ pc' = [pc EXCEPT ![c] = "try1"]
    /\ UNCHANGED <<backlog, serverVars>>

Connect(c, t) ==
    /\ pc[c] = <<"try1", "try2">>[t] /\ up
    /\ backlog' = Append(backlog, [id |-> c, try |-> t])
    /\ pc' = [pc EXCEPT ![c] = Wait(t)]
    /\ UNCHANGED serverVars

Unreached(c, t) ==
    /\ pc[c] = <<"try1", "try2">>[t] /\ ~up
    /\ pc' = [pc EXCEPT ![c] = After(t)]
    /\ UNCHANGED <<backlog, serverVars>>

\* Sixty seconds without a reply, while the coordinator is busy with another
\* connection.  The request stays in the FIFO.
GiveUp(c, t) ==
    /\ pc[c] = Wait(t)
    /\ pc' = [pc EXCEPT ![c] = After(t)]
    /\ UNCHANGED <<backlog, serverVars>>

-----------------------------------------------------------------------------
(* The coordinator: serve, handle_connection *)

\* Mutant: the id is entered before the mutation is applied, and never revised.
RecordAtEntry(id, reply) == ledger' = [ledger EXCEPT ![id] = "err"]

Record(id, reply) == ledger' = [ledger EXCEPT ![id] = reply]

\* Mutant: the retry is taken for a command of its own.
IsReplayNever(id) == FALSE

\* A replayed id is answered from the ledger.
IsReplay(id) == ledger[id] # "none"

Reply(id, t, reply) ==
    pc' = IF pc[id] = Wait(t) THEN [pc EXCEPT ![id] = reply] ELSE pc

\* One connection served to its end.  A reply nobody waits for is lost.
Handle(reply) ==
    /\ up /\ backlog # <<>>
    /\ backlog' = Tail(backlog)
    /\ LET id == Head(backlog).id IN
       IF IsReplay(id)
       THEN /\ Reply(id, Head(backlog).try, ledger[id])
            /\ UNCHANGED serverVars
       ELSE /\ Reply(id, Head(backlog).try, reply)
            /\ Record(id, reply)
            /\ IF reply = "ok"
               THEN /\ admitted' = [admitted EXCEPT ![id] = @ + 1]
                    /\ landed' = [landed EXCEPT ![id] = @ + 1]
               ELSE UNCHANGED <<admitted, landed>>
            /\ UNCHANGED <<sessions, up, saved>>

Save ==
    /\ up /\ saved' = landed
    /\ UNCHANGED <<pc, backlog, sessions, up, ledger, admitted, landed>>

\* The socket is gone: every waiting client reads an end of file.
Disconnect ==
    /\ up /\ up' = FALSE
    /\ backlog' = <<>>
    /\ pc' = [c \in Client |-> IF pc[c] = "wait1" THEN "try2"
                               ELSE IF pc[c] = "wait2" THEN "failed" ELSE pc[c]]

End ==
    /\ landed = saved
    /\ Disconnect
    /\ UNCHANGED <<sessions, ledger, admitted, landed, saved>>

\* An abort, or a kill and the recovery the next start runs.
Abort ==
    /\ Disconnect
    /\ landed' = saved
    /\ UNCHANGED <<sessions, ledger, admitted, saved>>

\* The next coordinator has a ledger of its own.
Start ==
    /\ ~up /\ sessions < MaxSessions
    /\ up' = TRUE /\ sessions' = sessions + 1
    /\ ledger' = [c \in Client |-> "none"]
    /\ admitted' = [c \in Client |-> 0]
    /\ UNCHANGED <<pc, backlog, landed, saved>>

Next ==
    \/ \E c \in Client : Begin(c)
    \/ \E c \in Client, t \in Try : Connect(c, t) \/ Unreached(c, t) \/ GiveUp(c, t)
    \/ \E reply \in Answer : Handle(reply)
    \/ Save \/ End \/ Abort \/ Start

Spec == Init /\ [][Next]_vars

-----------------------------------------------------------------------------
(* Properties *)

\* A coordinator admits a client's mutation at most once, however often and
\* however late the client's two requests reach it, and whoever stopped waiting.
AtMostOnce == \A c \in Client : admitted[c] <= 1

\* No client is told its mutation was refused by the coordinator that admitted
\* it: what a lost first reply said, the second one says too.
RefusedIsNotAdmitted ==
    \A c \in Client : pc[c] = "err" => admitted[c] = 0
=============================================================================
