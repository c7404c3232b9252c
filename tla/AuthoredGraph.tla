---------------------------- MODULE AuthoredGraph ----------------------------
(***************************************************************************)
(* What `apg session` promises an author, with no node file, database row, *)
(* dirty mark or ledger in sight: a durable graph, and a working graph the *)
(* session edits.  A save makes the working graph the durable one; nothing *)
(* else changes the durable graph; a session that is gone with unsaved     *)
(* work lost exactly that work.                                            *)
(***************************************************************************)
EXTENDS SpecGraph

VARIABLES live,           \* a session is open
          nodes, edges,   \* the working graph
          savedNodes, savedEdges  \* the durable graph

vars    == <<live, nodes, edges, savedNodes, savedEdges>>
working == <<nodes, edges>>
saved   == <<savedNodes, savedEdges>>

Init ==
    /\ live = FALSE
    /\ nodes = [n \in Node |-> Absent]
    /\ edges = [e \in Edge |-> NoProp]
    /\ savedNodes = nodes
    /\ savedEdges = edges

Incident(e, n) == e.from = n \/ e.to = n

\* An edit is admitted only when the graph it yields keeps the rules.
Edit == live /\ AssembledRules(nodes', edges')

PutNode(n, b) ==
    /\ nodes' = [nodes EXCEPT ![n] = b]
    /\ edges' = edges
    /\ Edit /\ UNCHANGED <<live, saved>>

RemoveNode(n) ==
    /\ nodes[n] # Absent
    /\ nodes' = [nodes EXCEPT ![n] = Absent]
    /\ edges' = [e \in Edge |-> IF Incident(e, n) THEN NoProp ELSE edges[e]]
    /\ Edit /\ UNCHANGED <<live, saved>>

\* An edge joins two present nodes, or a present node and a code identity.
PutEdge(e, p) ==
    /\ nodes[e.from] # Absent
    /\ e.to \in Node => nodes[e.to] # Absent
    /\ edges' = [edges EXCEPT ![e] = p]
    /\ nodes' = nodes
    /\ Edit /\ UNCHANGED <<live, saved>>

RemoveEdge(e) ==
    /\ edges' = [edges EXCEPT ![e] = NoProp]
    /\ nodes' = nodes
    /\ Edit /\ UNCHANGED <<live, saved>>

Save ==
    /\ live
    /\ savedNodes' = nodes /\ savedEdges' = edges
    /\ UNCHANGED <<live, working>>

\* A start serves the durable graph: what an earlier run left unsaved is gone.
Start ==
    /\ ~live /\ live' = TRUE
    /\ nodes' = savedNodes /\ edges' = savedEdges
    /\ UNCHANGED saved

\* An end releases a session with nothing unsaved.
End ==
    /\ live /\ live' = FALSE
    /\ nodes = savedNodes /\ edges = savedEdges
    /\ UNCHANGED <<working, saved>>

Abort ==
    /\ live /\ live' = FALSE
    /\ nodes' = savedNodes /\ edges' = savedEdges
    /\ UNCHANGED saved

\* A killed session leaves its working graph behind until the next start.
Crash ==
    /\ live /\ live' = FALSE
    /\ UNCHANGED <<working, saved>>

Next ==
    \/ \E n \in Node, b \in Body : PutNode(n, b)
    \/ \E n \in Node : RemoveNode(n)
    \/ \E e \in Edge, p \in Prop : PutEdge(e, p)
    \/ \E e \in Edge : RemoveEdge(e)
    \/ Save \/ Start \/ End \/ Abort \/ Crash

Spec == Init /\ [][Next]_vars
=============================================================================
