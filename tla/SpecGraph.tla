------------------------------ MODULE SpecGraph ------------------------------
(***************************************************************************)
(* The vocabulary of the authored graph: the node identities, edge triples *)
(* and node files of `apg/layers/**`, and the structural rules every path  *)
(* into that tree enforces (src/src/layers/validate.rs).                   *)
(***************************************************************************)
EXTENDS Integers, FiniteSets

CONSTANTS
    Node,       \* the authored identities  <layer>.<type>.<name>
    Code,       \* code identities and scan Languages: they have no node file
    Body,       \* what a node file says of its node (body and properties)
    EventBody,  \* the bodies of an Entity with  kind: event
    Prop,       \* the property maps an edge may carry
    Edge,       \* the (kind, from, to) triples the edge-kind matrix admits
    Absent,     \* no row, no file
    NoProp      \* no edge

TreeKind  == "contains"
EventKind == {"publishes", "subscribes"}

\* The matrix has an authored source in every row; a target is authored or,
\* for implemented-by / details / applies-to, a code identity.
ASSUME EdgeAssumption ==
    Edge \subseteq [kind : STRING, from : Node, to : Node \cup Code]
ASSUME IdentityAssumption == Node \cap Code = {}
ASSUME BodyAssumption == EventBody \subseteq Body /\ Absent \notin Body
ASSUME PropAssumption == NoProp \notin Prop

Bodies == Body \cup {Absent}
Props  == Prop \cup {NoProp}

\* One node file: what it says of the node, its out-halves and its in-halves.
File  == [body : Body, out : [Edge -> Props], in : [Edge -> Props]]
Files == File \cup {Absent}

ASSUME FileAssumption == Absent \notin File

TreeEdge(e)  == e.kind = TreeKind
EventEdge(e) == e.kind \in EventKind

-----------------------------------------------------------------------------
(* The rules, over `nodes` (a body or Absent per identity) and `edges`     *)
(* (a property map or NoProp per triple).                                  *)

Present(nodes) == {n \in DOMAIN nodes : nodes[n] # Absent}
Holds(edges)   == {e \in Edge : edges[e] # NoProp}

\* No nonempty set of nodes each of which contains a member of the set: the
\* acyclicity the three-colour search of validate_trees_acyclic decides.
Acyclic(tree) ==
    \A S \in SUBSET Node :
        (\A n \in S : \E e \in tree : e.from = n /\ e.to \in S) => S = {}

\* validate_trees_acyclic: no dangling tree edge, no cycle.
TreesValid(present, edges) ==
    LET tree == {e \in Holds(edges) : TreeEdge(e)}
    IN /\ \A e \in tree : e.from \in present /\ e.to \in present
       /\ Acyclic(tree)

\* validate_event_targets: an event edge whose target is in hand needs an event.
EventTargetsValid(nodes, edges) ==
    \A e \in Holds(edges) :
        EventEdge(e) /\ e.to \in Present(nodes) => nodes[e.to] \in EventBody

\* validate_assembled_rules over an assembled node set.
AssembledRules(nodes, edges) ==
    /\ TreesValid(Present(nodes), edges)
    /\ EventTargetsValid(nodes, edges)

\* check_edge_pairing over a set of node files: every half of an authored edge
\* has its counterpart, with the same properties, in the other endpoint's file.
\* A code target has no file, so its out-half stands alone.
Paired(files) ==
    /\ \A n \in Node : files[n] # Absent =>
         \A e \in Edge : files[n].out[e] # NoProp /\ e.to \in Node =>
            /\ files[e.to] # Absent
            /\ files[e.to].in[e] = files[n].out[e]
    /\ \A n \in Node : files[n] # Absent =>
         \A e \in Edge : files[n].in[e] # NoProp =>
            /\ files[e.from] # Absent
            /\ files[e.from].out[e] = files[n].in[e]

-----------------------------------------------------------------------------
(* A node file as the database rows give it, and the rows as the node      *)
(* files give them: out-halves are canonical, in-halves only ever checked. *)

FileOf(n, nodes, edges) ==
    IF nodes[n] = Absent THEN Absent
    ELSE [body |-> nodes[n],
          out  |-> [e \in Edge |-> IF e.from = n THEN edges[e] ELSE NoProp],
          in   |-> [e \in Edge |-> IF e.to = n THEN edges[e] ELSE NoProp]]

BodyIn(files)  == [n \in Node |-> IF files[n] = Absent THEN Absent
                                  ELSE files[n].body]
EdgesIn(files) == [e \in Edge |-> IF files[e.from] = Absent THEN NoProp
                                  ELSE files[e.from].out[e]]

\* ingest_nodes: what a scan requires of the tree before it loads one row.
Ingestible(files) ==
    /\ Paired(files)
    /\ AssembledRules(BodyIn(files), EdgesIn(files))
=============================================================================
