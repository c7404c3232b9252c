--------------------------- MODULE MCSessionStore ---------------------------
(* Three authored nodes and a code identity: a tree edge each way between   *)
(* two nodes (so a cycle is one edit away), an event edge onto the second.   *)
EXTENDS SessionStore, TLC

CONSTANTS group, service, event, code, plain, kindEvent, p1, p2

MCEdge ==
    {[kind |-> "contains", from |-> group, to |-> service],
     [kind |-> "contains", from |-> service, to |-> group],
     [kind |-> "publishes", from |-> service, to |-> event],
     [kind |-> "details", from |-> group, to |-> code]}

\* The two property maps are interchangeable.
PropSymmetry == Permutations(Prop)
=============================================================================
