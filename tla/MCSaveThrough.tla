---------------------------- MODULE MCSaveThrough ----------------------------
(* Two nodes joined by one edge: every save of that edge writes two files.  *)
EXTENDS SaveThrough

CONSTANTS service, entity, b1, b2, p1

MCEdge == {[kind |-> "reads", from |-> service, to |-> entity]}

\* The search stops at a lapse, after which two of the three properties promise
\* nothing; that HEAD stays the tree also then is left to the proof.
NoLapse == ~Lapsed
=============================================================================
