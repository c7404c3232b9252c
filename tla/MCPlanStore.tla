---------------------------- MODULE MCPlanStore ----------------------------
(* Two phases and one task; planned code that names other code its parent.  *)
EXTENDS PlanStore

CONSTANTS p1, p2, t1, c1, c2, k1, k2

MCPhaseOf  == [t \in {t1} |-> p1]
MCParentOf == [k \in Kind |-> IF k = k1 THEN NoParent ELSE c1]
=============================================================================
