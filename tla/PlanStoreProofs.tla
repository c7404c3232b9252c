---------------------------- MODULE PlanStoreProofs ----------------------------
(***************************************************************************)
(* For every set of phases, tasks, code identities and durable nodes: the  *)
(* records of a project stay well formed and its feedback is kept, however *)
(* commands are cut short; and where none is, the projection of the plan   *)
(* in the database is exact.                                               *)
(***************************************************************************)
EXTENDS PlanStore, WellFoundedInduction, TLAPS

LEMMA IdentitiesApart ==
    /\ Phase \cap Task = {} /\ Phase \cap Code = {} /\ Task \cap Code = {}
    /\ Num \cap (Phase \cup Task \cup Code \cup Durable \cup {ThePlan}) = {}
    /\ Durable \cap (Phase \cup Task \cup Code \cup {ThePlan}) = {}
    /\ ThePlan \notin Phase \cup Task \cup Code
<1> DEFINE layers == <<{ThePlan}, Phase, Task, Code, Durable, 1 .. MaxFeedback>>
<1>1. \A i, j \in 1 .. 6 : i # j => layers[i] \cap layers[j] = {}
  BY IdentityAssumption
<1>2. /\ layers[1] = {ThePlan} /\ layers[2] = Phase /\ layers[3] = Task
      /\ layers[4] = Code /\ layers[5] = Durable /\ layers[6] = Num
  BY DEF Num
<1> HIDE DEF layers
<1>3. /\ {ThePlan} \cap Phase = {} /\ {ThePlan} \cap Task = {} /\ {ThePlan} \cap Code = {}
      /\ {ThePlan} \cap Durable = {} /\ {ThePlan} \cap Num = {}
  BY <1>1, <1>2
<1>4. /\ Phase \cap Task = {} /\ Phase \cap Code = {} /\ Phase \cap Durable = {}
      /\ Phase \cap Num = {}
  BY <1>1, <1>2
<1>5. Task \cap Code = {} /\ Task \cap Durable = {} /\ Task \cap Num = {}
  BY <1>1, <1>2
<1>6. Code \cap Durable = {} /\ Code \cap Num = {} /\ Durable \cap Num = {}
  BY <1>1, <1>2
<1> QED BY <1>3, <1>4, <1>5, <1>6

LEMMA RecordsName ==
    \A r \in Records : r.fqn \in {ThePlan} \cup Phase \cup Task \cup Code \cup Num
BY DEF Records, Rec

LEMMA ArcsName ==
    \A a \in Arcs :
        /\ a.from \in {ThePlan} \cup Phase \cup Task \cup Code \cup Num
        /\ a.kind = "reviews" => a.from \in Num
        /\ a.kind # "implemented-by"
  BY PlanAssumption DEF Arcs, Arc, Verbs

LEMMA ArcFields ==
    /\ \A k, x, y : Arc(k, x, y).kind = k /\ Arc(k, x, y).from = x /\ Arc(k, x, y).to = y
    /\ \A p, ps : \A a \in Gates(p, ps) : a.kind = "gates" /\ a.from = p /\ a.to \in ps
BY DEF Arc, Gates

LEMMA AllOf ==
    /\ AllNodes = nodes["plans"] \cup nodes["mirror"]
    /\ AllArcs = arcs["plans"] \cup arcs["mirror"]
BY DEF AllNodes, AllArcs, File

-----------------------------------------------------------------------------
(* A set of numbers up to a bound has a greatest one.                       *)

LEMMA SmallestIn ==
    ASSUME NEW S \in SUBSET Nat, S # {}
    PROVE  \E m \in S : \A k \in S : m <= k
<1> DEFINE R == OpToRel(<, Nat)
<1>1. IsWellFoundedOn(R, Nat)
  BY NatLessThanWellFounded
<1>2. ASSUME NEW m \in Nat, NEW k \in Nat, ~(<<k, m>> \in R)
      PROVE  m <= k
  BY <1>2 DEF OpToRel
<1> HIDE DEF R
<1>3. \E m \in S : \A k \in S : ~(<<k, m>> \in R)
  BY <1>1, WFMin
<1> QED BY <1>2, <1>3

LEMMA GreatestOf ==
    ASSUME NEW b \in Nat, NEW S \in SUBSET (0 .. b), S # {}
    PROVE  Max(S) \in S /\ \A y \in S : y <= Max(S)
<1> DEFINE bounds == {m \in Nat : \A y \in S : y <= m}
<1>1. PICK m \in bounds : \A k \in bounds : m <= k
  <2>1. b \in bounds
    OBVIOUS
  <2> QED BY <2>1, SmallestIn
<1>2. m \in S
  <2> SUFFICES ASSUME m \notin S PROVE FALSE
    OBVIOUS
  <2>1. PICK z \in S : TRUE
    OBVIOUS
  <2>2. \A y \in S : y \in Nat /\ y <= m - 1
    <3> TAKE y \in S
    <3>1. y \in Nat /\ m \in Nat /\ y <= m /\ y # m
      BY <1>1
    <3> QED BY <3>1
  <2>3. m - 1 \in bounds
    BY <1>1, <2>1, <2>2
  <2> QED BY <1>1, <2>3
<1> QED BY <1>1, <1>2 DEF Max

\* The number of a new item is no item's yet.
LEMMA NumberIsNew ==
    ASSUME TypeOK, NEW f \in File, NextNumber(f) <= MaxFeedback
    PROVE  NextNumber(f) \in Num /\ NextNumber(f) \notin Items(AllNodes)
<1> DEFINE S == {0} \cup Items(AllNodes)
<1>1. S \in SUBSET (0 .. MaxFeedback) /\ S # {} /\ MaxFeedback \in Nat
  BY PlanAssumption DEF Items, Num
<1> HIDE DEF S
<1>2. Max(S) \in S /\ \A y \in S : y <= Max(S)
  BY <1>1, GreatestOf
<1>3. Max(S) \in Nat /\ \A y \in Items(AllNodes) : y \in Nat /\ y <= Max(S)
  BY <1>1, <1>2 DEF S
<1>4. NextNumber(f) = Max(S) + 1
  BY DEF NextNumber, S
<1> QED BY <1>1, <1>3, <1>4 DEF Num

-----------------------------------------------------------------------------
(* The strengthening: what a file of records is, whoever wrote it.          *)

\* No plan store, no records of a plan.
NoFileNoRecords == ~planFile => P = {} /\ A = {}

\* A mirror holds feedback, and nothing else.
MirrorsHoldFeedback == Fqns(nodes["mirror"]) \subseteq Num

NumbersApart == Items(nodes["plans"]) \cap Items(nodes["mirror"]) = {}

\* A reviews edge lies beside its item.
ReviewsHaveItems ==
    \A f \in File : \A a \in arcs[f] : a.kind = "reviews" => a.from \in Items(nodes[f])

RecordsInv ==
    /\ TypeOK
    /\ NoFileNoRecords /\ MirrorsHoldFeedback /\ NumbersApart /\ ReviewsHaveItems
    /\ TasksHavePhases /\ GatesAcyclic

\* What a command may make of a file.
Kept(f, ns, as) ==
    /\ ns \subseteq Records /\ as \subseteq Arcs
    /\ \A a \in arcs[f] : a.kind = "reviews" => a \in as
    /\ \A a \in as : a.kind = "reviews" => a.from \in Items(ns)
    /\ \A g \in File \ {f} : Items(ns) \cap Items(nodes[g]) = {}

\* And of the plan store.
PlanKept(ns, as) ==
    /\ \A t \in Task : t \in Fqns(ns) =>
          phaseOf[t] \in Fqns(ns) /\ Arc("contains", phaseOf[t], t) \in as
    /\ \A ps \in (SUBSET Phase) \ {{}} :
          \E p \in ps : \A q \in ps : Arc("gates", p, q) \notin as

WellMade(f, ns, as, keep) ==
    /\ Kept(f, ns, as) /\ keep \in BOOLEAN
    /\ f = "plans"  => PlanKept(ns, as) /\ (~keep => ns = {} /\ as = {})
    /\ f = "mirror" => Fqns(ns) \subseteq Num /\ keep = planFile

\* The feedback of a project after a step.
FeedbackKept ==
    /\ Items(nodes'["plans"]) \cap Items(nodes'["mirror"]) = {}
    /\ \A f \in File : \A a \in arcs[f] :
         a.kind = "reviews" => a \in arcs'[f] /\ a.from \in Items(nodes'[f])

LEMMA DbTyped ==
    ASSUME TypeOK, NEW ns \in SUBSET Records, NEW as \in SUBSET Arcs,
           Project(ns, as) \/ UNCHANGED db
    PROVE  /\ rows' \subseteq Records /\ real' \subseteq Code
           /\ links' \subseteq Arcs \cup Claims(Code)
           /\ recorded' \in [code : SUBSET Code, claims : SUBSET Code]
<1>1. CASE Project(ns, as)
  <2>1. rows' \subseteq rows \cup ns
    BY <1>1 DEF Project, Merge
  <2>2. links' \subseteq links \cup as
    BY <1>1 DEF Project, Resolved
  <2> QED BY <1>1, <2>1, <2>2 DEF Project, TypeOK
<1>2. CASE UNCHANGED db
  BY <1>2 DEF db, TypeOK
<1> QED BY <1>1, <1>2

LEMMA WrittenKeeps ==
    ASSUME RecordsInv, NEW f \in File, NEW ns, NEW as, NEW keep,
           WellMade(f, ns, as, keep), WriteThrough(f, ns, as, keep)
    PROVE  RecordsInv' /\ FeedbackKept
<1> DEFINE afterNodes == UNION {IF g = f THEN ns ELSE nodes[g] : g \in File}
           afterArcs  == UNION {IF g = f THEN as ELSE arcs[g] : g \in File}
<1>1. /\ nodes' = [nodes EXCEPT ![f] = ns] /\ arcs' = [arcs EXCEPT ![f] = as]
      /\ UNCHANGED <<code, claims>>
      /\ planFile' = keep \/ planFile' = (planFile \/ keep)
      /\ Project(afterNodes, afterArcs) \/ UNCHANGED db
  BY DEF WriteThrough, tree
<1>2. /\ TypeOK /\ nodes \in [File -> SUBSET Records] /\ arcs \in [File -> SUBSET Arcs]
      /\ planFile \in BOOLEAN /\ keep \in BOOLEAN
      /\ ns \subseteq Records /\ as \subseteq Arcs
  BY DEF RecordsInv, TypeOK, WellMade, Kept
<1>3. /\ nodes'[f] = ns /\ arcs'[f] = as
      /\ \A g \in File \ {f} : nodes'[g] = nodes[g] /\ arcs'[g] = arcs[g]
      /\ nodes' \in [File -> SUBSET Records] /\ arcs' \in [File -> SUBSET Arcs]
  BY <1>1, <1>2
<1>4. afterNodes \subseteq Records /\ afterArcs \subseteq Arcs
  BY <1>2
<1>0. planFile' \in BOOLEAN /\ (keep => planFile') /\ (planFile' => planFile \/ keep)
  <2>1. planFile \in BOOLEAN /\ keep \in BOOLEAN /\ (planFile' = keep \/ planFile' = (planFile \/ keep))
    BY <1>1, <1>2
  <2>2. CASE keep = TRUE
    BY <2>1, <2>2
  <2>3. CASE keep = FALSE
    BY <2>1, <2>3
  <2> QED BY <2>1, <2>2, <2>3
<1>5. TypeOK'
  <2> HIDE DEF afterNodes, afterArcs
  <2>1. /\ rows' \subseteq Records /\ real' \subseteq Code
        /\ links' \subseteq Arcs \cup Claims(Code)
        /\ recorded' \in [code : SUBSET Code, claims : SUBSET Code]
    BY <1>1, <1>2, <1>4, DbTyped
  <2> QED BY <1>0, <1>1, <1>2, <1>3, <2>1 DEF TypeOK
<1> HIDE DEF afterNodes, afterArcs
<1>6. f \in {"plans", "mirror"} /\ "plans" \in File /\ "mirror" \in File
  BY DEF File
<1>7. NumbersApart'
  BY <1>3, <1>6 DEF NumbersApart, RecordsInv, WellMade, Kept, File
<1>8. ReviewsHaveItems'
  BY <1>3, <1>6 DEF ReviewsHaveItems, RecordsInv, WellMade, Kept, File, Items
<1>9. \A g \in File : \A a \in arcs[g] : a.kind = "reviews" => a \in arcs'[g]
  BY <1>3 DEF WellMade, Kept
<1>10. FeedbackKept
  BY <1>7, <1>8, <1>9, <1>6 DEF FeedbackKept, NumbersApart, ReviewsHaveItems
<1>11. CASE f = "plans"
  <2>1. P' = ns /\ A' = as /\ nodes'["mirror"] = nodes["mirror"]
    BY <1>3, <1>6, <1>11 DEF P, A
  <2>2. NoFileNoRecords'
    BY <1>0, <1>11, <2>1 DEF NoFileNoRecords, WellMade
  <2>3. MirrorsHoldFeedback'
    BY <2>1 DEF MirrorsHoldFeedback, RecordsInv, Fqns
  <2>4. TasksHavePhases' /\ GatesAcyclic'
    BY <1>11, <2>1 DEF TasksHavePhases, GatesAcyclic, WellMade, PlanKept, Present
  <2> QED BY <1>5, <1>7, <1>8, <1>10, <2>2, <2>3, <2>4 DEF RecordsInv
<1>12. CASE f = "mirror"
  <2>1. P' = P /\ A' = A /\ nodes'["mirror"] = ns
    BY <1>3, <1>6, <1>12 DEF P, A
  <2>2. NoFileNoRecords'
    BY <1>0, <1>2, <1>12, <2>1 DEF NoFileNoRecords, RecordsInv, WellMade
  <2>3. MirrorsHoldFeedback'
    BY <1>12, <2>1 DEF MirrorsHoldFeedback, WellMade, Fqns
  <2>4. TasksHavePhases' /\ GatesAcyclic'
    BY <2>1 DEF TasksHavePhases, GatesAcyclic, RecordsInv, Present
  <2> QED BY <1>5, <1>7, <1>8, <1>10, <2>2, <2>3, <2>4 DEF RecordsInv
<1> QED BY <1>6, <1>11, <1>12

-----------------------------------------------------------------------------
(* The commands                                                              *)

\* A step that is one write of a well-made file.
OneWrite == \E f \in File : \E ns, as, keep :
               WellMade(f, ns, as, keep) /\ WriteThrough(f, ns, as, keep)

LEMMA PlanWritten ==
    ASSUME NEW ns, NEW as, Kept("plans", ns, as), PlanKept(ns, as), Write(ns, as)
    PROVE  OneWrite
BY DEF OneWrite, WellMade, Write, File

\* Dropping gates closes no cycle.
LEMMA FewerGates ==
    ASSUME GatesAcyclic, NEW as,
           \A p, q \in Phase : Arc("gates", p, q) \in as => Arc("gates", p, q) \in A
    PROVE  \A ps \in (SUBSET Phase) \ {{}} :
              \E p \in ps : \A q \in ps : Arc("gates", p, q) \notin as
BY DEF GatesAcyclic

\* Nor do new gates of p, when none of the phases it is to be gated on reaches p.
\* Cut a cycle down to the phases the search from its new gate would visit.
LEMMA GuardedGates ==
    ASSUME GatesAcyclic, NEW p \in Phase, NEW qs \in SUBSET Phase,
           \A q \in qs : ~Closes(p, q), NEW as,
           \A x, y \in Phase : Arc("gates", x, y) \in as =>
               Arc("gates", x, y) \in A \/ (x = p /\ y \in qs)
    PROVE  \A ps \in (SUBSET Phase) \ {{}} :
              \E x \in ps : \A y \in ps : Arc("gates", x, y) \notin as
<1> SUFFICES ASSUME NEW ps \in (SUBSET Phase) \ {{}},
                    \A x \in ps : \E y \in ps : Arc("gates", x, y) \in as
             PROVE  FALSE
  OBVIOUS
<1>1. PICK x \in ps : \A y \in ps : Arc("gates", x, y) \notin A
  BY DEF GatesAcyclic
<1>2. x = p
  BY <1>1
<1>3. PICK q \in ps : q \in qs
  BY <1>1, <1>2
<1>4. PICK cs \in SUBSET Phase :
        /\ q \in cs /\ p \notin cs
        /\ \A z \in cs, y \in Phase : Arc("gates", z, y) \in A => y \in cs
  BY <1>3 DEF Closes
<1> DEFINE both == ps \cap cs
<1>5. both \in (SUBSET Phase) \ {{}}
  BY <1>3, <1>4
<1>6. \A z \in both : \E y \in both : Arc("gates", z, y) \in A
  BY <1>4
<1> HIDE DEF both
<1> QED BY <1>5, <1>6 DEF GatesAcyclic

\* A record added to a file, or put in the place of one.
LEMMA RecordPut ==
    ASSUME NEW S, NEW f, NEW v
    PROVE  /\ Fqns(S \cup {Rec(f, v)}) = Fqns(S) \cup {f}
           /\ Fqns({n \in S : n.fqn # f} \cup {Rec(f, v)}) = Fqns(S) \cup {f}
<1>1. Rec(f, v).fqn = f
  BY DEF Rec
<1>2. Fqns(S \cup {Rec(f, v)}) = Fqns(S) \cup {f}
  BY <1>1 DEF Fqns
<1> DEFINE put == {n \in S : n.fqn # f} \cup {Rec(f, v)}
<1>3. \A n \in put : n.fqn \in Fqns(S) \cup {f}
  BY <1>1 DEF Fqns
<1>4. f \in Fqns(put) /\ \A n \in S : n.fqn \in Fqns(put)
  BY <1>1 DEF Fqns
<1> HIDE DEF put
<1>5. Fqns(put) = Fqns(S) \cup {f}
  BY <1>3, <1>4 DEF Fqns
<1> QED BY <1>2, <1>5 DEF put

\* A change of the plan's records that adds, drops and rewrites no feedback.
LEMMA RecordWritten ==
    ASSUME RecordsInv, NEW f, f \notin Num,
           NEW ns \in SUBSET Records, Fqns(ns) = Fqns(P) \cup {f},
           NEW as \in SUBSET Arcs,
           \A a \in Arcs : a.kind = "reviews" => (a \in as <=> a \in A)
    PROVE  Kept("plans", ns, as)
<1>1. P \subseteq Records /\ A \subseteq Arcs
  BY DEF RecordsInv, TypeOK, P, A, File
<1>2. Items(ns) = Items(P)
  BY DEF Items
<1> QED BY <1>1, <1>2 DEF Kept, RecordsInv, NumbersApart, ReviewsHaveItems, P, A, File

LEMMA SameRecords ==
    ASSUME RecordsInv, NEW as \in SUBSET Arcs,
           \A a \in Arcs : a.kind = "reviews" => (a \in as <=> a \in A)
    PROVE  Kept("plans", P, as)
<1>1. P \subseteq Records /\ A \subseteq Arcs
  BY DEF RecordsInv, TypeOK, P, A, File
<1> QED BY <1>1 DEF Kept, RecordsInv, NumbersApart, ReviewsHaveItems, P, A, File

LEMMA PlanTyped ==
    ASSUME RecordsInv PROVE P \subseteq Records /\ A \subseteq Arcs
BY DEF RecordsInv, TypeOK, P, A, File

LEMMA PlanAddWrites ==
    ASSUME RecordsInv, PlanAdd PROVE OneWrite
<1> DEFINE ns == {Rec(ThePlan, "plan")}
<1>1. P = {} /\ A = {}
  BY DEF PlanAdd, RecordsInv, NoFileNoRecords
<1>2. ns \subseteq Records /\ Fqns(ns) = {ThePlan}
  BY DEF Records, Rec, Fqns
<1>3. Kept("plans", ns, {})
  BY <1>1, <1>2, IdentitiesApart DEF Kept, Items, A, File
<1>4. PlanKept(ns, {})
  BY <1>2, IdentitiesApart DEF PlanKept
<1> QED BY <1>3, <1>4, PlanWritten DEF PlanAdd

LEMMA PhaseAddWrites ==
    ASSUME RecordsInv, NEW p \in Phase, NEW ps \in SUBSET Phase, PhaseAdd(p, ps)
    PROVE  OneWrite
<1> DEFINE ns == P \cup {Rec(p, "pending")}
           as == A \cup {Arc("contains", ThePlan, p)} \cup Gates(p, ps)
<1>1. P \subseteq Records /\ A \subseteq Arcs
  BY PlanTyped
<1>2. Rec(p, "pending") \in Records /\ p \notin Num
  BY IdentitiesApart DEF Records
<1>3. Arc("contains", ThePlan, p) \in Arcs /\ Gates(p, ps) \subseteq Arcs
  BY DEF Arcs, Gates
<1>4. /\ as \in SUBSET Arcs
      /\ \A a \in Arcs : a.kind = "reviews" => (a \in as <=> a \in A)
      /\ \A x, y \in Phase : Arc("gates", x, y) \in as =>
             Arc("gates", x, y) \in A \/ (x = p /\ y \in ps)
  <2>1. as \in SUBSET Arcs
    BY <1>1, <1>3
  <2>2. \A a \in as \ A : a.kind = "contains" \/ (a.kind = "gates" /\ a.from = p /\ a.to \in ps)
    BY ArcFields
  <2> HIDE DEF as
  <2>3. A \subseteq as
    BY DEF as
  <2>4. ASSUME NEW x \in Phase, NEW y \in Phase, Arc("gates", x, y) \in as \ A
        PROVE  x = p /\ y \in ps
    <3>1. PICK a \in as \ A : a = Arc("gates", x, y)
      BY <2>4
    <3>2. a.kind = "gates" /\ a.from = x /\ a.to = y
      BY <3>1, ArcFields
    <3> QED BY <2>2, <3>2
  <2>5. \A a \in Arcs : a.kind = "reviews" => (a \in as <=> a \in A)
    BY <2>2, <2>3
  <2> QED BY <2>1, <2>3, <2>4, <2>5
<1> HIDE DEF as
<1>5. Kept("plans", ns, as) /\ Fqns(ns) = Fqns(P) \cup {p}
  <2>1. ns \in SUBSET Records
    BY <1>1, <1>2
  <2>2. Fqns(ns) = Fqns(P) \cup {p}
    BY RecordPut
  <2> HIDE DEF ns
  <2>3. Kept("plans", ns, as)
    BY <1>2, <1>4, <2>1, <2>2, RecordWritten
  <2> QED BY <2>2, <2>3
<1>6. \A t \in Task : t \in Fqns(ns) => phaseOf[t] \in Fqns(ns) /\ Arc("contains", phaseOf[t], t) \in as
  BY <1>5, IdentitiesApart DEF RecordsInv, TasksHavePhases, Present, as
<1>7. \A q \in ps : ~Closes(p, q)
  BY DEF PhaseAdd
<1>8. PlanKept(ns, as)
  BY <1>4, <1>6, <1>7, GuardedGates DEF PlanKept, RecordsInv
<1>9. Write(ns, as)
  BY DEF PhaseAdd, as
<1> QED BY <1>5, <1>8, <1>9, PlanWritten

LEMMA PhaseUpdateWrites ==
    ASSUME RecordsInv, NEW p \in Phase, NEW ps \in SUBSET Phase, PhaseUpdate(p, ps)
    PROVE  OneWrite
<1> DEFINE as == (A \ Out("gates", p)) \cup Gates(p, ps)
<1>1. P \subseteq Records /\ A \subseteq Arcs
  BY PlanTyped
<1>2. Gates(p, ps) \subseteq Arcs
  BY DEF Arcs, Gates
<1>3. /\ as \in SUBSET Arcs
      /\ \A a \in Arcs : a.kind = "reviews" => (a \in as <=> a \in A)
      /\ \A x, y \in Phase : Arc("gates", x, y) \in as =>
             Arc("gates", x, y) \in A \/ (x = p /\ y \in ps)
      /\ \A a \in A : a.kind = "contains" => a \in as
  <2>1. as \in SUBSET Arcs
    BY <1>1, <1>2
  <2>2. \A a \in as \ A : a.kind = "gates" /\ a.from = p /\ a.to \in ps
    BY ArcFields
  <2>3. \A a \in A \ as : a.kind = "gates"
    BY DEF Out
  <2> HIDE DEF as
  <2>4. ASSUME NEW x \in Phase, NEW y \in Phase, Arc("gates", x, y) \in as \ A
        PROVE  x = p /\ y \in ps
    <3>1. PICK a \in as \ A : a = Arc("gates", x, y)
      BY <2>4
    <3>2. a.kind = "gates" /\ a.from = x /\ a.to = y
      BY <3>1, ArcFields
    <3> QED BY <2>2, <3>2
  <2>5. \A a \in Arcs : a.kind = "reviews" => (a \in as <=> a \in A)
    BY <2>2, <2>3
  <2> QED BY <2>1, <2>3, <2>4, <2>5
<1> HIDE DEF as
<1>4. Kept("plans", P, as)
  BY <1>3, SameRecords
<1>5. \A t \in Task : t \in Fqns(P) => phaseOf[t] \in Fqns(P) /\ Arc("contains", phaseOf[t], t) \in as
  BY <1>3 DEF RecordsInv, TasksHavePhases, Present, Arc
<1>6. \A q \in ps : ~Closes(p, q)
  BY DEF PhaseUpdate
<1>7. PlanKept(P, as)
  BY <1>3, <1>5, <1>6, GuardedGates DEF PlanKept, RecordsInv
<1>8. Write(P, as)
  BY DEF PhaseUpdate, as
<1> QED BY <1>4, <1>7, <1>8, PlanWritten

\* The edges of a task's operations.
LEMMA OpsAreArcs ==
    ASSUME NEW t \in Task, NEW ops \in Ops(t)
    PROVE  ops \subseteq Arcs /\ \A a \in ops : a.kind \in Verbs
<1>1. \A a \in ops : \E v \in Verbs, c \in Code : a = Arc(v, t, c)
  BY DEF Ops
<1>2. \A v \in Verbs, c \in Code : Arc(v, t, c) \in Arcs
  BY DEF Arcs
<1> QED BY <1>1, <1>2, ArcFields

\* Writes that change no gate, no containment of a task and no feedback.
LEMMA ArcsChanged ==
    ASSUME RecordsInv, NEW as \in SUBSET Arcs,
           \A a \in as \ A : a.kind \notin {"gates", "reviews"},
           \A a \in A \ as : a.kind # "reviews"
    PROVE  /\ \A a \in Arcs : a.kind = "reviews" => (a \in as <=> a \in A)
           /\ \A ps \in (SUBSET Phase) \ {{}} :
                 \E p \in ps : \A q \in ps : Arc("gates", p, q) \notin as
<1>1. \A x, y \in Phase : Arc("gates", x, y) \in as => Arc("gates", x, y) \in A
  <2> SUFFICES ASSUME NEW x \in Phase, NEW y \in Phase, Arc("gates", x, y) \in as
               PROVE  Arc("gates", x, y) \in A
    OBVIOUS
  <2>1. PICK a \in as : a = Arc("gates", x, y)
    OBVIOUS
  <2>2. a.kind = "gates"
    BY <2>1, ArcFields
  <2> QED BY <2>1, <2>2
<1>2. \A ps \in (SUBSET Phase) \ {{}} :
         \E p \in ps : \A q \in ps : Arc("gates", p, q) \notin as
  BY <1>1, FewerGates DEF RecordsInv
<1> QED BY <1>2

LEMMA TaskAddWrites ==
    ASSUME RecordsInv, NEW t \in Task, NEW ops \in Ops(t), TaskAdd(t, ops)
    PROVE  OneWrite
<1> DEFINE ns == P \cup {Rec(t, "pending")}
           as == A \cup {Arc("contains", phaseOf[t], t)} \cup ops
<1>1. P \subseteq Records /\ A \subseteq Arcs
  BY PlanTyped
<1>2. Rec(t, "pending") \in Records /\ t \notin Num
  BY IdentitiesApart DEF Records
<1>3. Arc("contains", phaseOf[t], t) \in Arcs
  BY DEF Arcs
<1>4. /\ as \in SUBSET Arcs /\ A \subseteq as
      /\ \A a \in as \ A : a.kind \in {"contains"} \cup Verbs
  BY <1>1, <1>3, OpsAreArcs, ArcFields
<1>5. Arc("contains", phaseOf[t], t) \in as
  OBVIOUS
<1>6. Write(ns, as)
  BY DEF TaskAdd
<1> HIDE DEF as
<1>7. /\ \A a \in Arcs : a.kind = "reviews" => (a \in as <=> a \in A)
      /\ \A ps \in (SUBSET Phase) \ {{}} :
            \E p \in ps : \A q \in ps : Arc("gates", p, q) \notin as
  BY <1>4, ArcsChanged DEF Verbs
<1>8. Kept("plans", ns, as) /\ Fqns(ns) = Fqns(P) \cup {t}
  <2>1. ns \in SUBSET Records
    BY <1>1, <1>2
  <2>2. Fqns(ns) = Fqns(P) \cup {t}
    BY RecordPut
  <2> HIDE DEF ns
  <2>3. Kept("plans", ns, as)
    BY <1>2, <1>4, <1>7, <2>1, <2>2, RecordWritten
  <2> QED BY <2>2, <2>3
<1>9. \A u \in Task : u \in Fqns(ns) => phaseOf[u] \in Fqns(ns) /\ Arc("contains", phaseOf[u], u) \in as
  BY <1>4, <1>5, <1>8 DEF RecordsInv, TasksHavePhases, Present, TaskAdd
<1>10. PlanKept(ns, as)
  BY <1>7, <1>9 DEF PlanKept
<1> QED BY <1>6, <1>8, <1>10, PlanWritten

LEMMA TaskUpdateWrites ==
    ASSUME RecordsInv, NEW t \in Task, NEW ops \in Ops(t), TaskUpdate(t, ops)
    PROVE  OneWrite
<1> DEFINE as == (A \ UNION {Out(v, t) : v \in Verbs}) \cup ops
<1>1. P \subseteq Records /\ A \subseteq Arcs
  BY PlanTyped
<1>2. /\ as \in SUBSET Arcs
      /\ \A a \in as \ A : a.kind \in Verbs
  BY <1>1, OpsAreArcs
<1>3. \A a \in A \ as : a.kind \in Verbs
  BY DEF Out
<1>4. Write(P, as)
  BY DEF TaskUpdate
<1> HIDE DEF as
<1>5. /\ \A a \in Arcs : a.kind = "reviews" => (a \in as <=> a \in A)
      /\ \A ps \in (SUBSET Phase) \ {{}} :
            \E p \in ps : \A q \in ps : Arc("gates", p, q) \notin as
  BY <1>2, <1>3, ArcsChanged DEF Verbs
<1>6. Kept("plans", P, as)
  BY <1>2, <1>5, SameRecords
<1>7. ASSUME NEW u \in Task, u \in Fqns(P)
      PROVE  phaseOf[u] \in Fqns(P) /\ Arc("contains", phaseOf[u], u) \in as
  <2>1. PICK a \in A : a = Arc("contains", phaseOf[u], u) /\ phaseOf[u] \in Fqns(P)
    BY <1>7 DEF RecordsInv, TasksHavePhases, Present
  <2>2. a.kind = "contains"
    BY <2>1, ArcFields
  <2> QED BY <1>3, <2>1, <2>2 DEF Verbs
<1>8. PlanKept(P, as)
  BY <1>5, <1>7 DEF PlanKept
<1> QED BY <1>4, <1>6, <1>8, PlanWritten

\* The parent edge of a planned node.
LEMMA ParentsAreArcs ==
    ASSUME NEW c \in Code, NEW k \in Kind
    PROVE  Parents(c, k) \subseteq Arcs /\ \A a \in Parents(c, k) : a.kind = "contains"
<1>1. parentOf[k] \in Code \cup {NoParent}
  BY PlanAssumption
<1>2. CASE parentOf[k] = NoParent
  BY <1>2 DEF Parents
<1>3. CASE parentOf[k] \in Code
  <2>1. Arc("contains", parentOf[k], c) \in Arcs
    BY <1>3 DEF Arcs
  <2> QED BY <2>1, ArcFields DEF Parents
<1> QED BY <1>1, <1>2, <1>3

LEMMA PlannedAddWrites ==
    ASSUME RecordsInv, NEW c \in Code, NEW k \in Kind, PlannedAdd(c, k)
    PROVE  OneWrite
<1> DEFINE ns == P \cup {Rec(c, k)}
           as == A \cup Parents(c, k)
<1>1. P \subseteq Records /\ A \subseteq Arcs
  BY PlanTyped
<1>2. Rec(c, k) \in Records /\ c \notin Num
  BY IdentitiesApart DEF Records
<1>3. /\ as \in SUBSET Arcs /\ A \subseteq as
      /\ \A a \in as \ A : a.kind = "contains"
  BY <1>1, ParentsAreArcs
<1>4. Write(ns, as)
  BY DEF PlannedAdd
<1> HIDE DEF as
<1>5. /\ \A a \in Arcs : a.kind = "reviews" => (a \in as <=> a \in A)
      /\ \A ps \in (SUBSET Phase) \ {{}} :
            \E p \in ps : \A q \in ps : Arc("gates", p, q) \notin as
  BY <1>3, ArcsChanged
<1>6. Kept("plans", ns, as) /\ Fqns(ns) = Fqns(P) \cup {c}
  <2>1. ns \in SUBSET Records
    BY <1>1, <1>2
  <2>2. Fqns(ns) = Fqns(P) \cup {c}
    BY RecordPut
  <2> HIDE DEF ns
  <2>3. Kept("plans", ns, as)
    BY <1>2, <1>3, <1>5, <2>1, <2>2, RecordWritten
  <2> QED BY <2>2, <2>3
<1>7. PlanKept(ns, as)
  BY <1>3, <1>5, <1>6, IdentitiesApart DEF PlanKept, RecordsInv, TasksHavePhases, Present
<1> QED BY <1>4, <1>6, <1>7, PlanWritten

LEMMA PlannedUpdateWrites ==
    ASSUME RecordsInv, NEW c \in Code, NEW k \in Kind, PlannedUpdate(c, k)
    PROVE  OneWrite
<1> DEFINE ns == Change(c, k)
           as == {a \in A : ~(a.kind = "contains" /\ a.to = c)} \cup Parents(c, k)
<1>1. P \subseteq Records /\ A \subseteq Arcs
  BY PlanTyped
<1>2. Rec(c, k) \in Records /\ c \notin Num
  BY IdentitiesApart DEF Records
<1>3. /\ as \in SUBSET Arcs
      /\ \A a \in as \ A : a.kind = "contains"
      /\ \A a \in A \ as : a.kind = "contains" /\ a.to = c
  BY <1>1, ParentsAreArcs
<1>4. Write(ns, as)
  BY DEF PlannedUpdate
<1> HIDE DEF as
<1>5. /\ \A a \in Arcs : a.kind = "reviews" => (a \in as <=> a \in A)
      /\ \A ps \in (SUBSET Phase) \ {{}} :
            \E p \in ps : \A q \in ps : Arc("gates", p, q) \notin as
  BY <1>3, ArcsChanged
<1>6. Kept("plans", ns, as) /\ Fqns(ns) = Fqns(P) \cup {c}
  <2>1. ns \in SUBSET Records
    BY <1>1, <1>2 DEF Change
  <2>2. Fqns(ns) = Fqns(P) \cup {c}
    BY RecordPut DEF Change
  <2> HIDE DEF ns
  <2>3. Kept("plans", ns, as)
    BY <1>2, <1>3, <1>5, <2>1, <2>2, RecordWritten
  <2> QED BY <2>2, <2>3
<1>7. ASSUME NEW u \in Task, u \in Fqns(ns)
      PROVE  phaseOf[u] \in Fqns(ns) /\ Arc("contains", phaseOf[u], u) \in as
  <2>1. u # c
    BY IdentitiesApart
  <2>2. PICK a \in A : a = Arc("contains", phaseOf[u], u) /\ phaseOf[u] \in Fqns(P)
    BY <1>6, <1>7, <2>1 DEF RecordsInv, TasksHavePhases, Present
  <2>3. a.to = u
    BY <2>2, ArcFields
  <2> QED BY <1>3, <1>6, <2>1, <2>2, <2>3
<1>8. PlanKept(ns, as)
  BY <1>5, <1>7 DEF PlanKept
<1> QED BY <1>4, <1>6, <1>8, PlanWritten

\* done, undone and complete rewrite the record of a phase or task that is there.
LEMMA StatusWrites ==
    ASSUME RecordsInv, NEW f \in Phase \cup Task, NEW v \in {"pending", "done"},
           Present(f), Write(Change(f, v), A)
    PROVE  OneWrite
<1>1. P \subseteq Records /\ A \subseteq Arcs
  BY PlanTyped
<1>2. Rec(f, v) \in Records /\ f \notin Num
  BY IdentitiesApart DEF Records
<1> DEFINE ns == Change(f, v)
<1>3. Kept("plans", ns, A) /\ Fqns(ns) = Fqns(P)
  <2>1. ns \in SUBSET Records /\ A \in SUBSET Arcs
    BY <1>1, <1>2 DEF Change
  <2>2. Fqns(ns) = Fqns(P) \cup {f}
    BY RecordPut DEF Change
  <2> HIDE DEF ns
  <2>3. Kept("plans", ns, A)
    BY <1>2, <2>1, <2>2, RecordWritten
  <2> QED BY <2>2, <2>3 DEF Present
<1>4. PlanKept(ns, A)
  BY <1>3 DEF PlanKept, RecordsInv, TasksHavePhases, GatesAcyclic, Present
<1> QED BY <1>3, <1>4, PlanWritten

-----------------------------------------------------------------------------
(* The removals                                                              *)

\* What goes with a removed node leaves no task without its phase and takes no
\* feedback.
LEMMA CascadeWrites ==
    ASSUME RecordsInv, NEW gone \in SUBSET ({ThePlan} \cup Phase \cup Task \cup Code),
           \A t \in Task : Present(t) /\ phaseOf[t] \in gone => t \in gone,
           Cascade(gone)
    PROVE  OneWrite
<1> DEFINE left == {n \in P : n.fqn \notin gone}
           as   == Surviving(gone)
           keep == left # {} \/ as # {}
<1>1. P \subseteq Records /\ A \subseteq Arcs
  BY PlanTyped
<1>2. WriteThrough("plans", left, as, keep)
  BY DEF Cascade
<1>3. /\ left \subseteq Records
      /\ Fqns(left) = Fqns(P) \ gone
  BY <1>1 DEF Fqns
<1>4. /\ as \in SUBSET Arcs /\ as \subseteq A
      /\ \A a \in A : {a.from, a.to} \cap gone = {} => a \in as
      /\ \A a \in A \ as : a.kind = "reviews" => a.from \in gone
  BY <1>1 DEF Surviving
<1>5. Num \cap gone = {}
  BY IdentitiesApart
<1> HIDE DEF as, left
<1>6. Items(left) = Items(P)
  BY <1>3, <1>5 DEF Items
<1>7. \A a \in A \ as : a.kind # "reviews"
  BY <1>1, <1>4, <1>5, ArcsName
<1>8. /\ \A a \in Arcs : a.kind = "reviews" => (a \in as <=> a \in A)
      /\ \A ps \in (SUBSET Phase) \ {{}} :
            \E p \in ps : \A q \in ps : Arc("gates", p, q) \notin as
  BY <1>4, <1>7, ArcsChanged
<1>9. Kept("plans", left, as)
  BY <1>3, <1>4, <1>6, <1>7 DEF Kept, RecordsInv, NumbersApart, ReviewsHaveItems, P, A, File
<1>10. ASSUME NEW t \in Task, t \in Fqns(left)
       PROVE  phaseOf[t] \in Fqns(left) /\ Arc("contains", phaseOf[t], t) \in as
  <2>1. t \notin gone /\ phaseOf[t] \notin gone /\ phaseOf[t] \in Fqns(P)
    BY <1>3, <1>10 DEF RecordsInv, TasksHavePhases, Present
  <2>2. PICK a \in A : a = Arc("contains", phaseOf[t], t)
    BY <1>3, <1>10 DEF RecordsInv, TasksHavePhases, Present
  <2>3. a.from = phaseOf[t] /\ a.to = t
    BY <2>2, ArcFields
  <2> QED BY <1>3, <1>4, <2>1, <2>2, <2>3
<1>11. PlanKept(left, as)
  BY <1>8, <1>10 DEF PlanKept
<1>12. keep \in BOOLEAN /\ (~keep => left = {} /\ as = {})
  OBVIOUS
<1>13. WellMade("plans", left, as, keep) /\ "plans" \in File
  BY <1>9, <1>11, <1>12 DEF WellMade, File
<1> HIDE DEF keep
<1> QED BY <1>2, <1>13 DEF OneWrite

LEMMA RemovalWrites ==
    ASSUME RecordsInv, NEW force \in BOOLEAN,
           \/ RmPlan(force)
           \/ \E p \in Phase : RmPhase(p, force)
           \/ \E t \in Task : RmTask(t, force)
           \/ \E c \in Code : RmPlanned(c, force)
    PROVE  OneWrite
<1>1. CASE RmPlan(force)
  <2> DEFINE gone == {ThePlan} \cup (Fqns(P) \cap (Phase \cup Task \cup Code))
  <2>1. \A t \in Task : Present(t) => t \in gone
    BY DEF Present
  <2> QED BY <1>1, <2>1, CascadeWrites DEF RmPlan
<1>2. CASE \E p \in Phase : RmPhase(p, force)
  <2>1. PICK p \in Phase : RmPhase(p, force)
    BY <1>2
  <2> DEFINE gone == {p} \cup {t \in Task : phaseOf[t] = p /\ Present(t)}
  <2>2. \A t \in Task : Present(t) /\ phaseOf[t] \in gone => t \in gone
    BY PlanAssumption, IdentitiesApart
  <2> QED BY <2>1, <2>2, CascadeWrites DEF RmPhase
<1>3. CASE \E t \in Task : RmTask(t, force)
  <2>1. PICK t \in Task : RmTask(t, force)
    BY <1>3
  <2>2. \A u \in Task : phaseOf[u] \notin {t}
    BY PlanAssumption, IdentitiesApart
  <2> QED BY <2>1, <2>2, CascadeWrites DEF RmTask
<1>4. CASE \E c \in Code : RmPlanned(c, force)
  <2>1. PICK c \in Code : RmPlanned(c, force)
    BY <1>4
  <2>2. \A u \in Task : phaseOf[u] \notin {c}
    BY PlanAssumption, IdentitiesApart
  <2> QED BY <2>1, <2>2, CascadeWrites DEF RmPlanned
<1> QED BY <1>1, <1>2, <1>3, <1>4

-----------------------------------------------------------------------------
(* Feedback                                                                  *)

\* A file whose records change in one item of feedback.
LEMMA ItemWrites ==
    ASSUME RecordsInv, NEW f \in File, NEW n \in Num,
           NEW ns \in SUBSET Records, Fqns(ns) = Fqns(nodes[f]) \cup {n},
           \A g \in File \ {f} : n \notin Items(nodes[g]),
           NEW as \in SUBSET Arcs, arcs[f] \subseteq as,
           \A a \in as \ arcs[f] : a.kind = "reviews" /\ a.from = n,
           NEW keep \in BOOLEAN, f = "plans" => keep, f = "mirror" => keep = planFile,
           WriteThrough(f, ns, as, keep)
    PROVE  OneWrite
<1>1. nodes[f] \subseteq Records /\ arcs[f] \subseteq Arcs
  BY DEF RecordsInv, TypeOK
<1>4. Items(ns) = Items(nodes[f]) \cup {n}
  BY DEF Items
<1>5. f \in {"plans", "mirror"}
  BY DEF File
<1>6. \A g \in File \ {f} : Items(ns) \cap Items(nodes[g]) = {}
  BY <1>4, <1>5 DEF RecordsInv, NumbersApart, File
<1>7. Kept(f, ns, as)
  BY <1>4, <1>6 DEF Kept, RecordsInv, ReviewsHaveItems
<1>8. CASE f = "plans"
  <2>1. nodes[f] = P /\ arcs[f] = A
    BY <1>8 DEF P, A
  <2>2. \A t \in Task : t \in Fqns(ns) =>
           phaseOf[t] \in Fqns(ns) /\ Arc("contains", phaseOf[t], t) \in as
    BY <2>1, IdentitiesApart DEF RecordsInv, TasksHavePhases, Present
  <2>3. ASSUME NEW x \in Phase, NEW y \in Phase, Arc("gates", x, y) \in as
        PROVE  Arc("gates", x, y) \in A
    <3>1. PICK a \in as : a = Arc("gates", x, y)
      BY <2>3
    <3>2. a.kind = "gates"
      BY <3>1, ArcFields
    <3> QED BY <2>1, <3>1, <3>2
  <2>4. PlanKept(ns, as)
    BY <2>2, <2>3, FewerGates DEF PlanKept, RecordsInv
  <2> QED BY <1>7, <1>8, <2>4 DEF OneWrite, WellMade
<1>9. CASE f = "mirror"
  <2>1. Fqns(ns) \subseteq Num
    BY <1>9 DEF RecordsInv, MirrorsHoldFeedback
  <2> QED BY <1>7, <1>9, <2>1 DEF OneWrite, WellMade
<1> QED BY <1>5, <1>8, <1>9

LEMMA FeedbackAddWrites ==
    ASSUME RecordsInv, NEW x \in Reviewable, FeedbackAdd(x)
    PROVE  OneWrite
<1> DEFINE f == IF x \in {ThePlan} \cup Phase \cup Task THEN "plans" ELSE "mirror"
           n == NextNumber(f)
           ns == nodes[f] \cup {Rec(n, "open")}
           as == arcs[f] \cup {Arc("reviews", n, x)}
           keep == planFile \/ f = "plans"
<1>1. WriteThrough(f, ns, as, keep) /\ n <= MaxFeedback
  BY DEF FeedbackAdd
<1>2. f \in File /\ planFile \in BOOLEAN /\ TypeOK
  BY DEF RecordsInv, TypeOK, File
<1>3. n \in Num /\ n \notin Items(AllNodes)
  BY <1>1, <1>2, NumberIsNew
<1>4. \A g \in File \ {f} : n \notin Items(nodes[g])
  BY <1>3 DEF Items, Fqns, AllNodes
<1>5. keep \in BOOLEAN /\ (f = "plans" => keep) /\ (f = "mirror" => keep = planFile)
  BY <1>2
<1>6. /\ as \in SUBSET Arcs /\ arcs[f] \subseteq as
      /\ \A a \in as \ arcs[f] : a.kind = "reviews" /\ a.from = n
  <2>1. Arc("reviews", n, x) \in Arcs
    BY <1>3 DEF Arcs
  <2>2. arcs[f] \subseteq Arcs
    BY <1>2 DEF TypeOK
  <2> HIDE DEF f, n
  <2> QED BY <2>1, <2>2, ArcFields
<1>7. ns \in SUBSET Records /\ Fqns(ns) = Fqns(nodes[f]) \cup {n}
  <2>1. Rec(n, "open") \in Records
    BY <1>3 DEF Records, Review
  <2>2. nodes[f] \subseteq Records
    BY <1>2 DEF TypeOK
  <2> HIDE DEF f, n
  <2> QED BY <2>1, <2>2, RecordPut
<1> HIDE DEF f, n, ns, as, keep
<1> QED BY <1>1, <1>2, <1>3, <1>4, <1>5, <1>6, <1>7, ItemWrites

LEMMA FeedbackSetWrites ==
    ASSUME RecordsInv, NEW n \in Num, NEW s \in Review, FeedbackSet(n, s)
    PROVE  OneWrite
<1>1. PICK f \in File :
        /\ n \in Items(nodes[f])
        /\ WriteThrough(f, {r \in nodes[f] : r.fqn # n} \cup {Rec(n, s)}, arcs[f], planFile)
  BY DEF FeedbackSet
<1> DEFINE ns == {r \in nodes[f] : r.fqn # n} \cup {Rec(n, s)}
<1>2. planFile \in BOOLEAN /\ arcs[f] \in SUBSET Arcs
  BY DEF RecordsInv, TypeOK
<1>3. \A g \in File \ {f} : n \notin Items(nodes[g])
  BY <1>1 DEF RecordsInv, NumbersApart, File
<1>4. f = "plans" => planFile
  BY <1>1 DEF RecordsInv, NoFileNoRecords, P, Items, Fqns
<1>5. ns \in SUBSET Records /\ Fqns(ns) = Fqns(nodes[f]) \cup {n}
  <2>1. Rec(n, s) \in Records
    BY DEF Records
  <2>2. nodes[f] \subseteq Records
    BY DEF RecordsInv, TypeOK
  <2> QED BY <2>1, <2>2, RecordPut
<1>6. WriteThrough(f, ns, arcs[f], planFile)
  BY <1>1
<1> HIDE DEF ns
<1> QED BY <1>2, <1>3, <1>4, <1>5, <1>6, ItemWrites

-----------------------------------------------------------------------------
(* The records, whatever is done and however it is cut short                *)

\* The steps that write no file.
Aside ==
    \/ \E c \in Code : EditCode(c) \/ SessionClaims(c)
    \/ Scan
    \/ UNCHANGED vars

\* Every command that changes the plan or its feedback is one write.
LEMMA CommandWrites ==
    ASSUME RecordsInv, Next PROVE OneWrite \/ Aside
<1>1. CASE \E p \in Phase, ps \in SUBSET Phase : PhaseAdd(p, ps) \/ PhaseUpdate(p, ps)
  BY <1>1, PhaseAddWrites, PhaseUpdateWrites
<1>2. CASE \E t \in Task : \E ops \in Ops(t) : TaskAdd(t, ops) \/ TaskUpdate(t, ops)
  BY <1>2, TaskAddWrites, TaskUpdateWrites
<1>3. CASE \E c \in Code, k \in Kind : PlannedAdd(c, k) \/ PlannedUpdate(c, k)
  BY <1>3, PlannedAddWrites, PlannedUpdateWrites
<1>4. CASE \E t \in Task : Done(t) \/ Undone(t)
  BY <1>4, StatusWrites DEF Done, Undone
<1>5. CASE \E p \in Phase : Complete(p)
  BY <1>5, StatusWrites DEF Complete
<1>6. CASE \E force \in BOOLEAN :
             \/ RmPlan(force)
             \/ \E p \in Phase : RmPhase(p, force)
             \/ \E t \in Task : RmTask(t, force)
             \/ \E c \in Code : RmPlanned(c, force)
  BY <1>6, RemovalWrites
<1>7. CASE \E x \in Reviewable : FeedbackAdd(x)
  BY <1>7, FeedbackAddWrites
<1>8. CASE \E n \in Num, s \in Review : FeedbackSet(n, s)
  BY <1>8, FeedbackSetWrites
<1> QED BY <1>1, <1>2, <1>3, <1>4, <1>5, <1>6, <1>7, <1>8, PlanAddWrites DEF Next, Aside

LEMMA AsideKeeps ==
    ASSUME RecordsInv, Aside PROVE RecordsInv' /\ FeedbackKept
<1>1. UNCHANGED files
  BY DEF Aside, EditCode, SessionClaims, Scan, vars
<1>2. nodes' = nodes /\ arcs' = arcs /\ planFile' = planFile
  BY <1>1 DEF files
<1>3. FeedbackKept
  BY <1>2 DEF FeedbackKept, RecordsInv, NumbersApart, ReviewsHaveItems
<1>4. P' = P /\ A' = A
  BY <1>2 DEF P, A
<1>5. /\ NoFileNoRecords' /\ MirrorsHoldFeedback' /\ NumbersApart' /\ ReviewsHaveItems'
      /\ TasksHavePhases' /\ GatesAcyclic'
  BY <1>2, <1>4 DEF RecordsInv, NoFileNoRecords, MirrorsHoldFeedback, NumbersApart,
       ReviewsHaveItems, TasksHavePhases, GatesAcyclic, Present
<1>6. TypeOK'
  <2>1. TypeOK
    BY DEF RecordsInv
  <2>2. CASE \E c \in Code : EditCode(c)
    BY <1>2, <2>1, <2>2 DEF EditCode, TypeOK, db
  <2>3. CASE \E c \in Code : SessionClaims(c)
    <3>1. PICK c \in Code : SessionClaims(c)
      BY <2>3
    <3>2. claims' \subseteq Code /\ links' \subseteq Arcs \cup Claims(Code)
      BY <2>1, <3>1 DEF SessionClaims, TypeOK, Claims
    <3>3. recorded' \in [code : SUBSET Code, claims : SUBSET Code]
      BY <2>1, <3>1, <3>2 DEF SessionClaims, TypeOK
    <3> QED BY <1>2, <2>1, <3>1, <3>2, <3>3 DEF SessionClaims, TypeOK
  <2>4. CASE Scan
    <3>1. rows' \subseteq Records /\ real' \subseteq Code
      BY <2>1, <2>4 DEF Scan, TypeOK, LoadedRows, AllNodes
    <3>2. links' \subseteq Arcs \cup Claims(Code)
      BY <2>1, <2>4 DEF Scan, TypeOK, LoadedLinks, Resolved, AllArcs, Claims
    <3> QED BY <1>2, <2>1, <2>4, <3>1, <3>2 DEF Scan, TypeOK, tree
  <2>5. CASE UNCHANGED vars
    BY <2>1, <2>5 DEF vars, files, tree, db, TypeOK
  <2> QED BY <2>2, <2>3, <2>4, <2>5 DEF Aside
<1> QED BY <1>3, <1>5, <1>6 DEF RecordsInv

LEMMA RecordsStep ==
    ASSUME RecordsInv, [Next]_vars PROVE RecordsInv' /\ FeedbackKept
<1>1. OneWrite \/ Aside
  BY CommandWrites DEF Aside
<1>2. CASE OneWrite
  BY <1>2, WrittenKeeps DEF OneWrite
<1> QED BY <1>1, <1>2, AsideKeeps

LEMMA InitRecords == Init => RecordsInv
<1> SUFFICES ASSUME Init PROVE RecordsInv
  OBVIOUS
<1>1. \A f \in File : nodes[f] = {} /\ arcs[f] = {}
  BY DEF Init
<1>2. P = {} /\ A = {} /\ nodes["mirror"] = {} /\ nodes["plans"] = {}
  BY <1>1 DEF P, A, File
<1>3. TypeOK
  BY PlanAssumption DEF Init, TypeOK, Claims
<1>4. NoFileNoRecords /\ MirrorsHoldFeedback /\ NumbersApart /\ ReviewsHaveItems
  BY <1>1, <1>2 DEF NoFileNoRecords, MirrorsHoldFeedback, NumbersApart, ReviewsHaveItems, Items, Fqns
<1>5. TasksHavePhases /\ GatesAcyclic
  BY <1>2 DEF TasksHavePhases, GatesAcyclic, Present, Fqns
<1> QED BY <1>3, <1>4, <1>5 DEF RecordsInv

\* The strengthening is an invariant of every run, cut commands included.
THEOREM RecordsInvariant == Spec => []RecordsInv
<1>1. RecordsInv /\ [Next]_vars => RecordsInv'
  BY RecordsStep
<1> QED BY InitRecords, <1>1, PTL DEF Spec

\* Each file holds records and edges of its vocabulary, and the database rows
\* made of them, after every plan and review command (plan_cmd, review_cmd).
THEOREM TypeCorrect == Spec => []TypeOK
<1>1. RecordsInv => TypeOK
  BY DEF RecordsInv
<1> QED BY RecordsInvariant, <1>1, PTL

\* No sequence of phase add and phase update closes a cycle of gates: the
\* search of cycle_closing_path, made before each new gate, is enough.
THEOREM GatesStayAcyclic == Spec => []GatesAcyclic
<1>1. RecordsInv => GatesAcyclic
  BY DEF RecordsInv
<1> QED BY RecordsInvariant, <1>1, PTL

\* No removal, forced or not, leaves a task in the plan without its phase.
THEOREM TasksStayInPhases == Spec => []TasksHavePhases
<1>1. RecordsInv => TasksHavePhases
  BY DEF RecordsInv
<1> QED BY RecordsInvariant, <1>1, PTL

\* Feedback outlives what it reviews: no command takes an item or its reviews
\* edge away, and no two files give out the same number.
THEOREM FeedbackIsKept == Spec => ReviewsPersist
<1>1. RecordsInv /\ [Next]_vars =>
        [/\ Items(nodes'["plans"]) \cap Items(nodes'["mirror"]) = {}
         /\ \A f \in File : \A a \in arcs[f] :
              a.kind = "reviews" => a \in arcs'[f] /\ a.from \in Items(nodes'[f])]_vars
  BY RecordsStep DEF FeedbackKept
<1> QED BY RecordsInvariant, <1>1, PTL DEF Spec, ReviewsPersist

-----------------------------------------------------------------------------
(* The database, where no command is cut between its file and its           *)
(* projection.                                                               *)

\* The identities an edge may end at.
Known == Fqns(AllNodes) \cup real

\* The rows are the records that code has not replaced.
RowsAreRecords ==
    real = recorded.code /\ rows = {n \in AllNodes : n.fqn \notin real}

\* The authored and transient edges are those of the files the database was
\* made from; only a claim on code that is planned may be missing.
NoOtherLinks ==
    Authored(links) \subseteq Authored(Resolved(AllArcs \cup Claims(recorded.claims), Known))
LinksAreThere ==
    Authored(Resolved(AllArcs, Known)) \cup Claims(recorded.claims \cap real) \subseteq links

DbInv == RecordsInv /\ RowsAreRecords /\ NoOtherLinks /\ LinksAreThere

LEMMA ClaimFields ==
    ASSUME NEW cs
    PROVE  \A l \in Claims(cs) :
             /\ l.kind = "implemented-by" /\ l.from = component /\ l.to \in cs
             /\ \A ds : l.to \in ds => l \in Claims(ds)
<1> TAKE l \in Claims(cs)
<1>1. PICK c \in cs : l = Arc("implemented-by", component, c)
  BY DEF Claims
<1>2. l.kind = "implemented-by" /\ l.from = component /\ l.to = c
  BY <1>1, ArcFields
<1> QED BY <1>1, <1>2 DEF Claims

\* What the rows name.
LEMMA RowNames ==
    ASSUME DbInv
    PROVE  /\ \A e : e \in Fqns(rows) <=> e \in Fqns(AllNodes) /\ e \notin real
           /\ Known = Fqns(rows) \cup real
           /\ Fqns(rows) \cap Durable = {} /\ real \subseteq Code
           /\ Placeholders = Planned \ real
<1>1. rows \subseteq Records /\ real \subseteq Code
  BY DEF DbInv, RecordsInv, TypeOK
<1>2. \A e : e \in Fqns(rows) <=> e \in Fqns(AllNodes) /\ e \notin real
  BY DEF DbInv, RowsAreRecords, Fqns
<1>3. Fqns(rows) \cap Durable = {}
  BY <1>1, RecordsName, IdentitiesApart DEF Fqns
<1> QED BY <1>1, <1>2, <1>3 DEF Known, Placeholders, Planned

\* A projection leaves the rows the records of the new files.
LEMMA ProjectedRows ==
    ASSUME DbInv, NEW ns, NEW as, Project(ns, as)
    PROVE  /\ rows' = {n \in ns : n.fqn \notin real}
           /\ Fqns(rows') \cup real = Fqns(ns) \cup real
<1>1. \A r \in rows : r.fqn \notin Delta(ns, as) => r \in Merge(ns)
  BY DEF DbInv, RowsAreRecords, Delta, Merge, Fqns
<1>2. rows' = Merge(ns)
  BY <1>1 DEF Project
<1> QED BY <1>2 DEF Merge, Fqns

\* And the edges those of the new files: an edge whose end goes is detached
\* with it, one that goes alone takes its source through the delta.
LEMMA ProjectedLinks ==
    ASSUME DbInv, NEW ns, NEW as \in SUBSET Arcs, Project(ns, as)
    PROVE  /\ Authored(links') \subseteq
                 Authored(Resolved(as \cup Claims(recorded.claims), Fqns(ns) \cup real))
           /\ Authored(Resolved(as, Fqns(ns) \cup real)) \cup Claims(recorded.claims \cap real)
                 \subseteq links'
<1> DEFINE detached == Delta(ns, as) \cap Fqns(rows)
           known == Fqns(ns) \cup real
<1>1. links' = {l \in links : {l.from, l.to} \cap detached = {}} \cup Resolved(as, known)
  <2>1. Fqns(rows') \cup real = known
    BY ProjectedRows
  <2> QED BY <2>1 DEF Project
<1>2. \A e \in Fqns(AllNodes) : e \notin Fqns(ns) => e \in Delta(ns, as)
  BY DEF Delta, Fqns
<1>3. ASSUME NEW l \in links, l.from \notin Code, {l.from, l.to} \cap detached = {}
      PROVE  l \in Resolved(as \cup Claims(recorded.claims), known)
  <2>1. /\ l \in AllArcs \cup Claims(recorded.claims)
        /\ {l.from, l.to} \subseteq Known \cup Durable
    BY <1>3 DEF DbInv, NoOtherLinks, Authored, Resolved
  <2>2. \A e \in {l.from, l.to} : e \in known \cup Durable
    BY <1>2, <1>3, <2>1, RowNames DEF Known
  <2>3. ASSUME l \in AllArcs \ as PROVE FALSE
    <3>1. l \in Arcs
      BY <2>3 DEF DbInv, RecordsInv, TypeOK, AllArcs
    <3>2. l.from \notin Durable
      BY <3>1, ArcsName, IdentitiesApart
    <3>3. l.from \in Fqns(AllNodes) /\ l.from \in Fqns(rows)
      BY <1>3, <2>1, <3>2, RowNames
    <3>4. l.from \in Delta(ns, as)
      BY <1>2, <2>3, <3>3 DEF Delta
    <3> QED BY <1>3, <3>3, <3>4
  <2> QED BY <2>1, <2>2, <2>3 DEF Resolved
<1>4. \A l \in Claims(recorded.claims \cap real) : {l.from, l.to} \cap Fqns(rows) = {}
  BY ClaimFields, RowNames, PlanAssumption
<1> HIDE DEF detached, known
<1>5. Claims(recorded.claims \cap real) \subseteq links'
  BY <1>1, <1>4 DEF DbInv, LinksAreThere, detached
<1>6. Authored(Resolved(as, known)) \subseteq links'
  BY <1>1 DEF Authored
<1>7. ASSUME NEW l \in links', l.from \notin Code
      PROVE  l \in Resolved(as \cup Claims(recorded.claims), known)
  BY <1>1, <1>3, <1>7 DEF Resolved
<1> QED BY <1>5, <1>6, <1>7 DEF Authored, known

LEMMA WriteMaintains ==
    ASSUME DbInv, RecordsInv', ~ProjectionMayBeCut,
           NEW f \in File, NEW ns, NEW as, NEW keep, WriteThrough(f, ns, as, keep)
    PROVE  DbInv'
<1>1. /\ nodes' = [nodes EXCEPT ![f] = ns] /\ arcs' = [arcs EXCEPT ![f] = as]
      /\ Project(UNION {IF g = f THEN ns ELSE nodes[g] : g \in File},
                 UNION {IF g = f THEN as ELSE arcs[g] : g \in File})
  BY DEF WriteThrough
<1>2. nodes \in [File -> SUBSET Records] /\ arcs \in [File -> SUBSET Arcs]
  BY DEF DbInv, RecordsInv, TypeOK
<1>3. /\ AllNodes' = UNION {IF g = f THEN ns ELSE nodes[g] : g \in File}
      /\ AllArcs' = UNION {IF g = f THEN as ELSE arcs[g] : g \in File}
  BY <1>1, <1>2 DEF AllNodes, AllArcs
<1>4. Project(AllNodes', AllArcs') /\ UNCHANGED <<real, recorded>>
  BY <1>1, <1>3 DEF Project
<1>5. AllArcs' \in SUBSET Arcs
  BY DEF RecordsInv, TypeOK, AllArcs
<1>6. RowsAreRecords'
  BY <1>4, ProjectedRows DEF RowsAreRecords, DbInv
<1>7. NoOtherLinks' /\ LinksAreThere'
  BY <1>4, <1>5, ProjectedLinks DEF NoOtherLinks, LinksAreThere, Known
<1> QED BY <1>6, <1>7 DEF DbInv

LEMMA ClaimsMaintain ==
    ASSUME DbInv, RecordsInv', NEW c \in Code, SessionClaims(c)
    PROVE  DbInv'
<1>1. /\ UNCHANGED <<nodes, arcs, rows, real>> /\ recorded.claims = claims
      /\ recorded'.claims = claims' /\ recorded'.code = recorded.code
      /\ claims' = (claims \ {c}) \cup ({c} \ claims)
      /\ links' = (links \ Claims({c})) \cup Claims({c} \ claims)
      /\ c \in claims \/ c \in real \cup Placeholders
  BY DEF SessionClaims, Fresh, files, DbInv, RecordsInv, TypeOK
<1>2. AllNodes' = AllNodes /\ AllArcs' = AllArcs /\ Known' = Known
  BY <1>1 DEF AllNodes, AllArcs, Known
<1>3. AllArcs \subseteq Arcs
  BY DEF DbInv, RecordsInv, TypeOK, AllArcs
<1>4. RowsAreRecords'
  BY <1>1, <1>2 DEF DbInv, RowsAreRecords
<1>5. c \notin claims => c \in Known
  BY <1>1, RowNames DEF Placeholders
<1>6. ASSUME NEW l \in links', l.from \notin Code
      PROVE  l \in Resolved(AllArcs \cup Claims(claims'), Known)
  <2>1. CASE l \in links \ Claims({c})
    <3>1. l \in Resolved(AllArcs \cup Claims(claims), Known)
      BY <1>1, <1>6, <2>1 DEF DbInv, NoOtherLinks, Authored
    <3>2. CASE l \in Claims(claims)
      <4>1. l.to \in claims /\ l.to # c
        BY <2>1, <3>2, ClaimFields
      <4>2. l \in Claims(claims')
        BY <1>1, <3>2, <4>1, ClaimFields
      <4> QED BY <3>1, <4>2 DEF Resolved
    <3> QED BY <3>1, <3>2 DEF Resolved
  <2>2. CASE l \in Claims({c} \ claims)
    <3>1. l.from = component /\ l.to = c /\ c \notin claims /\ l \in Claims(claims')
      BY <1>1, <2>2, ClaimFields
    <3> QED BY <1>5, <3>1, PlanAssumption DEF Resolved
  <2> QED BY <1>1, <1>6, <2>1, <2>2
<1>7. Authored(Resolved(AllArcs, Known)) \subseteq links'
  <2> SUFFICES ASSUME NEW l \in Authored(Resolved(AllArcs, Known)) PROVE l \in links'
    OBVIOUS
  <2>1. l \in links /\ l \in Arcs
    BY <1>3 DEF DbInv, LinksAreThere, Authored, Resolved
  <2>2. l \notin Claims({c})
    BY <2>1, ArcsName, ClaimFields
  <2> QED BY <1>1, <2>1, <2>2
<1>8. Claims(claims' \cap real) \subseteq links'
  <2> SUFFICES ASSUME NEW l \in Claims(claims' \cap real) PROVE l \in links'
    OBVIOUS
  <2>1. l.to \in claims' /\ l.to \in real
    BY ClaimFields
  <2>2. CASE l.to = c
    <3>1. c \notin claims
      BY <1>1, <2>1, <2>2
    <3>2. l \in Claims({c} \ claims)
      BY <2>2, <3>1, ClaimFields
    <3> QED BY <1>1, <3>2
  <2>3. CASE l.to # c
    <3>1. l \in Claims(claims \cap real) /\ l \notin Claims({c})
      BY <1>1, <2>1, <2>3, ClaimFields
    <3> QED BY <1>1, <3>1 DEF DbInv, LinksAreThere
  <2> QED BY <2>2, <2>3
<1>9. NoOtherLinks'
  BY <1>1, <1>2, <1>6 DEF NoOtherLinks, Authored
<1>10. LinksAreThere'
  BY <1>1, <1>2, <1>7, <1>8 DEF LinksAreThere
<1> QED BY <1>4, <1>9, <1>10 DEF DbInv

LEMMA ScanMaintains ==
    ASSUME DbInv, RecordsInv', Scan
    PROVE  DbInv'
<1>1. /\ UNCHANGED <<nodes, arcs>> /\ real' = code
      /\ recorded'.code = code /\ recorded'.claims = claims
      /\ rows' = {n \in AllNodes : n.fqn \notin code}
      /\ links' = Resolved(AllArcs \cup Claims(claims), Fqns(AllNodes) \cup code)
  BY DEF Scan, files, LoadedRows, LoadedLinks
<1>2. AllNodes' = AllNodes /\ AllArcs' = AllArcs /\ Known' = Fqns(AllNodes) \cup code
  BY <1>1 DEF AllNodes, AllArcs, Known
<1>3. RowsAreRecords' /\ NoOtherLinks'
  BY <1>1, <1>2 DEF RowsAreRecords, NoOtherLinks
<1>4. Claims(claims \cap code) \subseteq links'
  <2> SUFFICES ASSUME NEW l \in Claims(claims \cap code) PROVE l \in links'
    OBVIOUS
  <2>1. l.from = component /\ l.to \in code /\ l \in Claims(claims)
    BY ClaimFields
  <2> QED BY <1>1, <2>1, PlanAssumption DEF Resolved
<1>5. Authored(Resolved(AllArcs, Known')) \subseteq links'
  BY <1>1, <1>2 DEF Authored, Resolved
<1>6. LinksAreThere'
  BY <1>1, <1>2, <1>4, <1>5 DEF LinksAreThere
<1> QED BY <1>3, <1>6 DEF DbInv

LEMMA DbStep ==
    ASSUME DbInv, ~ProjectionMayBeCut, [Next]_vars PROVE DbInv'
<1>1. RecordsInv /\ RecordsInv'
  BY RecordsStep DEF DbInv
<1>2. OneWrite \/ Aside
  BY <1>1, CommandWrites DEF Aside
<1>3. CASE OneWrite
  BY <1>1, <1>3, WriteMaintains DEF OneWrite
<1>4. CASE \E c \in Code : SessionClaims(c)
  BY <1>1, <1>4, ClaimsMaintain
<1>5. CASE Scan
  BY <1>1, <1>5, ScanMaintains
<1>6. CASE (\E c \in Code : EditCode(c)) \/ UNCHANGED vars
  <2>1. UNCHANGED <<nodes, arcs, rows, real, links, recorded>>
    BY <1>6 DEF EditCode, vars, files, db
  <2>2. UNCHANGED <<AllNodes, AllArcs, Known>>
    BY <2>1 DEF AllNodes, AllArcs, Known
  <2> QED BY <1>1, <2>1, <2>2 DEF DbInv, RowsAreRecords, NoOtherLinks, LinksAreThere
<1> QED BY <1>2, <1>3, <1>4, <1>5, <1>6 DEF Aside

LEMMA InitDb == Init => DbInv
<1> SUFFICES ASSUME Init PROVE DbInv
  OBVIOUS
<1>1. /\ AllNodes = {} /\ AllArcs = {} /\ real = code /\ claims \subseteq code
      /\ recorded.code = code /\ recorded.claims = claims
      /\ rows = {} /\ links = Claims(claims)
  BY DEF Init, AllNodes, AllArcs
<1>2. RowsAreRecords
  BY <1>1 DEF RowsAreRecords
<1>3. Claims(claims) \subseteq Resolved(Claims(claims), Known)
  <2> SUFFICES ASSUME NEW l \in Claims(claims) PROVE l \in Resolved(Claims(claims), Known)
    OBVIOUS
  <2>1. l.from = component /\ l.to \in real
    BY <1>1, ClaimFields
  <2> QED BY <2>1, PlanAssumption DEF Resolved, Known
<1>4. NoOtherLinks
  BY <1>1, <1>3 DEF NoOtherLinks, Authored
<1>5. LinksAreThere
  BY <1>1, ClaimFields DEF LinksAreThere, Authored, Resolved
<1> QED BY <1>2, <1>4, <1>5, InitRecords DEF DbInv

THEOREM DbInvariant ==
    ASSUME ~ProjectionMayBeCut PROVE Spec => []DbInv
<1>1. DbInv /\ [Next]_vars => DbInv'
  BY DbStep
<1> QED BY InitDb, <1>1, PTL DEF Spec

\* A fresh database has the placeholders of the plan and the code of the
\* checkout, exactly, after any commands (transient_delta, merge_records).
THEOREM PlaceholdersExact ==
    ASSUME ~ProjectionMayBeCut PROVE Spec => []FreshPlaceholdersAreThePlans
<1>1. DbInv => FreshPlaceholdersAreThePlans
  <2> SUFFICES ASSUME DbInv, Fresh
               PROVE  real = code /\ {r \in rows : r.fqn \in Code} = {r \in LoadedRows : r.fqn \in Code}
    BY DEF FreshPlaceholdersAreThePlans
  <2>1. real = code
    BY DEF DbInv, RowsAreRecords, Fresh
  <2> QED BY <2>1 DEF DbInv, RowsAreRecords, LoadedRows
<1> QED BY DbInvariant, <1>1, PTL

\* What passes plan verify is built: the code is there that was planned, and
\* the code the claims name.
THEOREM VerifiedStands ==
    ASSUME ~ProjectionMayBeCut PROVE Spec => []VerifiedIsBuilt
<1>1. DbInv => VerifiedIsBuilt
  <2> SUFFICES ASSUME DbInv, VerifyPasses PROVE Planned \cup claims \subseteq code
    BY DEF VerifiedIsBuilt
  <2>1. real = code /\ claims \subseteq real \cup Placeholders
    BY DEF DbInv, RowsAreRecords, VerifyPasses, Fresh
  <2>2. Planned = Fqns(P) \cap Code
    <3>1. Fqns(AllNodes) = Fqns(P) \cup Fqns(nodes["mirror"])
      BY AllOf DEF Fqns, P
    <3>2. Fqns(nodes["mirror"]) \cap Code = {}
      BY IdentitiesApart DEF DbInv, RecordsInv, MirrorsHoldFeedback
    <3> QED BY <3>1, <3>2 DEF Planned
  <2>3. Planned \subseteq real
    BY <2>2 DEF VerifyPasses
  <2> QED BY <2>1, <2>3, RowNames
<1> QED BY DbInvariant, <1>1, PTL

\* Nothing edited since the database was made, and no claim on code still
\* planned: no command of the plan or of review asks for a scan.
THEOREM StaysFresh ==
    ASSUME ~ProjectionMayBeCut PROVE Spec => []StaysFreshUnlessClaimed
<1>1. DbInv => StaysFreshUnlessClaimed
  <2> SUFFICES ASSUME DbInv, recorded = [code |-> code, claims |-> claims], claims \subseteq real
               PROVE  Fresh
    BY DEF StaysFreshUnlessClaimed
  <2> DEFINE known == real \cup Placeholders
             loaded == AllArcs \cup Claims(claims)
  <2>1. recorded.claims = claims /\ recorded.code = code
    OBVIOUS
  <2>2. Fqns(AllNodes) \cup known = Known
    BY RowNames DEF Known, Planned
  <2>3. {r \in rows : r.fqn \notin Code} = {n \in AllNodes : n.fqn \notin Code}
    BY RowNames DEF DbInv, RowsAreRecords
  <2>4. Authored(links) \subseteq Authored(Resolved(loaded, Known))
    BY <2>1 DEF DbInv, NoOtherLinks
  <2>5. claims \cap real = claims
    OBVIOUS
  <2>6. Authored(Resolved(loaded, Known)) \subseteq Authored(links)
    BY <2>1, <2>5 DEF DbInv, LinksAreThere, Authored, Resolved
  <2>7. Authored(links) = Authored(Resolved(loaded, Fqns(AllNodes) \cup known))
    BY <2>2, <2>4, <2>6
  <2> QED BY <2>3, <2>7 DEF Fresh
<1> QED BY DbInvariant, <1>1, PTL
=============================================================================
