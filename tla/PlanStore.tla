------------------------------ MODULE PlanStore ------------------------------
(* A project's plan and its review feedback.  They live as records in files *)
(* under apg/.trans (the plan store and the feedback mirrors), which the    *)
(* plan and review commands rewrite one at a time, under specs.lock; the    *)
(* database carries a projection of them, brought up to date by the         *)
(* difference each command made.  Between commands a developer edits code,  *)
(* a session edits the implemented-by claims of the authored graph, and a   *)
(* scan rebuilds the database.  plan verify judges the project by all four. *)
EXTENDS Naturals, FiniteSets, FiniteSetsExt

CONSTANTS
    Phase, Task, phaseOf,   \* the phases and tasks a plan may have
    Code,                   \* code identities: planned, present or neither
    Kind, parentOf,         \* what a planned-node record says; its parent, or NoParent
    NoParent,
    Durable, component,     \* nodes of the authored graph, and the one with claims
    BaseClaims,             \* its claims at the merge base
    ThePlan,
    Reviewable,             \* bound: the nodes feedback is given on
    MaxFeedback,            \* bound: feedback items of a project
    ProjectionMayBeCut      \* may a command die, or fail, after its file is written?

ASSUME PlanAssumption ==
    /\ phaseOf \in [Task -> Phase] /\ parentOf \in [Kind -> Code \cup {NoParent}]
    /\ component \in Durable /\ BaseClaims \subseteq Code
    /\ Reviewable \subseteq {ThePlan} \cup Phase \cup Task \cup Code \cup Durable
    /\ NoParent \notin Code /\ MaxFeedback \in Nat

\* An identity tells what it names: <project>/feedback-<n>, a phase, a task, a
\* node of the authored graph, or code.
ASSUME IdentityAssumption ==
    LET layers == <<{ThePlan}, Phase, Task, Code, Durable, 1 .. MaxFeedback>> IN
    \A i, j \in 1 .. 6 : i # j => layers[i] \cap layers[j] = {}

VARIABLES
    nodes, arcs,            \* the records of each file
    planFile,               \* does the plan store exist?
    code, claims,           \* the checkout: its code, the claims in apg/layers
    rows, real, links,      \* the database: transient rows, code rows, edges
    recorded                \* the Scan row: the content the database was made from

files  == <<nodes, arcs, planFile>>
tree   == <<code, claims>>
db     == <<rows, real, links, recorded>>
vars   == <<files, tree, db>>

File   == {"plans", "mirror"}
Num    == 1 .. MaxFeedback
Review == {"open", "actioned", "resolved"}
Rec(f, v)        == [fqn |-> f, val |-> v]
Arc(kind, a, b)  == [kind |-> kind, from |-> a, to |-> b]
Fqns(ns)         == {n.fqn : n \in ns}
Claims(cs)       == {Arc("implemented-by", component, c) : c \in cs}

Records ==
    {Rec(ThePlan, "plan")} \cup {Rec(f, v) : f \in Phase \cup Task, v \in {"pending", "done"}}
    \cup {Rec(c, k) : c \in Code, k \in Kind} \cup {Rec(n, s) : n \in Num, s \in Review}
Verbs == {"creates", "modifies"}
Arcs ==
    {Arc("contains", ThePlan, p) : p \in Phase}
    \cup {Arc("contains", phaseOf[t], t) : t \in Task}
    \cup {Arc("contains", c, d) : c, d \in Code}
    \cup {Arc("gates", p, q) : p, q \in Phase}
    \cup {Arc(v, t, c) : v \in Verbs, t \in Task, c \in Code}
    \cup {Arc("reviews", n, x) : n \in Num, x \in Reviewable}

TypeOK ==
    /\ nodes \in [File -> SUBSET Records] /\ arcs \in [File -> SUBSET Arcs]
    /\ planFile \in BOOLEAN
    /\ code \subseteq Code /\ claims \subseteq Code
    /\ rows \subseteq Records /\ real \subseteq Code
    /\ links \subseteq Arcs \cup Claims(Code)
    /\ recorded \in [code : SUBSET Code, claims : SUBSET Code]

AllNodes == UNION {nodes[f] : f \in File}
AllArcs  == UNION {arcs[f] : f \in File}
Planned      == Fqns(AllNodes) \cap Code
Placeholders == Fqns(rows) \cap Code

-----------------------------------------------------------------------------
(* The database *)

Resolved(as, fqns) ==
    {a \in as : {a.from, a.to} \subseteq fqns \cup Durable}

\* What a scan loads: code, the records code has not replaced, every edge
\* whose ends are there.
LoadedRows  == {n \in AllNodes : n.fqn \notin code}
LoadedLinks == Resolved(AllArcs \cup Claims(claims), Fqns(AllNodes) \cup code)
Drift       == ~(claims \subseteq code \cup Planned)

\* is_fresh: the content is the recorded one, and the authored and transient
\* rows are those of the tree, read with the code the database knows.
Authored(as) == {a \in as : a.from \notin Code}
Fresh ==
    LET known == real \cup Placeholders IN
    /\ recorded = [code |-> code, claims |-> claims]
    /\ claims \subseteq known
    /\ {r \in rows : r.fqn \notin Code} = {n \in AllNodes : n.fqn \notin Code}
    /\ Authored(links) = Authored(Resolved(AllArcs \cup Claims(claims), Fqns(AllNodes) \cup known))

\* Mutant: an edge that is gone does not bring its source.
DeltaOfNodes(ns, as) == Fqns(AllNodes \ ns)
\* transient_delta: records gone or changed, and the sources of edges gone.
Delta(ns, as) ==
    Fqns(AllNodes \ ns) \cup ({a.from : a \in AllArcs \ as} \cap Fqns(ns))

\* Mutant: a planned record overwrites the code that realised it.
MergeOverReal(ns) == ns
\* merge_records: a planned record does not overwrite code that is there.
Merge(ns) == {n \in ns : n.fqn \notin real}

\* detach_delete_project, then merge_records: one transaction.
Project(ns, as) ==
    LET deletes  == Delta(ns, as)
        detached == deletes \cap Fqns(rows)
    IN
    /\ rows' = {r \in rows : /\ r.fqn \notin deletes
                             /\ r.fqn \in Code \/ r.fqn \notin Fqns(Merge(ns))} \cup Merge(ns)
    /\ links' = {l \in links : {l.from, l.to} \cap detached = {}}
                \cup Resolved(as, Fqns(rows') \cup real)
    /\ UNCHANGED <<real, recorded>>

\* write_jsonl_and_reingest: refused over a stale database; the file first,
\* then the projection, unless the command dies or fails between the two.
\* keep: does the file still exist once the command is over?
WriteThrough(f, ns, as, keep) ==
    LET afterNodes == UNION {IF g = f THEN ns ELSE nodes[g] : g \in File}
        afterArcs  == UNION {IF g = f THEN as ELSE arcs[g] : g \in File}
    IN
    /\ Fresh
    /\ nodes' = [nodes EXCEPT ![f] = ns] /\ arcs' = [arcs EXCEPT ![f] = as]
    /\ \/ Project(afterNodes, afterArcs) /\ planFile' = keep
       \/ ProjectionMayBeCut /\ Project(afterNodes, afterArcs) /\ planFile' = (planFile \/ keep)
       \/ ProjectionMayBeCut /\ UNCHANGED db /\ planFile' = (planFile \/ keep)
    /\ UNCHANGED tree

Write(ns, as) == WriteThrough("plans", ns, as, TRUE)

-----------------------------------------------------------------------------
(* Plan commands *)

P == nodes["plans"]
A == arcs["plans"]
Present(f)      == f \in Fqns(P)
Change(f, v)    == {n \in P : n.fqn # f} \cup {Rec(f, v)}
Out(kind, a)    == {x \in A : x.kind = kind /\ x.from = a}
Gates(p, ps)    == {Arc("gates", p, q) : q \in ps}
Parents(c, k)   == {Arc("contains", parentOf[k], c)} \ {Arc("contains", NoParent, c)}

\* Mutant: only a gate on itself is refused.
ClosesSelfOnly(p, q) == p = q
\* cycle_closing_path: does q reach p?  The search visits the least set that
\* holds q and, with a phase, the phases it is gated on.
Closes(p, q) ==
    \A ps \in SUBSET Phase :
        /\ q \in ps
        /\ \A x \in ps, y \in Phase : Arc("gates", x, y) \in A => y \in ps
        => p \in ps

\* Operations are judged by the code the database has: a created one must not
\* be there, a modified one must.
OpsValid(ops) == \A o \in ops : (o.kind = "modifies") <=> (o.to \in real)
Ops(t) == SUBSET {Arc(v, t, c) : v \in Verbs, c \in Code}

PlanAdd == ~planFile /\ Write({Rec(ThePlan, "plan")}, {})

PhaseAdd(p, ps) ==
    /\ planFile /\ ~Present(p) /\ \A q \in ps : ~Closes(p, q)
    /\ Write(P \cup {Rec(p, "pending")}, A \cup {Arc("contains", ThePlan, p)} \cup Gates(p, ps))

\* The outgoing gates are replaced; those of later phases on p stay.
PhaseUpdate(p, ps) ==
    /\ planFile /\ Present(p) /\ \A q \in ps : ~Closes(p, q)
    /\ Write(P, (A \ Out("gates", p)) \cup Gates(p, ps))

TaskAdd(t, ops) ==
    /\ planFile /\ Present(phaseOf[t]) /\ ~Present(t) /\ OpsValid(ops)
    /\ Write(P \cup {Rec(t, "pending")}, A \cup {Arc("contains", phaseOf[t], t)} \cup ops)

TaskUpdate(t, ops) ==
    /\ planFile /\ Present(t) /\ OpsValid(ops)
    /\ Write(P, (A \ UNION {Out(v, t) : v \in Verbs}) \cup ops)

PlannedAdd(c, k) ==
    /\ planFile /\ ~Present(c) /\ c \notin real \cup Placeholders
    /\ Write(P \cup {Rec(c, k)}, A \cup Parents(c, k))

PlannedUpdate(c, k) ==
    /\ planFile /\ Present(c) /\ c \notin real
    /\ Write(Change(c, k), {a \in A : ~(a.kind = "contains" /\ a.to = c)} \cup Parents(c, k))

Done(t)   == planFile /\ Present(t) /\ Write(Change(t, "done"), A)
Undone(t) == planFile /\ Present(t) /\ Write(Change(t, "pending"), A)

\* Every task of the phase done, and no feedback in the plan store on the phase
\* or its tasks unresolved.
Complete(p) ==
    LET tasks == {t \in Task : Arc("contains", p, t) \in A /\ Present(t)} IN
    /\ planFile /\ Present(p)
    /\ \A t \in tasks : Rec(t, "done") \in P
    /\ \A a \in A : a.kind = "reviews" /\ a.to \in {p} \cup tasks => Rec(a.from, "resolved") \in P
    /\ Write(Change(p, "done"), A)

-----------------------------------------------------------------------------
(* Removals: what depends on a node goes with it, by force; feedback stays,   *)
(* and still names what it reviewed.                                          *)

\* Mutant: every edge of a removed node goes, the reviews edges too.
SurvivingUnreviewed(gone) == {a \in A : {a.from, a.to} \cap gone = {}}
Surviving(gone) ==
    {a \in A : {a.from, a.to} \cap gone = {} \/ (a.kind = "reviews" /\ a.to \in gone)}

\* cascade_remove and persist_rm: an emptied store is deleted.
Cascade(gone) ==
    LET left == {n \in P : n.fqn \notin gone} IN
    WriteThrough("plans", left, Surviving(gone), left # {} \/ Surviving(gone) # {})

RmPlan(force) ==
    LET dependents == Fqns(P) \cap (Phase \cup Task \cup Code) IN
    /\ planFile /\ (force \/ dependents = {})
    /\ Cascade({ThePlan} \cup dependents)

\* Mutant: the phase goes, its tasks stay.
RmPhaseAlone(p, force) == planFile /\ Present(p) /\ force /\ Cascade({p})
RmPhase(p, force) ==
    LET tasks == {t \in Task : phaseOf[t] = p /\ Present(t)} IN
    /\ planFile /\ Present(p) /\ (force \/ tasks = {})
    /\ Cascade({p} \cup tasks)

RmTask(t, force) ==
    /\ planFile /\ Present(t)
    /\ force \/ (/\ Rec(t, "done") \notin P
                 /\ \A a \in A : ~(a.kind = "reviews" /\ a.to = t))
    /\ Cascade({t})

RmPlanned(c, force) ==
    /\ planFile /\ Present(c)
    /\ force \/ \A a \in A : ~(a.kind = "creates" /\ a.to = c)
    /\ Cascade({c})

-----------------------------------------------------------------------------
(* Review commands *)

Items(ns)  == Fqns(ns) \cap Num
\* Mutant: numbers counted in the file the item goes to.
NextNumberIn(f) == Max({0} \cup Items(nodes[f])) + 1
\* Mutant: the number of the last item.
LastNumber(f) == Max({0} \cup Items(AllNodes))
\* feedback_number: the next one over all files.
NextNumber(f) == Max({0} \cup Items(AllNodes)) + 1

\* The target must be a node of the database; it says which file.
FeedbackAdd(x) ==
    LET f == IF x \in {ThePlan} \cup Phase \cup Task THEN "plans" ELSE "mirror"
        n == NextNumber(f)
    IN
    /\ x \in Fqns(rows) \cup real \cup Durable /\ n <= MaxFeedback
    /\ WriteThrough(f, nodes[f] \cup {Rec(n, "open")}, arcs[f] \cup {Arc("reviews", n, x)},
                    planFile \/ f = "plans")

\* action, resolve, reject: the status is set, whatever it was.  The first file
\* that has the item is the one rewritten.
FeedbackSet(n, status) ==
    \E f \in File :
        /\ n \in Items(nodes[f])
        /\ f = "mirror" => n \notin Items(nodes["plans"])
        /\ WriteThrough(f, {r \in nodes[f] : r.fqn # n} \cup {Rec(n, status)}, arcs[f], planFile)

-----------------------------------------------------------------------------
(* Between commands *)

EditCode(c) ==
    /\ code' = (code \ {c}) \cup ({c} \ code)
    /\ UNCHANGED <<files, claims, db>>

\* A session on a fresh database that adds or removes one claim and saves it.
SessionClaims(c) ==
    /\ Fresh
    /\ c \in claims \/ c \in real \cup Placeholders
    /\ claims' = (claims \ {c}) \cup ({c} \ claims)
    /\ links' = (links \ Claims({c})) \cup Claims({c} \ claims)
    /\ recorded' = [recorded EXCEPT !.claims = claims']
    /\ UNCHANGED <<files, code, rows, real>>

\* A scan of a fresh checkout returns at once; one that finds drift is refused.
Scan ==
    /\ ~Fresh /\ ~Drift
    /\ rows' = LoadedRows /\ real' = code /\ links' = LoadedLinks
    /\ recorded' = [code |-> code, claims |-> claims]
    /\ UNCHANGED <<files, tree>>

Init ==
    /\ nodes = [f \in File |-> {}] /\ arcs = [f \in File |-> {}] /\ planFile = FALSE
    /\ code \in SUBSET Code /\ claims = BaseClaims /\ BaseClaims \subseteq code
    /\ rows = {} /\ real = code /\ links = Claims(claims)
    /\ recorded = [code |-> code, claims |-> claims]

Next ==
    \/ PlanAdd
    \/ \E p \in Phase, ps \in SUBSET Phase : PhaseAdd(p, ps) \/ PhaseUpdate(p, ps)
    \/ \E t \in Task : \E ops \in Ops(t) : TaskAdd(t, ops) \/ TaskUpdate(t, ops)
    \/ \E c \in Code, k \in Kind : PlannedAdd(c, k) \/ PlannedUpdate(c, k)
    \/ \E t \in Task : Done(t) \/ Undone(t)
    \/ \E p \in Phase : Complete(p)
    \/ \E force \in BOOLEAN :
        \/ RmPlan(force)
        \/ \E p \in Phase : RmPhase(p, force)
        \/ \E t \in Task : RmTask(t, force)
        \/ \E c \in Code : RmPlanned(c, force)
    \/ \E x \in Reviewable : FeedbackAdd(x)
    \/ \E n \in Num, s \in Review : FeedbackSet(n, s)
    \/ \E c \in Code : EditCode(c) \/ SessionClaims(c)
    \/ Scan

Spec == Init /\ [][Next]_vars

-----------------------------------------------------------------------------
(* plan verify *)

Touched == {a.to : a \in {x \in A : x.kind \in Verbs /\ Present(x.from)}}
\* Mutant: the plan is judged by whatever database there is.
VerifyPassesStale ==
    /\ planFile /\ Fqns(P) \cap Code \subseteq real \ Placeholders
    /\ \A n \in Items(AllNodes) : \A r \in AllNodes : r.fqn = n => r.val = "resolved"
    /\ (claims \ BaseClaims) \cup (BaseClaims \ claims) \subseteq Touched
VerifyPasses ==
    /\ planFile /\ Fresh
    /\ Fqns(P) \cap Code \subseteq real \ Placeholders
    /\ \A n \in Items(AllNodes) : \A r \in AllNodes : r.fqn = n => r.val = "resolved"
    /\ (claims \ BaseClaims) \cup (BaseClaims \ claims) \subseteq Touched

-----------------------------------------------------------------------------
(* Properties *)

\* A database that is judged fresh has the planned nodes of the plan, and no
\* others, and the code of the checkout: plan rm and plan update leave no
\* placeholder behind and none overwrites code.
FreshPlaceholdersAreThePlans ==
    Fresh => real = code /\ {r \in rows : r.fqn \in Code} = {r \in LoadedRows : r.fqn \in Code}

\* A project that passes verify has the code it planned, and the code its claims
\* name.
VerifiedIsBuilt == VerifyPasses => Planned \cup claims \subseteq code

\* Commands keep the database in step: while nothing was edited since the last
\* scan or session, no scan is asked for, as long as no claim is on code that
\* is still planned (a removed or rewritten placeholder takes the claim with it).
StaysFreshUnlessClaimed ==
    recorded = [code |-> code, claims |-> claims] /\ claims \subseteq real => Fresh

\* The gates between phases never form a cycle.
GatesAcyclic ==
    \A ps \in (SUBSET Phase) \ {{}} : \E p \in ps : \A q \in ps : Arc("gates", p, q) \notin A

\* Two files never hold feedback of the same number, and the items of a project
\* keep what they review for good (feedback-persists-across-target-loss).
ReviewsPersist ==
    [][/\ Items(nodes'["plans"]) \cap Items(nodes'["mirror"]) = {}
       /\ \A f \in File : \A a \in arcs[f] :
            a.kind = "reviews" => a \in arcs'[f] /\ a.from \in Items(nodes'[f])]_vars

\* A task is never left without its phase.
TasksHavePhases ==
    \A t \in Task : Present(t) => Present(phaseOf[t]) /\ Arc("contains", phaseOf[t], t) \in A
=============================================================================
