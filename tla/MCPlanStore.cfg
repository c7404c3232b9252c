SPECIFICATION Spec
CONSTANTS
    p1 = p1
    p2 = p2
    t1 = t1
    c1 = c1
    c2 = c2
    k1 = k1
    k2 = k2
    Phase = {p1, p2}
    Task = {t1}
    phaseOf <- MCPhaseOf
    Code = {}
    Kind = {k1}
    parentOf <- MCParentOf
    NoParent = NoParent
    component = component
    Durable = {component}
    BaseClaims = {}
    ThePlan = ThePlan
    Reviewable = {t1, component}
    MaxFeedback = 2
    ProjectionMayBeCut = TRUE
INVARIANTS
    GatesAcyclic
    TasksHavePhases
PROPERTIES
    ReviewsPersist
