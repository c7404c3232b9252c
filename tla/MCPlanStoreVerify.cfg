SPECIFICATION Spec
CONSTANTS
    p1 = p1
    p2 = p2
    t1 = t1
    c1 = c1
    c2 = c2
    k1 = k1
    k2 = k2
    Phase = {p1}
    Task = {t1}
    phaseOf <- MCPhaseOf
    Code = {c1, c2}
    Kind = {k1, k2}
    parentOf <- MCParentOf
    NoParent = NoParent
    component = component
    Durable = {component}
    BaseClaims = {}
    ThePlan = ThePlan
    Reviewable = {c1}
    MaxFeedback = 1
    ProjectionMayBeCut = FALSE
INVARIANTS
    TypeOK
    FreshPlaceholdersAreThePlans
    VerifiedIsBuilt
    StaysFreshUnlessClaimed
