SPECIFICATION Spec
CONSTANTS
    w1 = w1
    w2 = w2
    f = f
    g = g
    k = k
    h = h
    a = a
    c = c
    Worktree = {w1, w2}
    File = {f, g, h, k}
    Content = {a, c}
    Missing = Missing
    None = None
    Language = {"cpp", "go"}
    langOf <- MCLang
    pathOrder <- MCOrder
    moduleOf <- MCModule
    declares <- MCDeclares
    Placeholders <- MCPlaceholders
    contentsOf <- MCContents
    FirstTree <- MCFirst
    Faults = {"overlap", "kill", "skip", "frontend"}
    MaxEvents = 3
    MaxFaults = 1
INVARIANTS
    FreshShowsTree
    FreshMissesNothing
    FullScanIsRebuild
    StoreOfOneScan
    UnitsOfTheTree
    CascadeSeesUnits
    DriftSeesCode
SYMMETRY Sym
CHECK_DEADLOCK FALSE
