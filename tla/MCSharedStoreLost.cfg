SPECIFICATION Spec
CONSTANTS
    w1 = w1
    w2 = w2
    f = f
    g = g
    k = k
    h = h
    a = a
    c = c
    Worktree = {w1, w2}
    File = {f, g, h, k}
    Content = {a, c}
    Missing = Missing
    None = None
    Language = {"cpp", "go"}
    langOf <- MCLang
    pathOrder <- MCOrder
    moduleOf <- MCModule
    declares <- LostDeclares
    Placeholders = {}
    contentsOf <- LostContents
    FirstTree <- LostFirst
    Faults = {}
    MaxEvents = 4
    MaxFaults = 0
INVARIANTS
    FreshMentions
SYMMETRY Sym
CHECK_DEADLOCK FALSE
