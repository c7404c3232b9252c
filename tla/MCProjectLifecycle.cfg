SPECIFICATION MCSpec
CONSTANTS
    Project = {p, q}
    Default = default
    Main = main
    None = none
    Cmd = {k, l}
    Version <- MCVersion
    First <- MCFirst
    MaxCommits = 4
    MaxCommands = 2
    MaxEdits = 1
    MaxFaults = 1
INVARIANTS FreshIsTheTree 
PROPERTIES DefaultOnlyGrows MergedClaimsAreCode RebuiltBeforeCleanup
           MergedBeforeDropped StartedIsFresh
CHECK_DEADLOCK FALSE
SYMMETRY Sym
