SPECIFICATION Spec
CONSTANTS
    Project = {p, q}
    Default = default
    Main = main
    None = none
    Cmd = {k, l}
    Version <- MCVersion
    First <- MCFirst
    MaxCommits = 4
    MaxCommands = 3
    MaxEdits = 1
    MaxFaults = 1
INVARIANT FreshNeverMasks
CHECK_DEADLOCK FALSE
SYMMETRY Sym
