SPECIFICATION LiveSpec
CONSTANTS
    a = a
    b = b
    c = c
    Proc = {a, b}
    Nobody = Nobody
    Db = {d1, d2, d3}
    Absent = Absent
    Stalls = TRUE
    Overlap = TRUE
    Killed <- Always
INVARIANTS
    OneOwner
PROPERTIES
    Settles
\* every command may be over
CHECK_DEADLOCK FALSE
