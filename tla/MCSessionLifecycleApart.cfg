SPECIFICATION Spec
CONSTANTS
    a = a
    b = b
    c = c
    Proc = {a, b, c}
    Nobody = Nobody
    Db = {d1, d2, d3, d4}
    Absent = Absent
    Stalls = FALSE
    Overlap = FALSE
    Killed <- NotCopy
INVARIANTS
    NoOrphan
    ServedIsNamed
    ServesOwnWork
    ReadsLastSaved
\* every command may be over
CHECK_DEADLOCK FALSE
