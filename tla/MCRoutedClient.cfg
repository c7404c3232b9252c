SPECIFICATION Spec
CONSTANTS
    a = a
    b = b
    c = c
    Client <- Clients
    MaxSessions = 2
INVARIANTS
    AtMostOnce
    RefusedIsNotAdmitted
SYMMETRY Symmetry
\* a session that is over, and no command left to type
CHECK_DEADLOCK FALSE
