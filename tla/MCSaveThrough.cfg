SPECIFICATION SaveSpec
CONSTANTS
    service = service
    entity = entity
    b1 = b1
    b2 = b2
    p1 = p1
    Node = {service, entity}
    Code = {}
    Body = {b1, b2}
    EventBody = {}
    Prop = {p1}
    Absent = Absent
    NoProp = NoProp
    Edge <- MCEdge
    KillPoints = {"idle", "clear"}
    FailPoints = {"files", "stage", "commit", "rollback", "clear"}
INVARIANTS
    RecoveryNeverRefused
    HeadIsTreeUnlessUncommitted
PROPERTIES
    ImplementsSessionStore
CONSTRAINT
    NoLapse
