SPECIFICATION Spec
CONSTANTS
    p1 = p1
    p2 = p2
    group = group
    service = service
    event = event
    code = code
    plain = plain
    kindEvent = kindEvent
    Node = {group, service, event}
    Code = {code}
    Body = {plain, kindEvent}
    EventBody = {kindEvent}
    Prop = {p1, p2}
    Absent = Absent
    NoProp = NoProp
    Edge <- MCEdge
SYMMETRY PropSymmetry
PROPERTY
    EdgeAddIsHeld
