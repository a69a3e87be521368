SPECIFICATION Spec
CONSTANTS
    lead = lead
    ana = ana
    ben = ben
    w1 = w1
    w2 = w2
    o1 = o1
    o2 = o2
    Nobody = Nobody
    Requests <- Flight
    Users <- Crew
    Workers = {w1, w2}
    Objects = {o1, o2}
    MaxExpiries = 0

SYMMETRY Symmetries
CHECK_DEADLOCK FALSE
INVARIANTS
    MediaLockedAfterCompletion
