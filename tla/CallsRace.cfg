CONSTANTS
    None = None
    Signals = {"signal"}
    u1 = u1
    u2 = u2
    u3 = u3
    d1 = d1
    d2 = d2
    d2b = d2b
    d3 = d3
    v1 = v1
    v2 = v2
    c1 = c1
    c2 = c2
    t1 = t1
    t2 = t2
    User = {u1, u2, u3}
    Device = {d1, d2, d3}
    Conv = {v1, v2}
    CallId = {c1, c2}
    Task = {t1, t2}
    OwnerOf <- ThirdOwner
    MembersOf <- ThirdMembers
SPECIFICATION RaceSpec
SYMMETRY CallSymmetry
INVARIANTS
    TypeOK
    RingTimerArmed
    NoStaleBusy
    LiveCallFindable
PROPERTIES
    BusyUntilOver
    EventsMatchCallState
    AnsweredCallEndsLoudly
CHECK_DEADLOCK FALSE
