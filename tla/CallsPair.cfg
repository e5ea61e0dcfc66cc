CONSTANTS
    None = None
    Signals = {"signal"}
    u1 = u1
    u2 = u2
    u3 = u3
    d1 = d1
    d2 = d2
    d2b = d2b
    d3 = d3
    v1 = v1
    v2 = v2
    c1 = c1
    c2 = c2
    t1 = t1
    t2 = t2
    User = {u1, u2}
    Device = {d1, d2, d2b}
    Conv = {v1}
    CallId = {c1}
    Task = {t1, t2}
    OwnerOf <- PairOwner
    MembersOf <- PairMembers
SPECIFICATION PairSpec
PROPERTIES
    
    HandlersSettle
CHECK_DEADLOCK FALSE
