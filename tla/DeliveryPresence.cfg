CONSTANTS
    None = None
    u1 = u1
    u2 = u2
    s1 = s1
    s2 = s2
    s3 = s3
    v1 = v1
    m1 = m1
    User = {u1, u2}
    Socket = {s1, s2, s3}
    Conv = {v1}
    Message = {m1}
    OwnerOf <- TwoOwner
    Groups <- Pair
SPECIFICATION SafeSpec
INVARIANTS
    GoneShownOffline
