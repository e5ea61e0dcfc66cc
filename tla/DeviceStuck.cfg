CONSTANTS
    None = None
    Task = {t1, t2}
    Call = {c1, c2}
SPECIFICATION DeviceSpec
INVARIANT
    NoCallNoMedia
CHECK_DEADLOCK FALSE
