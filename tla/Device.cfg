CONSTANTS
    None = None
    Task = {t1, t2, t3}
    Call = {c1, c2}
SPECIFICATION DeviceSpec
INVARIANTS
    DeviceTypeOK
    MicAccountedFor
    OnePreparation
SYMMETRY Symmetry
CHECK_DEADLOCK FALSE
