CONSTANTS
    Guids = {g1}
    Updates = {u1, u2}
    Waiters = {w1}
    None = None
    Faults <- FlushAndCrash
    OfflineWriters = {}
SPECIFICATION Spec
PROPERTY RecoveryReplaysNewest
