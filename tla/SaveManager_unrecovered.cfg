CONSTANTS
    Guids = {g1}
    Updates = {u1, u2}
    Waiters = {w1}
    None = None
    Faults <- FailedStartup
    OfflineWriters = {}
SPECIFICATION Spec
PROPERTY UnrecoveredWalKept
