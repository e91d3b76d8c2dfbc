CONSTANTS
    Guids = {g1}
    Updates = {u1, u2, u3}
    Waiters = {w1}
    None = None
    Faults <- NoFaults
    OfflineWriters = {"mail"}
SPECIFICATION Spec
PROPERTY OfflineWriteKeepsNewest
