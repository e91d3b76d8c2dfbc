CONSTANTS
    Guids = {g1, g2}
    Updates = {u1}
    Waiters = {w1}
    None = None
    Faults <- AllFaults
    OfflineWriters = {"mail", "bed"}
SYMMETRY Symmetry
SPECIFICATION Spec
INVARIANTS
    TypeOK
    OneFlushPerGuid
    ChainConsistent
    SaveAllCounts
