CONSTANTS
    Guids = {g1, g2}
    Updates = {u1, u2}
    Waiters = {w1}
    None = None
    Faults <- UnreplayableLog
    OfflineWriters = {}
SPECIFICATION Spec
INVARIANT DrainedMeansPersisted
PROPERTIES
    SavesAreDurable
    NothingPersistedIsLost
