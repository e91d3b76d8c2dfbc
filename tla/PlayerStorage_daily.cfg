CONSTANTS
    Keys = {a, d}
    DailyKeys = {d}
    Values = {0, 1}
    Zero = 0
    None = None
    Faults <- NoFaults
    MaxRevision = 3
SPECIFICATION Spec
INVARIANTS
    DailyCleanIsDurable
