CONSTANTS
    Guids = {g1}
    Updates = {u1}
    Waiters = {w1, w2}
    None = None
    Faults <- AllFaults
    OfflineWriters = {}
    Threads = {th1, th2}
    MaxReactorTasks = 2
    MaxId = 1
    MaxTime = 1
    Delays = {1}
    Expirations = {}
    maxInboxSize = 1
    maxTasksPerCycle = 1
    timeBudget = FALSE
    Conns = {c1}
    Ips = {ip1}
    MaxMessages = 3
    MAX_PENDING_WRITE_MESSAGES = 2
    maxConnections = 1
    maxConnectionsPerIp = 1
    MaxChanges = 2
    MaxSessions = 2
    MaxTasks = 3
    Blocks = {k1, k2}
    rateSpawn = 1
    EffectSteps = 1
    MaxFailures = 1
    MaxReloads = 1
CHECK_DEADLOCK FALSE
SPECIFICATION MCFairSpec
INVARIANT
    LoginHoldsOffline
PROPERTIES
    LoginAnswered
    SaveAllEnds
    AcceptedTasksFinish
    ShutdownStops
    ClosedSocketsClose
    DirtySettingsAreSaved
    LogoutReturns
    BlocksRefill
