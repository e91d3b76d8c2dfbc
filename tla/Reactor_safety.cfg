CONSTANTS
    Threads = {th1, th2}
    MaxTasks = 3
    MaxId = 2
    MaxTime = 1
    Delays = {1}
    Expirations = {1}
    maxInboxSize = 2
    maxTasksPerCycle = 2
    timeBudget = TRUE
SYMMETRY Symmetry
CHECK_DEADLOCK FALSE
SPECIFICATION Spec
INVARIANTS
    TypeOK
    IdsReserved
    CancelledNeverRuns
    SendsRunInOrder
PROPERTY
    TasksAreServed
