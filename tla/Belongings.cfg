CONSTANTS
    Items = {i1, i2}
    ItemTypes <- MCItemTypes
    Durations = {1}
    MIN_TASK_INTERVAL = 1
    MaxTime = 2
    MaxChanges = 3
    MaxSessions = 3
    MaxTasks = 4
    Accounts = {k1, k2, k3}
    Characters = {h1, h2}
    Rows = {1, 2}
    MaxCoins = 3
    StartCoins = {2}
    Price = 2
    OfferCounts = {3}
    Slots = {1, 2}
    StackSize = 2
    Amounts = {1}
    Fee = 2
    CommissionPercent = 50
    Bids = {1, 2}
    CoinFaults = {"queryFails"}
    NoAuction = NoAuction
    NoBidder = NoBidder
    Keys = {a, b, d}
    DailyKeys = {d}
    Values = {0}
    Zero = 0
    None = None
    Faults <- AllFaults
    MaxRevision = 3
SYMMETRY Symmetry
CHECK_DEADLOCK FALSE
SPECIFICATION MCSpec
INVARIANTS
    DecayIsTracked
    SettingsAreKept
    DeliveryAllOrNothing
    ListedIsAway
    CleanIsDurable
PROPERTIES
    StorageIsDurable
    CoinsConserved
