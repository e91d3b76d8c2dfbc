CONSTANTS
    Conns = {c1, c2}
    Ips = {ip1}
    MaxMessages = 2
    MAX_PENDING_WRITE_MESSAGES = 2
    maxConnections = 2
    maxConnectionsPerIp = 2
    Protocols = {p1, p2, p3}
    g1 = g1
    Guids = {g1}
    accountOf <- MCAccountOf
    NoProtocol = NoProtocol
    Clients = {c1, c2, wc}
    Premium = {c1, c2}
    maxPlayers = 1
    Timeout = 2
    MaxClock = 5
    Traders = {p1, p2, p3}
    Things = {c1, c2, x, y}
    Bags = {c1, c2}
    Ground = Ground
    Nowhere = Nowhere
    NoTrader = NoTrader
    NoThing = NoThing
    Fellows = {p1, p2, p3, f4}
    Parties = {x1, x2, x3}
    NoFellow = NoFellow
    NoParty = NoParty
    Blocks = {p1, p2, p3}
    rateSpawn = 1
    EffectSteps = 2
    MaxFailures = 2
    MaxReloads = 2
    Monsters = {p1, p2, p3}
    EVENT_CREATURECOUNT = 2
    NullEntry = NullEntry
SYMMETRY Symmetry
CHECK_DEADLOCK FALSE
SPECIFICATION MCSpec
INVARIANTS
    ClosingIsExact
    SessionsAgree
    TradesAgree
    PartiesAgree
    BlocksAgree
    ListsAgree
    AcceptLoopAlive
    OneWriteInOrder
    AcceptedIsOffered
    CallbackReachesAll
PROPERTIES
    QueueIsFair
    OpenClientKeepsPlayer
