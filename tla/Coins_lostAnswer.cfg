CONSTANTS
    Accounts = {k1, k2, k3}
    Characters = {h1, h2}
    Rows = {1, 2}
    MaxCoins = 3
    StartCoins = {2}
    Price = 1
    OfferCounts = {3}
    Slots = {1, 2}
    StackSize = 2
    Amounts = {2}
    Fee = 1
    CommissionPercent = 50
    Bids = {1, 2}
    CoinFaults = {"lostAnswer"}
    NoAuction = NoAuction
    NoBidder = NoBidder
SYMMETRY Symmetry
CHECK_DEADLOCK FALSE
SPECIFICATION CoinsSpec
PROPERTY CoinsConserved
