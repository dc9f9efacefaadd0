CONSTANTS
    loop = loop
    req = req
    aa = aa
    bb = bb
    Tickers <- OneTicker
    Loop = loop
    Symbols <- OneSymbol
    Quantities = {2}
    References = {2}
    Prices = {0, 1, 3}
    WholeShare = 2
    MaxNotional = 3
    MaxHistory = 1
    FaultKinds = {"outage", "lost", "save", "crash"}
    MaxFaults = 1
    MaxHeld = 2
    MaxAttach = 2
    MaxOrders = 2
SPECIFICATION FairSpec
PROPERTIES
    TouchedLevelFires
