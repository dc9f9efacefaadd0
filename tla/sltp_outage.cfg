CONSTANTS
    loop = loop
    req = req
    aa = aa
    bb = bb
    Tickers <- OneTicker
    Loop = loop
    Symbols <- OneSymbol
    Quantities = {1}
    References = {2}
    Prices = {2}
    WholeShare = 1
    MaxNotional = 3
    MaxHistory = 2
    FaultKinds = {"outage"}
    MaxFaults = 1
    MaxHeld = 1
    MaxAttach = 1
    MaxOrders = 1
SPECIFICATION Spec
INVARIANTS
    ClosesOnlyWhatIsGone
