CONSTANTS
    loop = loop
    req = req
    aa = aa
    bb = bb
    Tickers <- TwoTickers
    Loop = loop
    Symbols <- OneSymbol
    Quantities = {1}
    References = {1}
    Prices = {1, 2}
    WholeShare = 1
    MaxNotional = 2
    MaxHistory = 2
    FaultKinds = {"lost", "save", "crash"}
    MaxFaults = 1
    MaxHeld = 1
    MaxAttach = 2
    MaxOrders = 2
SPECIFICATION Spec
SYMMETRY TickerSymmetry
VIEW WithoutFlat
INVARIANTS
    RepeatOnlyAfterFault
    FiredRowsNameTheirSell
