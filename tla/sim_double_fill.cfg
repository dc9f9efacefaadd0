CONSTANTS
    t1 = t1
    t2 = t2
    aa = aa
    bb = bb
    Threads <- TwoThreads
    Symbols <- OneSymbol
    Fx <- OneFx
    InitialCash = 3
    Quantities = {1}
    Prices = {1, 2}
    LegacyAccounts = FALSE
    MaxCrashes = 0
    StartClock <- FridayOpen
    Horizon <- MondayOpen
    MaxOrders = 2
    MaxRequests = 2
SPECIFICATION Spec
INVARIANT
    AtMostOneFill
