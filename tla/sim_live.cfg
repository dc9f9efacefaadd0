CONSTANTS
    t1 = t1
    t2 = t2
    aa = aa
    bb = bb
    Threads <- OneThread
    Symbols <- OneSymbol
    Fx <- OneFx
    InitialCash = 3
    Quantities = {1}
    Prices = {1, 2}
    LegacyAccounts = FALSE
    MaxCrashes = 1
    StartClock <- FridayOpen
    Horizon <- MondayOpen
    MaxOrders = 2
    MaxRequests = 2
SPECIFICATION FairSpec
INVARIANT
    AtMostOneFill
PROPERTY
    PendingSettles
