CONSTANTS
    t1 = t1
    t2 = t2
    aa = aa
    bb = bb
    Threads <- OneThread
    Symbols <- OneSymbol
    Fx <- ForeignFx
    InitialCash = 6
    Quantities = {1}
    Prices = {1, 2}
    LegacyAccounts = TRUE
    MaxCrashes = 0
    StartClock <- FridayOpen
    Horizon <- MondayOpen
    MaxOrders = 3
    MaxRequests = 3
SPECIFICATION Spec
INVARIANTS
    LedgerMatchesLog
    CostBasis
PROPERTY
    ImplementsLedger
