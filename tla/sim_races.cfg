CONSTANTS
    t1 = t1
    t2 = t2
    aa = aa
    bb = bb
    Threads <- TwoThreads
    Symbols <- OneSymbol
    Fx <- OneFx
    InitialCash = 3
    Quantities = {1}
    Prices = {2}
    LegacyAccounts = FALSE
    MaxCrashes = 1
    StartClock <- ThursdayEarly
    Horizon <- FridayOpen
    MaxOrders = 2
    MaxRequests = 2
SPECIFICATION Spec
SYMMETRY ThreadSymmetry
INVARIANTS
    NonNegative
    NoLookAhead
