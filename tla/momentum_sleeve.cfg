SPECIFICATION LiveSpec
CONSTANTS
    Threads = {t1}
    MaxRequests = 3
    Orders <- MCOrders
    Exact = 10
    MaxQuantity = 2
    MaxValue = 20
    Ttl = 3
    Window = 2
    Retries = 2
    MaxTicks = 4
    MaxPlaced = 2
    Clients = {"u1", "u2"}
    Brokers = {"MOOMOO", "IBKR"}
    LinkedBefore <- MCLinked
    MaxLinks = 2
    MaxSnapshots = 1
    MaxDate = 1
    Files = {"ledger", "sleeves"}
    Names = {n1, n2, n3}
    MaxNames = 1
    MaxPoints = 2
    MaxHalves = 4
    MaxWorking = 2
    Symbols = {s1, s2}
    Period = 3
    FirstDay = 5
    LastDay = 16
    HolidaySets <- MCHolidaySets

INVARIANTS
    SellsOnlyItsOwn
CHECK_DEADLOCK FALSE
