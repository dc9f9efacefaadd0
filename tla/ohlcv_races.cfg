CONSTANTS
    t1 = t1
    t2 = t2
    Threads <- TwoThreads
    TtlOpen = 1
    TtlClosed = 2
    LagMin = 1
    FaultKinds = {"provider", "disk", "crash"}
    MaxFaults = 1
    MaxTime = 3
    MaxDay = 2
    MaxEdition = 2
SPECIFICATION Spec
SYMMETRY ThreadSymmetry
INVARIANTS
    NeverYesterdaysFrame
    WaitersShareTheFetch
    IndexKeepsUp
