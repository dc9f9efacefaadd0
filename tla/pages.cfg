SPECIFICATION PagesSpec
CONSTANTS
    Threads = {t1, t2}
    MaxRequests = 3
    Opening <- MCOpening
    MaxTicks = 2
    Cooldown = 1
    ProbeTtl = 1
    KeepPerKey = 2
    Retention = 2
    MaxWrites = 1
    EntryTtl = 2
    OpenMaxAge = 3
    MaxEditions = 3
    Ttl = 1
    Kinds = {"news", "index", "condition", "overview", "score", "section"}
    Keys <- MCKeys
    MaxContents = 2
    Stocks <- MCStocks
    Profiles <- MCProfiles
    Regimes = {"bull", "none"}
    MaxLimit = 2
    Floors = {0, 50}
    Names <- MCNames
    Rest = 12
    RestValue = 10
    Tapes <- MCTapes
    Breadths <- MCBreadths
    Entries = {0, 100}
    Shares = {3, 20}
    Holdings <- MCHoldings
    Matches <- MCMatches
    ProfileCap = 20
    AverageDownMax = 1
    MaxChanges = 1
SYMMETRY MCSymmetry
INVARIANTS
    RunsAnswerWrites
    StaleForAReason
    PagesGoForward
    
    LevelsComeFirst
    NamedWasStored
    CappedByTurnover
    RadarIsInvestable
    LiftedOnlyByRace
    SliceIsRun
    NothingFabricated
    StrongNamesStay
    PagesAgree
CHECK_DEADLOCK FALSE
