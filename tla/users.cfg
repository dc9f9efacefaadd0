SPECIFICATION UserSpec
CONSTANTS
    Threads = {t1, t2}
    MaxRequests = 3
    Emails = {"e1", "e2"}
    Passwords = {"p1"}
    Subjects = {"s1"}
    TokenDays = 2
    TermDays = 1
    AnalysisPerDay = 1
    Earlier <- MCEarlier
    MaxUsers = 2
    MaxDay = 1
    Readers = {"u1", "u2"}
    Alerts <- MCAlerts
    Scores = {50, 60}
    DropWarn = 5
    Regions = {"US", "IDX"}
    FeedDays = 0
    Offers <- MCOffers
    MinScore = 6
    MaxPerDay = 1
    OwnedScore = 8
    MaxItems = 2
    Quantities = {1, 2}
    Prices = {10}
    MaxTrades = 4
INVARIANTS
    SessionsMatchCredentials
    OpenedWithinTerm
    OverrunIsInFlight
    ChangesReachAnInbox
    
    DuplicatesAreInFlight
CHECK_DEADLOCK FALSE
