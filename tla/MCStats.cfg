SPECIFICATION StatsFairSpec
CONSTANTS
    c1 = c1
    Clients = {c1}
    LogAge = 1
    TopAge = 1
    Refreshers = {"hourly", "api"}
    DbErrors = TRUE
    FailingReads = {"total_request"}
    MaxQueries = 2
    MaxHour = 2
INVARIANTS
    NeverOvercounts
    CleanRestartExact
PROPERTIES
    OldRowsPurged
