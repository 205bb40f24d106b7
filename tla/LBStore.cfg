SPECIFICATION Spec
CONSTANTS
    Jobs <- MCJobs
    Parent <- MCParent
    Workers = {p1, p2}
    Scenarios <- MCScenarios
    MaxFaults = 1
    Importers = {i1, i2}
    Now = 5
    Archives <- MCArchives
    Entries <- MCEntries
    Destinations <- MCDestinations
    Feeders = {f1, f2}
    HtabSize = 2
    Arrivals <- MCArrivals
    Kids <- MCKids
    Seconds = 3
INVARIANTS
    EventsIntact
    StateFollows
    Notified
    KeptInFiles
    StatsRight
