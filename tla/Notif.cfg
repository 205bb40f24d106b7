SPECIFICATION FairSpec
CONSTANTS
    d1 = d1
    d2 = d2
    p1 = p1
    Procs = {p1}
    Jobs = {"j1"}
    Ids = {1, 2, 3}
    Users = {"harvester", "alice", "root"}
    CanRead <- MCCanRead
    NotifDuration = 2
    NotifDurationMax = 4
    MaxTime = 12
    MaxState = 2
    Scenarios <- MCScenarios
    Dests = {d1, d2}
    Ttl = 5
    TtlToDead = 1
    LoopMaxTime = 6
    RepeatRate = 1
    Dive = 0
    Addresses <- MCAddresses
INVARIANTS
    Harvested
PROPERTIES
    ChannelSpec
    ExpiredLeave
