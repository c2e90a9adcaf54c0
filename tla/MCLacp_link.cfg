SPECIFICATION FairColdSpec
CONSTANTS
    Port = {1}
    Key = {1, 2}
    Prio = {1}
    DefaultPrio = 1
    System = {"me", "a", "b", "none"}
    MySystem = "me"
    NoSystem = "none"
    TailZero = {"none"}
    AdminKey = {0}
    MaxAggLinks = 1
    MaxLinks = 1
    MaxAggs = 2
    TxLimit = 1
    Pdus <- AnyNeighbour
    StaticLimit = 1
    Activities = {TRUE, FALSE}
    Timeouts = {TRUE, FALSE}
    Budget = 4
INVARIANTS TypeOK NoLostTimer CountCoversAggregators
PROPERTIES SilenceEndsCollecting SelectionReachesEveryPort
CHECK_DEADLOCK FALSE
