SPECIFICATION FairBundleSpec
CONSTANTS
    Port = {1, 2}
    Key = {1}
    Prio = {1, 2}
    DefaultPrio = 1
    System = {"me", "a", "b", "none"}
    MySystem = "me"
    NoSystem = "none"
    TailZero = {"none"}
    AdminKey = {0, 1}
    MaxAggLinks = 1
    MaxLinks = 2
    MaxAggs = 1
    TxLimit = 1
    Pdus <- TwoNeighbours
    StaticLimit = 0
    Activities = {TRUE}
    Timeouts = {}
    Budget = 3
PROPERTIES BestPortsChosen
CHECK_DEADLOCK FALSE
