SPECIFICATION BundleSpec
CONSTANTS
    Port = {1, 2}
    Key = {1}
    Prio = {1}
    DefaultPrio = 1
    System = {"me", "a", "b", "none"}
    MySystem = "me"
    NoSystem = "none"
    TailZero = {"none"}
    AdminKey = {0}
    MaxAggLinks = 2
    MaxLinks = 1
    MaxAggs = 1
    TxLimit = 1
    Pdus <- TwoNeighbours
    StaticLimit = 0
    Activities = {TRUE}
    Timeouts = {}
    Budget = 4
INVARIANTS SelectedHasAggregator SlotsAgree SelectionListCurrent
PROPERTIES PartnerChangeStopsTraffic
CHECK_DEADLOCK FALSE
