SPECIFICATION FairSpec
CONSTANTS
    Callback = {"t1", "oe", "lo", "pd"}
    Kind <- KindOf
    Fd <- FdOf
    Arg <- ArgOf
    Kept <- KeptOf
    Object = {"link", "nbr"}
    Main = "main"
    Nobody = "nobody"
    NoThread = 0
    Delays = {2}
    TimerSlots = 2
    MaxThreads = 3
PROPERTIES Served
