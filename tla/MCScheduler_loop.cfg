SPECIFICATION Spec
CONSTANTS
    Callback = {"t1", "t2", "rh", "wr", "oe", "lo", "pd"}
    Kind <- KindOf
    Fd <- FdOf
    Arg <- ArgOf
    Kept <- KeptOf
    Object = {"link", "nbr"}
    Main = "main"
    Nobody = "nobody"
    NoThread = 0
    Delays = {0, 2}
    TimerSlots = 2
    MaxThreads = 3
INVARIANTS TypeOK ListedOnce RefsLive Watched NeverOversleeps
PROPERTIES NoOvertaking KeepsPromise
