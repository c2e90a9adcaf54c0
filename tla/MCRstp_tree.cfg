SPECIFICATION FairSpec
CONSTANTS
    Bridge = {1, 2, 3}
    Port = {1, 2, 3, 4, 5, 6, 7}
    Of <- MCOf
    Peers <- Wirings
    cist_path_cost <- MCCost
    FwdDelay = 3
    MaxAge = 3
    Losses <- MCLosses
    Flaps <- MCFlaps
INVARIANTS TypeOK Coherent NoLoop
PROPERTIES Converges
