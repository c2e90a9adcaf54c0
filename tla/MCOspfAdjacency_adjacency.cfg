SPECIFICATION FairSpec
CONSTANTS
    Lsa = {1, 2}
    Known <- Apart
    MaxPerDd = 1
    Losses = 1
    Outages = 1
    Changes = 1
    Backlog = 0
CHECK_DEADLOCK FALSE
INVARIANTS TypeOK Synchronized Undisturbed
PROPERTIES Adjacent
