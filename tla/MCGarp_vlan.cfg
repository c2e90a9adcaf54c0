SPECIFICATION FairSpec
CONSTANTS
    Port = {p1, p2}
    GID_LEAVE_ALL_COUNT = 2
INVARIANTS TypeOK NothingStalls DeclaresForOthers
PROPERTIES StaleAgesOut
