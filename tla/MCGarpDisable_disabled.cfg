SPECIFICATION SpecOff
CONSTANTS
    Port = {p1, p2, p3}
    GID_LEAVE_ALL_COUNT = 1
INVARIANTS CountsMembers
CHECK_DEADLOCK FALSE
