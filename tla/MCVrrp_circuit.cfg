SPECIFICATION MCSpec
CONSTANTS
    Router = {1, 2}
    Priority = {100, 150}
    Interval = {2}
    PriorityDelta = 120
    Owners = {0}
    Nobody = 0
    Budget = 2
PROPERTIES StopsWithCircuit
