SPECIFICATION MCSpec
CONSTANTS
    Notes = 4
    Asks = 3
    Size = 2
    Room = 2
    Losses = 2
INVARIANTS TypeOK Framed
PROPERTIES InOrder RequestsEnd Settles
CHECK_DEADLOCK FALSE
