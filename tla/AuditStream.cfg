SPECIFICATION FairSpec
CONSTANTS
    MaxId = 5
    Limit = 2
    MaxFaults = 2
INVARIANTS
    TypeOK
    MissedOnlyLate
PROPERTIES
    ReceivedInOrder
    EventsArrive
CHECK_DEADLOCK FALSE
