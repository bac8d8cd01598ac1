SPECIFICATION FairSpec
CONSTANTS
    MaxTime = 3
    TeamTimes = {1, 2, 3}
    Limit = 1
    MaxOrphans = 1
INVARIANTS
    TypeOK
    ListInOrder
    NoHoleBetweenPages
    NewestArrives
PROPERTIES
    LastMessageAdvances
    EveryRequestEnds
CHECK_DEADLOCK FALSE
