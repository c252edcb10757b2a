SPECIFICATION FairSpec
CONSTANTS
    Pids <- TwoPids
    Segments <- OneSegment
    Jobs = 1
    MaxExits = 1
    MaxEvents = 3
INVARIANT OneComputes
PROPERTY LastMessageAgrees
PROPERTY JobEnds
CHECK_DEADLOCK FALSE
