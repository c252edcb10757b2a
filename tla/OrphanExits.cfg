SPECIFICATION FairSpec
CONSTANTS
    Pids <- TwoPids
    Segments <- OneSegment
    Jobs = 1
    MaxExits = 1
    MaxEvents = 2
INVARIANT TypeOK
PROPERTY OrphanExits
CHECK_DEADLOCK FALSE
