\* The queue of one webhook item, at every length up to its bounds.
SPECIFICATION FairSpec
CONSTANTS
    InitCap = 2
    MaxEvents = 18
    MaxFailures = 1
INVARIANTS
    TypeOK
    QueueFits
    InOrder
PROPERTIES
    LossOnlyWhenStale
    EveryEventLeaves
\* The bound on the number of events.
CHECK_DEADLOCK FALSE
