SPECIFICATION FairSpec
CONSTANTS
    QueueMax = 3
    MaxTicks = 8
    MaxStops = 2
INVARIANTS
    NewestKept
PROPERTIES
    SentInOrder
    ThreadEnds
\* A program that made its calls and its ticks is done.
CHECK_DEADLOCK FALSE
