SPECIFICATION FairSpec
CONSTANTS
    QueueMax = 2
    MaxTicks = 4
    MaxStops = 1
PROPERTIES
    StopReturns
\* A program that made its calls and its ticks is done.
CHECK_DEADLOCK FALSE
