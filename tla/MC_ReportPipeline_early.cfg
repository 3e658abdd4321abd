\* Halts after the last interval, while one thread may be up to two
\* intervals behind the other.
CONSTANTS
    Procs = {p1, p2}
    TrackerCount = 2
    Packets <- MCPacketsOne
    BatchSize = 2
    MaxInterval = 2
    MaxPkts = 0
    HaltMidInterval = FALSE
    NoResult = NoResult
    UpdateMsgType = 0
SPECIFICATION Spec
PROPERTY
    EveryIntervalWritten
