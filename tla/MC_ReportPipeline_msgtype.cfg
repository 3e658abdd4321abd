\* The update batches as the code sends them: msgtype 0, which the tracker
\* reads as HALT.  Every thread may end up waiting; the property judges it.
CONSTANTS
    Procs = {p1, p2}
    TrackerCount = 2
    Packets <- MCPacketsOne
    BatchSize = 2
    MaxInterval = 2
    MaxPkts = 1
    HaltMidInterval = FALSE
    NoResult = NoResult
    UpdateMsgType = 0
CHECK_DEADLOCK FALSE
SPECIFICATION Spec
PROPERTY
    EveryIntervalWritten
