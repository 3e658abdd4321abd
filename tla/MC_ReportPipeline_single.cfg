\* A single processing thread.  The trackers and the joining thread wait
\* forever, which is the behaviour the property is about.
CONSTANTS
    Procs = {p1}
    TrackerCount = 2
    Packets <- MCPacketsOne
    BatchSize = 2
    MaxInterval = 2
    MaxPkts = 0
    HaltMidInterval = FALSE
    NoResult = NoResult
    UpdateMsgType = 0
CHECK_DEADLOCK FALSE
SPECIFICATION Spec
PROPERTY
    EveryIntervalReported
