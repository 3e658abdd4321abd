\* Processing threads halted at any point of an interval.  The joining
\* threads wait forever, which is the behaviour the property is about.
CONSTANTS
    Procs = {p1, p2}
    TrackerCount = 2
    Packets <- MCPacketsOne
    BatchSize = 2
    MaxInterval = 2
    MaxPkts = 0
    HaltMidInterval = TRUE
    NoResult = NoResult
    UpdateMsgType = 0
CHECK_DEADLOCK FALSE
SPECIFICATION Spec
PROPERTY
    ShutdownCompletes
