\* Liveness: two processing threads, two trackers, two intervals, clean shutdown.
CONSTANTS
    Procs = {p1, p2}
    TrackerCount = 2
    Packets <- MCPacketsOne
    BatchSize = 2
    MaxInterval = 2
    MaxPkts = 1
    HaltMidInterval = FALSE
    NoResult = NoResult
    UpdateMsgType = 2
\* A state in which every thread waits is judged by the leads-to properties
\* below; MC_ReportPipeline.cfg checks the same system for deadlock.
CHECK_DEADLOCK FALSE
SPECIFICATION Spec
PROPERTIES
    EveryIntervalReported
    ShutdownCompletes
