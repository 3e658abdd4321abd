\* Safety with update batches dispatched as updates (UpdateMsgType 2), which
\* this revision does not do (see MC_ReportPipeline_msgtype.cfg): how the
\* trackers count once batches carry their own type.
\* Safety: two processing threads, two trackers, two intervals, clean shutdown.
CONSTANTS
    Procs = {p1, p2}
    TrackerCount = 2
    Packets <- MCPackets
    BatchSize = 2
    MaxInterval = 2
    MaxPkts = 1
    HaltMidInterval = FALSE
    NoResult = NoResult
    UpdateMsgType = 2
SYMMETRY ProcSymmetry
SPECIFICATION Spec
INVARIANTS
    TypeOK
    ResultExact
    AssertionsHold
