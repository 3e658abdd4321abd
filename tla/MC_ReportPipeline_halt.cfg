\* Safety with processing threads halted at any point of an interval, with
\* update batches as the code sends them (msgtype 0, read as HALT).
\* A tracker that sees a halt while an interval is outstanding may never
\* exit (ShutdownCompletes is violated in MC_ReportPipeline_hang.cfg), so the
\* run stops in states where every thread waits.
CONSTANTS
    Procs = {p1, p2}
    TrackerCount = 2
    Packets <- MCPackets
    BatchSize = 1
    MaxInterval = 2
    MaxPkts = 1
    HaltMidInterval = TRUE
    NoResult = NoResult
    UpdateMsgType = 0
CHECK_DEADLOCK FALSE
SYMMETRY ProcSymmetry
SPECIFICATION Spec
INVARIANTS
    TypeOK
    AssertionsHold
