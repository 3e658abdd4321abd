\* Update batches as the code sends them (msgtype 0): a batch taken as HALT
\* while an interval is outstanding puts the tracker in halt phase 1, and
\* the interval it then completes is published without the batch's packets.
CONSTANTS
    Procs = {p1, p2}
    TrackerCount = 2
    Packets <- MCPacketsOne
    BatchSize = 2
    MaxInterval = 2
    MaxPkts = 1
    HaltMidInterval = FALSE
    NoResult = NoResult
    UpdateMsgType = 0
CHECK_DEADLOCK FALSE
SYMMETRY ProcSymmetry
SPECIFICATION Spec
INVARIANT
    ResultExact
