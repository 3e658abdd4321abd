\* Trackers completing interval T+1 before the merge thread took T.
CONSTANTS
    Procs = {p1, p2}
    TrackerCount = 2
    Packets <- MCPacketsOne
    BatchSize = 2
    MaxInterval = 2
    MaxPkts = 1
    HaltMidInterval = FALSE
    NoResult = NoResult
    UpdateMsgType = 0
SYMMETRY ProcSymmetry
SPECIFICATION Spec
INVARIANT
    NoAssertionFailure
