\* Latent behind the msgtype defect: only with UpdateMsgType 2 do the
\* bodies reach update_knownip_metric.
\* A packet with an IP total length of 0, as extract_addresses reads it.
CONSTANTS
    Procs = {p1, p2}
    TrackerCount = 2
    Packets <- MCPacketsZero
    BatchSize = 2
    MaxInterval = 1
    MaxPkts = 1
    HaltMidInterval = FALSE
    NoResult = NoResult
    UpdateMsgType = 2
SYMMETRY ProcSymmetry
SPECIFICATION Spec
INVARIANT
    ResultExact
