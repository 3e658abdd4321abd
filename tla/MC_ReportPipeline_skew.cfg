\* Latent behind the msgtype defect: only with UpdateMsgType 2 do the
\* bodies reach process_msg_body and its bucket choice.
\* One processing thread two intervals ahead of another.
CONSTANTS
    Procs = {p1, p2}
    TrackerCount = 2
    Packets <- MCPacketsOne
    BatchSize = 2
    MaxInterval = 3
    MaxPkts = 1
    HaltMidInterval = FALSE
    NoResult = NoResult
    UpdateMsgType = 2
SYMMETRY ProcSymmetry
SPECIFICATION Spec
INVARIANT
    ResultExact
