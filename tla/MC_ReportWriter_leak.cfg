\* No call fails: an interval skipped because a tracker exited leaves the
\* results of the other trackers taken from m->res_handler.
CONSTANTS
    m1 = m1
    m2 = m2
    Metrics <- MCMetrics
    TrackerCount = 2
    MaxInterval = 3
    Faults = {}
CHECK_DEADLOCK FALSE
SPECIFICATION Spec
INVARIANT
    ResultItemsReleased
