\* write_all_metrics fails to append a row: merge_interval_results still
\* returns 0.
CONSTANTS
    m1 = m1
    m2 = m2
    Metrics <- MCMetrics
    TrackerCount = 2
    MaxInterval = 3
    Faults = {"write"}
CHECK_DEADLOCK FALSE
SPECIFICATION Spec
INVARIANT
    MergeResultHonest
