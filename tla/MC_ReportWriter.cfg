\* The merge thread's output over three intervals, with every call into the
\* allocator and the Avro writer able to fail.  The merge thread stops after
\* halt_merging, so deadlock is not checked.
CONSTANTS
    m1 = m1
    m2 = m2
    Metrics <- MCMetrics
    TrackerCount = 2
    MaxInterval = 3
    Faults = {"alloc", "name", "start", "convert", "write"}
CHECK_DEADLOCK FALSE
SPECIFICATION Spec
INVARIANTS
    TypeOK
    WrittenRowsExact
    FilesFollowRotations
