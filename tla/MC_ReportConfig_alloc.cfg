\* calloc of the tracker array fails in corsaro_report_finalise_config
CONSTANTS
    Docs <- MCDocsLite
    PORTBYTES = 3
    MAX_IPTRACKERS = 32
    PROCTHREADS = 2
    Faults = {"alloc"}
    DestroyFrom = {"final"}
SPECIFICATION Spec
INVARIANT NoMemoryError
CHECK_DEADLOCK FALSE
