\* an internalhwm option above 65535
CONSTANTS
    Docs <- MCDocsHwm
    PORTBYTES = 3
    MAX_IPTRACKERS = 32
    PROCTHREADS = 2
    Faults = {}
    DestroyFrom = {"final"}
SPECIFICATION Spec
INVARIANT InboxBounded
CHECK_DEADLOCK FALSE
