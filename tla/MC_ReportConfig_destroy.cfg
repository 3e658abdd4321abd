\* destroy_self on a configuration that was parsed but never finalised
CONSTANTS
    Docs <- MCDocsLite
    PORTBYTES = 3
    MAX_IPTRACKERS = 32
    PROCTHREADS = 2
    Faults = {}
    DestroyFrom = {"parsed", "final"}
SPECIFICATION Spec
INVARIANT NoMemoryError
CHECK_DEADLOCK FALSE
