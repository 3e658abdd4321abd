\* geo_mode lite with the default metric classes and with netacq only.
CONSTANTS
    Docs <- MCDocsLite
    PORTBYTES = 3
    MAX_IPTRACKERS = 32
    PROCTHREADS = 2
    Faults = {}
    DestroyFrom = {"final"}
SPECIFICATION Spec
INVARIANT GeoLiteLimitsRegions
CHECK_DEADLOCK FALSE
