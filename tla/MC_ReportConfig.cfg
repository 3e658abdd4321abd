\* Parsing, finalising and destroying every option mapping of MCDocs, with
\* any one ZeroMQ call of the tracker set-up failing.
CONSTANTS
    Docs <- MCDocs
    PORTBYTES = 3
    MAX_IPTRACKERS = 32
    PROCTHREADS = 2
    Faults = {"zmq"}
    DestroyFrom = {"final"}
SPECIFICATION Spec
INVARIANT TypeOK
INVARIANT PortBitmapMatchesRanges
INVARIANT InboxHwmCoversSenders
INVARIANT TeardownReleasesAll
\* parsing, finalising and destroying are done once
CHECK_DEADLOCK FALSE
