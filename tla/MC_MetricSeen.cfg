\* Five bodies of up to three tags over two addresses, array size 2.
CONSTANTS
    a1 = a1
    a2 = a2
    Bodies <- MCBodies
    METRIC_ARRAY_SIZE = 2
    MaxUpdates = 5
SPECIFICATION Spec
\* the run stops after MaxUpdates bodies
CHECK_DEADLOCK FALSE
INVARIANT
    TypeOK
PROPERTY
    ImplementsKnownIpSpec
