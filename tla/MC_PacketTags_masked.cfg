\* The GEN_METRICID macro of the later plugin (report_internal.h), with the
\* mask applied to the sum of class and value.
CONSTANTS
    np = np
    NoPacket = np
    Packets <- MCPackets
    ProvidersConfigured = TRUE
    VALBITS = 16
    GEN_METRICID <- GEN_METRICID_masked
SPECIFICATION Spec
INVARIANT TagsMatchPacket
