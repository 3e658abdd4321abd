\* A non-initial fragment (no transport header) whose source address has a
\* geolocation record.
CONSTANTS
    np = np
    NoPacket = np
    Packets <- MCPacketsFragment
    ProvidersConfigured = TRUE
    VALBITS = 16

SPECIFICATION Spec
INVARIANT TagsMatchPacket
