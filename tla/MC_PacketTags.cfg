\* Tagging and tag derivation over every complete header shape and lookup
\* result, with providers configured.
CONSTANTS
    np = np
    NoPacket = np
    Packets <- MCPackets
    ProvidersConfigured = TRUE
    VALBITS = 16
SPECIFICATION Spec
INVARIANT TypeOK
INVARIANT TagsMatchPacket
