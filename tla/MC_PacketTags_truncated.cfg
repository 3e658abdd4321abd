\* TCP and ICMP headers cut short by the capture, shorter than the ports or
\* the ICMP type and code.
CONSTANTS
    np = np
    NoPacket = np
    Packets <- MCPacketsTruncated
    ProvidersConfigured = TRUE
    VALBITS = 16

SPECIFICATION Spec
INVARIANT TagsMatchPacket
