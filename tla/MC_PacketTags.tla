---------------------------- MODULE MC_PacketTags ----------------------------
(* Packets for the tagging runs.  Transport shapes: complete TCP, UDP and  *)
(* ICMP headers, a protocol without ports (GRE), a non-initial fragment    *)
(* (no transport header), and headers cut short by the capture.  Lookup    *)
(* results: none, one or two geolocation records, a prefix-to-AS record    *)
(* with one ASN and one with a group of ASNs.                              *)
EXTENDS PacketTags

CONSTANTS np

NA == <<78, 65>>
US == <<85, 83>>
NZ == <<78, 90>>
OC == <<79, 67>>

Maxmind == [source |-> IPMETA_PROVIDER_MAXMIND, continent |-> NA, country |-> US, asn |-> << >>]
Netacq  == [source |-> IPMETA_PROVIDER_NETACQ_EDGE, continent |-> OC, country |-> NZ, asn |-> << >>]
AsOne   == [source |-> IPMETA_PROVIDER_PFX2AS, continent |-> << >>, country |-> << >>, asn |-> <<4608>>]
AsGroup == [source |-> IPMETA_PROVIDER_PFX2AS, continent |-> << >>, country |-> << >>, asn |-> <<4608, 7>>]

Shape(tr, pr, rm, h) == [transport |-> tr, proto |-> pr, rem |-> rm, hdr |-> h]

CompleteShapes ==
    {Shape(TRUE, TRACE_IPPROTO_TCP, 20, <<80, 443>>),
     Shape(TRUE, TRACE_IPPROTO_UDP, 8, <<53, 53>>),
     Shape(TRUE, TRACE_IPPROTO_ICMP, 8, <<8, 0>>),
     Shape(TRUE, 47, 4, <<1, 2>>)}
Fragment == Shape(FALSE, 0, 0, <<0, 0>>)
Truncated ==
    {Shape(TRUE, TRACE_IPPROTO_TCP, 2, <<80, 443>>),
     Shape(TRUE, TRACE_IPPROTO_ICMP, 1, <<3, 0>>)}

Lookups == {<< >>, <<Maxmind>>, <<Maxmind, Netacq, AsOne>>, <<Netacq, AsGroup>>}

Pkt(s, v4, ok, recs) ==
    [transport |-> s.transport, proto |-> s.proto, rem |-> s.rem, hdr |-> s.hdr,
     ipv4 |-> v4, lookup_ok |-> ok, records |-> recs,
     src |-> 16777217, dst |-> 33554433, iplen |-> 40]

\* every shape whose header is complete, with every lookup result; fragments
\* with an empty lookup
MCPackets ==
    {Pkt(s, v4, ok, r) : s \in CompleteShapes, v4 \in BOOLEAN, ok \in BOOLEAN, r \in Lookups}
    \cup {Pkt(Fragment, v4, TRUE, << >>) : v4 \in BOOLEAN}

\* a non-initial fragment whose source has a geolocation record
MCPacketsFragment == {Pkt(Fragment, TRUE, TRUE, <<Maxmind>>)}

\* transport headers shorter than the ports or the ICMP type and code
MCPacketsTruncated == {Pkt(s, TRUE, TRUE, << >>) : s \in Truncated}
===============================================================================
