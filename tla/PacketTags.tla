------------------------------ MODULE PacketTags ------------------------------
(***************************************************************************)
(* From a packet to the metric ids a report body carries, and back to the  *)
(* rows the merge thread writes:                                           *)
(*  - the tagger (src/libcorsaro3/libcorsaro3_tagging.c): corsaro_tag_packet *)
(*    fills a corsaro_packet_tags_t from the transport header and from the *)
(*    libipmeta records of the source address;                             *)
(*  - the report plugin (src/libcorsaro3/plugins/corsaro_report.c):        *)
(*    corsaro_report_process_packet turns the tags into one source and one *)
(*    destination body (process_tags, process_single_tag, GEN_METRICID),   *)
(*    and write_single_metric decodes a metric id into type and value.     *)
(* Metric ids are class * 2^VALBITS + value: the code's 32-bit value field *)
(* scaled to VALBITS bits, with every value drawn below 2^VALBITS as a     *)
(* uint32_t is below 2^32.                                                 *)
(***************************************************************************)
EXTENDS Naturals, Sequences, FiniteSets, SequencesExt

CONSTANTS
    Packets,              \* abstract packets, see PacketType
    ProvidersConfigured,  \* tagger->providers != NULL
    VALBITS,              \* width of the value part of a metric id
    NoPacket

\* libtrace / IANA protocol numbers
TRACE_IPPROTO_ICMP == 1
TRACE_IPPROTO_TCP == 6
TRACE_IPPROTO_UDP == 17

\* libipmeta provider ids, used as bit numbers of providers_used; bit 0 is
\* the basic tags
IPMETA_PROVIDER_MAXMIND == 1
IPMETA_PROVIDER_NETACQ_EDGE == 2
IPMETA_PROVIDER_PFX2AS == 3
BASIC == 0

\* corsaro_report_metric_class_t, in declaration order
CLASS == [COMBINED |-> 0, MAXMIND_CONTINENT |-> 1, MAXMIND_COUNTRY |-> 2,
          NETACQ_CONTINENT |-> 3, NETACQ_COUNTRY |-> 4, PREFIX_ASN |-> 5,
          TCP_SOURCE_PORT |-> 6, TCP_DEST_PORT |-> 7, UDP_SOURCE_PORT |-> 8,
          UDP_DEST_PORT |-> 9, IP_PROTOCOL |-> 10, ICMP_CODE |-> 11,
          ICMP_TYPE |-> 12]

METRIC_PORT_MAX == 65536
METRIC_ICMP_MAX == 256
METRIC_IPPROTOS_MAX == 256

\* a two-letter code read as *((uint16_t *) code) on a little-endian host
Pack16(code) == code[1] + 256 * code[2]

VARIABLES
    pkt,     \* the packet the tags belong to
    tags,    \* corsaro_packet_tags_t
    rc,      \* corsaro_tag_packet's return value
    bodies,  \* <<source body, destination body>>, or << >> if none
    phase    \* "tag": next packet; "report": tags handed to the plugin

vars == <<pkt, tags, rc, bodies, phase>>

-----------------------------------------------------------------------------
(* Tagger *)

\* update_basic_tags: protocol and ports from the transport header, if any
UpdateBasicTags(t, p) ==
    LET t0 == [t EXCEPT !.protocol = 0, !.src_port = 0, !.dest_port = 0]
    IN  IF ~p.transport THEN t0
        ELSE [t0 EXCEPT
                !.protocol = p.proto,
                !.src_port  = IF \/ p.proto = TRACE_IPPROTO_ICMP /\ p.rem >= 2
                                 \/ p.proto \in {TRACE_IPPROTO_TCP, TRACE_IPPROTO_UDP} /\ p.rem >= 4
                              THEN p.hdr[1] ELSE 0,
                !.dest_port = IF \/ p.proto = TRACE_IPPROTO_ICMP /\ p.rem >= 2
                                 \/ p.proto \in {TRACE_IPPROTO_TCP, TRACE_IPPROTO_UDP} /\ p.rem >= 4
                              THEN p.hdr[2] ELSE 0,
                !.providers_used = @ \cup {BASIC}]

\* update_maxmind_tags, update_netacq_tags, update_pfx2as_tags for one record
UpdateProviderTags(t, rec) ==
    CASE rec.source = IPMETA_PROVIDER_MAXMIND ->
            [t EXCEPT !.maxmind_continent = Pack16(rec.continent),
                      !.maxmind_country = Pack16(rec.country),
                      !.providers_used = @ \cup {IPMETA_PROVIDER_MAXMIND}]
      [] rec.source = IPMETA_PROVIDER_NETACQ_EDGE ->
            [t EXCEPT !.netacq_continent = Pack16(rec.continent),
                      !.netacq_country = Pack16(rec.country),
                      !.providers_used = @ \cup {IPMETA_PROVIDER_NETACQ_EDGE}]
      [] rec.source = IPMETA_PROVIDER_PFX2AS /\ Len(rec.asn) = 1 ->
            [t EXCEPT !.prefixasn = rec.asn[1],
                      !.providers_used = @ \cup {IPMETA_PROVIDER_PFX2AS}]
      [] OTHER -> t

\* corsaro_tag_packet: basic tags, then, for an IPv4 source with providers
\* configured, the records of the libipmeta lookup in the order returned
TagPacket(p) ==
    /\ phase = "tag"
    /\ LET t1 == UpdateBasicTags([tags EXCEPT !.providers_used = {}], p)
           looked == ProvidersConfigured /\ p.ipv4
       IN  /\ tags' = IF looked /\ p.lookup_ok
                      THEN FoldLeft(UpdateProviderTags, t1, p.records)
                      ELSE t1
           /\ rc' = IF looked /\ ~p.lookup_ok THEN -1 ELSE 0
    /\ pkt' = p
    /\ bodies' = << >>
    /\ phase' = "report"

-----------------------------------------------------------------------------
(* Report plugin: tags to metric ids *)

\* GEN_METRICID in the later plugin (report_internal.h): + binds tighter
\* than &, so the mask applies to the sum
GEN_METRICID_masked(class, val) == (class * 2^VALBITS + val) % 2^VALBITS
\* the class shifted one bit too far
GEN_METRICID_wide(class, val) == class * 2^(VALBITS + 1) + val
\* GEN_METRICID: class in the upper bits, value in the lower VALBITS
GEN_METRICID(class, val) == class * 2^VALBITS + val

\* process_single_tag: drop a value at or above the class's bound, else append
ProcessSingleTag(ids, class, tagval, maxtagval) ==
    IF maxtagval > 0 /\ tagval >= maxtagval THEN ids
    ELSE Append(ids, GEN_METRICID(class, tagval))

\* the tags that follow the combined one when any provider bit is set
\* maxmind_tagged, netacq_tagged, pfx2as_tagged: the provider's bit of
\* providers_used is set
Tagged(t, provider) == provider \in t.providers_used

TagList(t) ==
    LET proto == <<<<CLASS.IP_PROTOCOL, t.protocol, METRIC_IPPROTOS_MAX>>>>
        ports == CASE t.protocol = TRACE_IPPROTO_ICMP ->
                        <<<<CLASS.ICMP_TYPE, t.src_port, METRIC_ICMP_MAX>>,
                          <<CLASS.ICMP_CODE, t.dest_port, METRIC_ICMP_MAX>>>>
                   [] t.protocol = TRACE_IPPROTO_TCP ->
                        <<<<CLASS.TCP_SOURCE_PORT, t.src_port, METRIC_PORT_MAX>>,
                          <<CLASS.TCP_DEST_PORT, t.dest_port, METRIC_PORT_MAX>>>>
                   [] t.protocol = TRACE_IPPROTO_UDP ->
                        <<<<CLASS.UDP_SOURCE_PORT, t.src_port, METRIC_PORT_MAX>>,
                          <<CLASS.UDP_DEST_PORT, t.dest_port, METRIC_PORT_MAX>>>>
                   [] OTHER -> << >>
        mm == IF Tagged(t, IPMETA_PROVIDER_MAXMIND)
              THEN <<<<CLASS.MAXMIND_CONTINENT, t.maxmind_continent, 0>>,
                     <<CLASS.MAXMIND_COUNTRY, t.maxmind_country, 0>>>>
              ELSE << >>
        na == IF Tagged(t, IPMETA_PROVIDER_NETACQ_EDGE)
              THEN <<<<CLASS.NETACQ_CONTINENT, t.netacq_continent, 0>>,
                     <<CLASS.NETACQ_COUNTRY, t.netacq_country, 0>>>>
              ELSE << >>
        pa == IF Tagged(t, IPMETA_PROVIDER_PFX2AS)
              THEN <<<<CLASS.PREFIX_ASN, t.prefixasn, 0>>>>
              ELSE << >>
    IN  proto \o ports \o mm \o na \o pa

\* the early return of process_tags when no provider bit is set
NoProviderTags_any(t) == FALSE
NoProviderTags(t) == t.providers_used = {}

\* process_tags: the body for one address of the packet
ProcessTags(t, iplen, addr, issrc) ==
    LET ids0 == ProcessSingleTag(<< >>, CLASS.COMBINED, 0, 0)
        ids  == IF NoProviderTags(t) THEN ids0
                ELSE FoldLeft(LAMBDA s, e : ProcessSingleTag(s, e[1], e[2], e[3]),
                              ids0, TagList(t))
    IN  [ipaddr |-> addr, issrc |-> issrc, tags |-> ids,
         size |-> IF issrc THEN iplen ELSE 0]

\* extract_addresses: 0 when the packet has a layer 3 header of ethertype
\* IP with a complete IPv4 header (the packet's ipv4 field), giving its
\* addresses and ip_len; -1 otherwise
ExtractAddresses(p) == p.ipv4

\* corsaro_report_process_packet: nothing for a packet whose addresses
\* cannot be extracted, else a source and a destination body.  A packet
\* whose tagging failed is not handed to the plugin.
ReportPacket ==
    /\ phase = "report"
    /\ bodies' = IF rc = 0 /\ ExtractAddresses(pkt)
                 THEN <<ProcessTags(tags, pkt.iplen, pkt.src, TRUE),
                        ProcessTags(tags, pkt.iplen, pkt.dst, FALSE)>>
                 ELSE << >>
    /\ phase' = "tag"
    /\ UNCHANGED <<pkt, tags, rc>>

\* write_single_metric: the metric type and value written for a metric id;
\* a two-letter code is its low byte then its high byte, "all" is << >>
Decode(id) ==
    LET class == id \div 2^VALBITS
        val   == id % 2^VALBITS
        name  == CASE class = CLASS.COMBINED -> "combined"
                   [] class = CLASS.IP_PROTOCOL -> "ipprotocol"
                   [] class = CLASS.ICMP_CODE -> "icmp-code"
                   [] class = CLASS.ICMP_TYPE -> "icmp-type"
                   [] class = CLASS.TCP_SOURCE_PORT -> "tcpsourceport"
                   [] class = CLASS.TCP_DEST_PORT -> "tcpdestport"
                   [] class = CLASS.UDP_SOURCE_PORT -> "udpsourceport"
                   [] class = CLASS.UDP_DEST_PORT -> "udpdestport"
                   [] class = CLASS.MAXMIND_CONTINENT -> "maxmind-continent"
                   [] class = CLASS.MAXMIND_COUNTRY -> "maxmind-country"
                   [] class = CLASS.NETACQ_CONTINENT -> "netacq-continent"
                   [] class = CLASS.NETACQ_COUNTRY -> "netacq-country"
                   [] class = CLASS.PREFIX_ASN -> "pfx2asn"
                   [] OTHER -> "unset"
        value == CASE class = CLASS.COMBINED -> << >>
                   [] class \in {CLASS.MAXMIND_CONTINENT, CLASS.MAXMIND_COUNTRY,
                                 CLASS.NETACQ_CONTINENT, CLASS.NETACQ_COUNTRY} ->
                        <<val % 256, (val \div 256) % 256>>
                   [] OTHER -> <<val>>
    IN  <<name, value>>

-----------------------------------------------------------------------------

Init ==
    /\ pkt = NoPacket
    /\ tags = [providers_used |-> {}, protocol |-> 0, src_port |-> 0,
               dest_port |-> 0, maxmind_continent |-> 0, maxmind_country |-> 0,
               netacq_continent |-> 0, netacq_country |-> 0, prefixasn |-> 0]
    /\ rc = 0
    /\ bodies = << >>
    /\ phase = "tag"

Next == (\E p \in Packets : TagPacket(p)) \/ ReportPacket

Spec == Init /\ [][Next]_vars

-----------------------------------------------------------------------------
(* What a packet should be counted under (spec section 4.1, step 2), from  *)
(* the packet itself: the combined metric; the protocol when there is a    *)
(* transport header; ICMP type and code, or TCP/UDP ports, when the header *)
(* holds them; and, for an IPv4 source with providers configured, the     *)
(* continent and country of each geolocation record and the ASN of a       *)
(* prefix-to-AS record with a single ASN.                                  *)
SpecRows(p) ==
    LET hdr  == CASE p.proto = TRACE_IPPROTO_ICMP /\ p.rem >= 2 ->
                       {<<"icmp-type", <<p.hdr[1]>>>>, <<"icmp-code", <<p.hdr[2]>>>>}
                  [] p.proto = TRACE_IPPROTO_TCP /\ p.rem >= 4 ->
                       {<<"tcpsourceport", <<p.hdr[1]>>>>, <<"tcpdestport", <<p.hdr[2]>>>>}
                  [] p.proto = TRACE_IPPROTO_UDP /\ p.rem >= 4 ->
                       {<<"udpsourceport", <<p.hdr[1]>>>>, <<"udpdestport", <<p.hdr[2]>>>>}
                  [] OTHER -> {}
        geo(r) == CASE r.source = IPMETA_PROVIDER_MAXMIND ->
                         {<<"maxmind-continent", r.continent>>, <<"maxmind-country", r.country>>}
                    [] r.source = IPMETA_PROVIDER_NETACQ_EDGE ->
                         {<<"netacq-continent", r.continent>>, <<"netacq-country", r.country>>}
                    [] r.source = IPMETA_PROVIDER_PFX2AS /\ Len(r.asn) = 1 ->
                         {<<"pfx2asn", r.asn>>}
                    [] OTHER -> {}
    IN  {<<"combined", << >>>>}
        \cup (IF p.transport THEN {<<"ipprotocol", <<p.proto>>>>} \cup hdr ELSE {})
        \cup (IF ProvidersConfigured /\ p.ipv4
              THEN UNION {geo(p.records[i]) : i \in DOMAIN p.records} ELSE {})

MaxMetricId == 13 * 2^VALBITS

(* TypeOK: tags hold only the basic and provider bits, and every metric id *)
(* of a body is inside the class range of corsaro_report_metric_class_t.   *)
TypeOK ==
    /\ tags.providers_used \subseteq {BASIC, IPMETA_PROVIDER_MAXMIND,
                                      IPMETA_PROVIDER_NETACQ_EDGE, IPMETA_PROVIDER_PFX2AS}
    /\ rc \in {0, -1}
    /\ phase \in {"tag", "report"}
    /\ \A b \in Range(bodies) : \A i \in DOMAIN b.tags : b.tags[i] \in 0 .. MaxMetricId - 1

(* TagsMatchPacket: the rows written for the metric ids of a packet's      *)
(* source body (corsaro_tag_packet, then process_tags, then the decoding   *)
(* of write_single_metric) are exactly what the packet should be counted   *)
(* under, each once; the destination body has the same tags and carries no *)
(* bytes; and every IPv4 packet the tagger handled without error gets its  *)
(* bodies.                                                                 *)
TagsMatchPacket ==
    phase = "tag" /\ pkt # NoPacket =>
        IF rc = 0 /\ pkt.ipv4
        THEN /\ bodies # << >>
             /\ {Decode(bodies[1].tags[i]) : i \in DOMAIN bodies[1].tags} = SpecRows(pkt)
             /\ Len(bodies[1].tags) = Cardinality(SpecRows(pkt))
             /\ bodies[2].tags = bodies[1].tags
             /\ bodies[1].size = pkt.iplen /\ bodies[2].size = 0
        ELSE bodies = << >>
===============================================================================
