--------------------------- MODULE MC_ReportConfig ---------------------------
(* Option mappings for the later report plugin's configuration: every port *)
(* range form parse_port_ranges distinguishes, alone and in pairs, with     *)
(* 3-byte bitmaps (ports 0 .. 23), and each scalar option at its clamps.   *)
EXTENDS ReportConfig

Tok(n) == [ok |-> TRUE, n |-> n]
ErrTok == [ok |-> FALSE, n |-> 0]        \* strtoul set errno

Single(t) == [type |-> "scalar", dash |-> FALSE, first |-> t, last |-> t]
Rng(a, b) == [type |-> "scalar", dash |-> TRUE, first |-> a, last |-> b]
NonScalar == [type |-> "sequence", dash |-> FALSE, first |-> ErrTok, last |-> ErrTok]

\* "0", "9", "23", "24" (too high), "99999999999999999999", "3-12", "9-9",
\* "10-30" (capped), "0-23", "15-4", "24-30", "-5", "17-<too long>", [..]
PortItems ==
    {Single(Tok(0)), Single(Tok(9)), Single(Tok(23)), Single(Tok(24)), Single(ErrTok),
     Rng(Tok(3), Tok(12)), Rng(Tok(9), Tok(9)), Rng(Tok(10), Tok(30)), Rng(Tok(0), Tok(23)),
     Rng(Tok(15), Tok(4)), Rng(Tok(24), Tok(30)), Rng(Tok(0), Tok(5)), Rng(Tok(17), ErrTok),
     NonScalar}

Pair(k, vt, s, n, its) == [key |-> k, vtype |-> vt, sval |-> s, num |-> n, items |-> its]
SPair(k, s) == Pair(k, "scalar", s, 0, << >>)
NPair(k, n) == Pair(k, "scalar", "", n, << >>)
LPair(k, its) == Pair(k, "sequence", "", 0, its)
MPair(k, its) == Pair(k, "mapping", "", 0, its)
Doc(prs) == [type |-> "mapping", pairs |-> prs]

Metric(nm) == [type |-> "scalar", name |-> nm]
IpKV(k, s, n) == [key |-> k, sval |-> s, num |-> n]

PortDocs ==
    {Doc(<<LPair("tcp_dest_port_range", <<a>>)>>) : a \in PortItems}
    \cup {Doc(<<LPair("udp_source_port_range", <<a, b>>)>>) : a, b \in PortItems}
    \cup {Doc(<<LPair("tcp_source_port_range", <<a>>), LPair("tcp_source_port_range", <<b>>)>>) :
            a, b \in {Single(Tok(9)), Rng(Tok(15), Tok(4)), NonScalar}}

OptionDocs ==
    {Doc(<<NPair("iptracker_threads", n)>>) : n \in {-1, 0, 4, 33}}
    \cup {Doc(<<NPair("internalhwm", n)>>) : n \in {0, 30, 70000}}
    \cup {Doc(<<SPair("querytaggerlabels", v)>>) : v \in {"yes", "no", "maybe"}}
    \cup {Doc(<<SPair("output_format", v)>>) : v \in {"avro", "libtimeseries", "csv"}}
    \cup {Doc(<<SPair("output_row_label", "darknet")>>),
          Doc(<<SPair("geoasn_whitelist_file", "a"), SPair("geoasn_whitelist_file", "b")>>),
          Doc(<<SPair("geo_mode", "full"), SPair("geo_mode", "medium")>>),
          Doc(<<LPair("iptracker_threads", << >>)>>),
          [type |-> "sequence", pairs |-> << >>]}
    \cup {Doc(<<LPair("limitmetrics", l), SPair("geo_mode", g)>>) :
            l \in {<<Metric("basic")>>, <<Metric("netacq"), Metric("maxmind")>>,
                   <<Metric("ipinfo")>>, <<Metric("foo")>>,
                   <<Metric("basic"), [type |-> "sequence", name |-> ""], Metric("netacq")>>},
            g \in {"lite", "full"}}
    \cup {Doc(<<MPair(k, l)>>) :
            k \in {"source_ip_counting", "dest_ip_counting"},
            l \in {<<IpKV("method", "sample", 0), IpKV("subnetmask", "", 24)>>,
                   <<IpKV("subnetmask", "", 0), IpKV("method", "prefixagg", 0)>>,
                   <<IpKV("subnetmask", "", 40), IpKV("method", "bogus", 0)>>,
                   <<IpKV("method", "none", 0)>>}}

MCDocs == PortDocs \cup OptionDocs

\* the default options with geo_mode lite
MCDocsLite == {Doc(<<SPair("geo_mode", "lite")>>),
               Doc(<<LPair("limitmetrics", <<Metric("netacq")>>), SPair("geo_mode", "lite")>>)}

\* the default queue mark and one above 65535
MCDocsHwm == {Doc(<<NPair("internalhwm", n)>>) : n \in {30, 70000}}
===============================================================================
