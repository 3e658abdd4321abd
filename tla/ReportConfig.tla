----------------------------- MODULE ReportConfig -----------------------------
(***************************************************************************)
(* Configuration of the later report plugin                                *)
(* (src/libcorsaro/plugins/report/corsaro_report.c):                       *)
(* corsaro_report_parse_config walks the YAML mapping of the plugin's      *)
(* options once, with parse_port_ranges, parse_ip_counting,                *)
(* parse_metric_limits and parse_onoff_option for the structured ones, and *)
(* fills in the unset port bitmaps; corsaro_report_finalise_config then    *)
(* applies the label default and the geo mode and hands the metric classes *)
(* to the IP tracker threads.                                              *)
(*                                                                         *)
(* A port bitmap has PORTBYTES bytes (8192 in the code), a port p being    *)
(* bit 7 - p % 8 of byte p \div 8; MAXPORT is its last port (65535).        *)
(* A number in the YAML is a token [ok, n]: ok is FALSE when strtoul sets  *)
(* errno, and a string with no digits reads as n = 0.                     *)
(***************************************************************************)
EXTENDS Integers, Sequences, FiniteSets, Bitwise, SequencesExt

CONSTANTS
    Docs,            \* the plugin's options: [type, pairs], a pair being
                     \* [key, vtype, sval, num, items] (string, number, list)
    PORTBYTES,
    MAX_IPTRACKERS,  \* CORSARO_REPORT_MAX_IPTRACKERS
    PROCTHREADS,     \* stdopts->procthreads, the packet processing threads
    Faults,          \* subset of {"alloc", "zmq"}: malloc/calloc may fail,
                     \* one ZeroMQ call on one socket may fail
    DestroyFrom      \* the phases after which the framework calls
                     \* destroy_self: "final", and "parsed" when a later
                     \* plugin's configuration fails first

MAXPORT == PORTBYTES * 8 - 1
INVALID_PORT == -1

PortKeys == {"tcp_source_port_range", "tcp_dest_port_range",
             "udp_source_port_range", "udp_dest_port_range"}

\* corsaro_report_metric_class_t values used here
NETACQ_CONTINENT == 3
MAXMIND_CONTINENT == 1
IPINFO_CONTINENT == 14
NETACQ_REGION == 12
NETACQ_POLYGON == 13
IPINFO_REGION == 16

\* the classes each limitmetrics name enables
MetricGroup ==
    [basic |-> {0, 10}, tcpports |-> {6, 7}, udpports |-> {8, 9}, icmp |-> {11},
     netacq |-> {3, 4, 12, 13}, maxmind |-> {1, 2}, ipinfo |-> {14, 15, 16},
     pfx2asn |-> {5, 17, 18}, filter |-> {19}]

\* IS_METRIC_ALLOWED: the empty set (0) stands for every class
IS_METRIC_ALLOWED(allowed, metric) == allowed = {} \/ metric \in allowed

VARIABLES
    conf,    \* corsaro_report_config_t
    trackerclasses,  \* allowedmetricclasses handed to the IP trackers
    phase,   \* "start", "parsed", "rejected", "final", "destroyed", "crash"
    doc,     \* the options parsed
    heap,    \* the blocks malloc'd and not freed: [kind, id]
    sock,    \* every ZeroMQ socket made: [peer, hwm, ok, open]
    mutex,   \* the trackers whose mutex is initialised and not destroyed
    threads, \* the trackers whose thread pthread_create started
    ret,     \* the return value of corsaro_report_finalise_config
    ub       \* the undefined behaviours that have happened

vars == <<conf, trackerclasses, phase, doc, heap, sock, mutex, threads, ret, ub>>

May(f) == IF f \in Faults THEN BOOLEAN ELSE {FALSE}
Block(k, i) == [kind |-> k, id |-> i]
Pull(i) == <<"pull", i>>
Push(q) == <<"push", q>>

-----------------------------------------------------------------------------
(* Port ranges *)

\* strtoport
StrToPort(tok, capmax) ==
    CASE ~tok.ok                      -> INVALID_PORT
      [] tok.n > MAXPORT /\ ~capmax   -> INVALID_PORT
      [] tok.n > MAXPORT              -> MAXPORT
      [] OTHER                        -> tok.n

\* the range of one scalar item, or << >> when it is skipped
ItemRange(item) ==
    LET first == StrToPort(item.first, FALSE)
        last  == IF item.dash THEN StrToPort(item.last, TRUE) ELSE first
    IN  IF first = INVALID_PORT \/ last = INVALID_PORT \/ last < first
        THEN << >> ELSE <<first, last>>

\* the bits of byte index that lie in first .. last
ByteMask_msbfirst(index, first, last) ==
    LET msb == index * 8
        lsb == msb + 7
        lo  == IF first > msb THEN IF first - msb >= 8 THEN 0 ELSE shiftR(255, first - msb + 1)
               ELSE 255
        hi  == IF last < lsb THEN IF lsb - last >= 8 THEN 0 ELSE (255 * 2^(lsb - last)) % 256
               ELSE 255
    IN  lo & hi
ByteMask(index, first, last) ==
    LET msb == index * 8
        lsb == msb + 7
        lo  == IF first > msb THEN IF first - msb >= 8 THEN 0 ELSE shiftR(255, first - msb)
               ELSE 255
        hi  == IF last < lsb THEN IF lsb - last >= 8 THEN 0 ELSE (255 * 2^(lsb - last)) % 256
               ELSE 255
    IN  lo & hi

\* the fill loop: from byte first \div 8 up to the byte holding last
FillRange(bm, first, last) ==
    [i \in DOMAIN bm |-> IF i >= first \div 8 /\ i * 8 <= last
                         THEN bm[i] | ByteMask(i, first, last) ELSE bm[i]]

AllPorts == [i \in 0 .. PORTBYTES - 1 |-> 255]
NoPorts  == [i \in 0 .. PORTBYTES - 1 |-> 0]

\* parse_port_ranges over the items of one option: a non-scalar item ends
\* the walk; the first valid range clears the bitmap
ParsePortRanges(acc, items) ==
    LET step(a, item) ==
          IF a.stop THEN a
          ELSE IF item.type # "scalar" THEN [a EXCEPT !.stop = TRUE]
          ELSE LET r == ItemRange(item)
               IN  IF r = << >> THEN a
                   ELSE [a EXCEPT !.bm = FillRange(IF a.seen THEN @ ELSE NoPorts, r[1], r[2]),
                                  !.seen = TRUE]
    IN  FoldLeft(step, [acc EXCEPT !.stop = FALSE], items)

-----------------------------------------------------------------------------
(* The other options *)

\* parse_ip_counting
ParseIpCounting(ipconf, pairs) ==
    LET step(c, pr) ==
          CASE pr.key = "method" /\ pr.sval \in {"sample", "prefixagg", "none"} ->
                 [c EXCEPT !.method = IF pr.sval = "none" THEN "all" ELSE pr.sval]
            [] pr.key = "subnetmask" ->
                 [c EXCEPT !.pfxbits = IF pr.num > 32 \/ pr.num = 0 THEN 32 ELSE pr.num]
            [] OTHER -> c
    IN  FoldLeft(step, ipconf, pairs)

\* parse_metric_limits: a non-scalar item resets to 0 (every class) and
\* ends the walk
ParseMetricLimits(allowed, items) ==
    LET step(a, item) ==
          IF a.stop THEN a
          ELSE IF item.type # "scalar" THEN [allowed |-> {}, stop |-> TRUE]
          ELSE IF item.name \in DOMAIN MetricGroup
               THEN [a EXCEPT !.allowed = @ \cup MetricGroup[item.name]]
               ELSE a
    IN  FoldLeft(step, [allowed |-> allowed, stop |-> FALSE], items).allowed

\* iptracker_threads, clamped to 1 .. MAX_IPTRACKERS
ClampTrackers_nomin(n) == IF n > MAX_IPTRACKERS THEN MAX_IPTRACKERS ELSE n
ClampTrackers(n) == IF n < 1 THEN 1 ELSE IF n > MAX_IPTRACKERS THEN MAX_IPTRACKERS ELSE n

\* one pair of the option mapping
ParsePair(c, pr) ==
    CASE pr.key \in PortKeys /\ pr.vtype = "sequence" ->
           LET r == ParsePortRanges([bm |-> c.ports[pr.key], seen |-> c.seen[pr.key],
                                     stop |-> FALSE], pr.items)
           IN  [c EXCEPT !.ports[pr.key] = r.bm, !.seen[pr.key] = r.seen]
      [] pr.key = "source_ip_counting" /\ pr.vtype = "mapping" ->
           [c EXCEPT !.src_ipcount = ParseIpCounting(@, pr.items)]
      [] pr.key = "dest_ip_counting" /\ pr.vtype = "mapping" ->
           [c EXCEPT !.dst_ipcount = ParseIpCounting(@, pr.items)]
      [] pr.key = "limitmetrics" /\ pr.vtype = "sequence" ->
           [c EXCEPT !.allowed = ParseMetricLimits(@, pr.items)]
      [] pr.key = "iptracker_threads" /\ pr.vtype = "scalar" ->
           [c EXCEPT !.tracker_count = ClampTrackers(pr.num)]
      [] pr.key = "internalhwm" /\ pr.vtype = "scalar" ->
           [c EXCEPT !.internalhwm = IF pr.num > 65535 THEN 0 ELSE pr.num]
      [] pr.key = "querytaggerlabels" /\ pr.vtype = "scalar" ->
           [c EXCEPT !.query_tagger_labels =
                        IF pr.sval \in {"yes", "true", "on", "enabled"} THEN 1 ELSE 0]
      [] pr.key = "geo_mode" /\ pr.vtype = "scalar" /\ pr.sval \in {"lite", "full"} ->
           [c EXCEPT !.geomode = pr.sval]
      [] pr.key = "output_row_label" /\ pr.vtype = "scalar" ->
           [c EXCEPT !.outlabel = pr.sval]
      [] pr.key = "geoasn_whitelist_file" /\ pr.vtype = "scalar" ->
           [c EXCEPT !.whitelist = pr.sval]
      [] pr.key = "output_format" /\ pr.vtype = "scalar" ->
           [c EXCEPT !.outformat = IF pr.sval = "libtimeseries" THEN pr.sval ELSE "avro"]
      [] OTHER -> c

\* the defaults corsaro_report_parse_config starts from
Defaults ==
    [outlabel |-> "NULL", whitelist |-> "NULL", outformat |-> "avro", tracker_count |-> 4,
     query_tagger_labels |-> 1, internalhwm |-> 30, allowed |-> {},
     geomode |-> "full",
     src_ipcount |-> [method |-> "all", pfxbits |-> 32],
     dst_ipcount |-> [method |-> "all", pfxbits |-> 32],
     ports |-> [k \in PortKeys |-> NoPorts], seen |-> [k \in PortKeys |-> FALSE]]

\* corsaro_report_parse_config: the config is malloc'd (-1 if that fails);
\* a non-mapping is freed and rejected; otherwise every pair, then every
\* port bitmap no valid range was given for is all ones
ParseConfig(d) ==
    /\ phase = "start"
    /\ doc' = d
    /\ \E nomem \in May("alloc") :
         IF nomem \/ d.type # "mapping"
         THEN /\ phase' = "rejected"
              /\ UNCHANGED <<conf, heap>>
         ELSE LET c == FoldLeft(ParsePair, Defaults, d.pairs)
              IN  /\ conf' = [c EXCEPT !.ports = [k \in PortKeys |->
                                         IF c.seen[k] THEN c.ports[k] ELSE AllPorts]]
                  /\ heap' = {Block("conf", 0)}
                             \cup {Block(k, 0) : k \in {f \in {"outlabel", "whitelist"} : c[f] # "NULL"}}
                  /\ phase' = "parsed"
    /\ UNCHANGED <<trackerclasses, sock, mutex, threads, ret, ub>>

QueueId_trackers(i, j) == i * conf.tracker_count + j
\* the push socket of processing thread j for tracker i
QueueId(i, j) == i * PROCTHREADS + j

\* the (tracker, thread) pairs of the two nested set-up loops, in order
LoopOrder(tc) == [k \in 1 .. tc * PROCTHREADS |-> <<(k - 1) \div PROCTHREADS, (k - 1) % PROCTHREADS>>]

\* the sockets finalise_config makes: tracker i's PULL socket, bound to
\* inproc://reporttracker<i> with ZMQ_RCVHWM inchwm, and per (i, j) a PUSH
\* socket at tracker_queues[QueueId(i, j)] with ZMQ_SNDHWM hwm, connected to
\* it; a later socket stored at the same slot replaces the earlier one
TrackerSockets(tc, hwm, inchwm, bad) ==
    LET pulls  == [s \in {Pull(i) : i \in 0 .. tc - 1} |->
                     [peer |-> s[2], hwm |-> inchwm, ok |-> s \notin bad, open |-> TRUE]]
        L      == LoopOrder(tc)
        slot(k) == QueueId(L[k][1], L[k][2])
        last(q) == Max({k \in DOMAIN L : slot(k) = q})
        pushes == [s \in {Push(slot(k)) : k \in DOMAIN L} |->
                     [peer |-> L[last(s[2])][1], hwm |-> hwm, ok |-> s \notin bad, open |-> TRUE]]
    IN  pulls @@ pushes

\* the blocks finalise_config holds: the label (strdup'd if unset),
\* the iptrackers and tracker_queues arrays, and per tracker its
\* outstanding list and sourcetrack array
TrackerBlocks(T) ==
    {Block("outlabel", 0), Block("iptrackers", 0), Block("tracker_queues", 0)}
        \cup {Block(k, i) : k \in {"outstanding", "sourcetrack"}, i \in T}

\* corsaro_report_finalise_config: the label default, then the geo mode,
\* which removes regions and polygons when a continent class is set; then
\* hwm = internalhwm and inchwm = hwm * procthreads, the tracker array and
\* the tracker_queues array are calloc'd (an unchecked NULL is dereferenced
\* at the first tracker), and every tracker gets its mutex, the classes,
\* its outstanding list and sourcetrack array, its sockets, and its
\* thread.  A failing ZeroMQ call logs, makes the result -1 and the loop
\* goes on.
FinaliseConfig ==
    /\ phase = "parsed"
    /\ LET geo  == \E m \in {NETACQ_CONTINENT, IPINFO_CONTINENT, MAXMIND_CONTINENT} :
                      m \in conf.allowed
           lite == geo /\ conf.geomode = "lite"
           cls  == IF lite THEN conf.allowed \ {NETACQ_REGION, NETACQ_POLYGON, IPINFO_REGION}
                   ELSE conf.allowed
           tc   == conf.tracker_count
           T    == 0 .. tc - 1
           hwm  == conf.internalhwm
       IN  /\ conf' = [conf EXCEPT !.outlabel = IF @ = "NULL" THEN "unlabeled" ELSE @,
                                   !.allowed = cls]
           /\ \E nomem \in May("alloc") :
                IF nomem
                THEN /\ phase' = "crash"
                     /\ ub' = ub \cup {"null_deref"}
                     /\ UNCHANGED <<trackerclasses, heap, sock, mutex, threads, ret>>
                ELSE \E bad \in {{}} \cup (IF "zmq" \in Faults
                                            THEN {{s} : s \in DOMAIN TrackerSockets(tc, hwm, 0, {})}
                                            ELSE {}) :
                     /\ trackerclasses' = cls
                     /\ heap' = heap \cup TrackerBlocks(T)
                     /\ sock' = TrackerSockets(tc, hwm, hwm * PROCTHREADS, bad)
                     /\ mutex' = T
                     /\ threads' = T
                     /\ ret' = IF bad = {} THEN 0 ELSE -1
                     /\ phase' = "final"
                     /\ UNCHANGED ub
    /\ UNCHANGED doc

DestroyQueueIds_short(i) == {i * PROCTHREADS + j : j \in 0 .. PROCTHREADS - 2}
\* the tracker_queues slots destroy_self closes for tracker i
DestroyQueueIds(i) == {i * PROCTHREADS + j : j \in 0 .. PROCTHREADS - 1}

\* corsaro_report_destroy_self: free the label; if iptrackers is set, for
\* every tracker destroy its mutex, close its PULL socket and its
\* procthreads PUSH sockets, free its inbuf (NULL: only the tracker thread
\* sets it), sourcetrack and outstanding list, then the two arrays; then
\* the config.  Before finalise_config, iptrackers is whatever malloc left:
\* read uninitialised, it is either NULL or a crash.
DestroySelf ==
    /\ phase \in DestroyFrom
    /\ phase \in {"parsed", "final"}
    /\ IF phase = "parsed"
       THEN \E zero \in BOOLEAN :
              /\ ub' = ub \cup {"uninitialised_read"}
              /\ heap' = IF zero THEN {} ELSE heap \ {Block("outlabel", 0), Block("whitelist", 0)}
              /\ phase' = IF zero THEN "destroyed" ELSE "crash"
              /\ UNCHANGED <<sock, mutex>>
       ELSE LET T      == 0 .. conf.tracker_count - 1
                closed == {Pull(i) : i \in T} \cup {Push(q) : q \in UNION {DestroyQueueIds(i) : i \in T}}
            IN  /\ sock' = [s \in DOMAIN sock |->
                              IF s \in closed THEN [sock[s] EXCEPT !.open = FALSE] ELSE sock[s]]
                /\ mutex' = mutex \ T
                /\ heap' = heap \ (TrackerBlocks(T) \cup {Block("whitelist", 0), Block("conf", 0)})
                /\ phase' = "destroyed"
                /\ UNCHANGED ub
    /\ UNCHANGED <<conf, trackerclasses, doc, threads, ret>>

Init ==
    /\ conf = Defaults
    /\ trackerclasses = {}
    /\ phase = "start"
    /\ doc = [type |-> "none", pairs |-> << >>]
    /\ heap = {}
    /\ sock = <<>>
    /\ mutex = {}
    /\ threads = {}
    /\ ret = 0
    /\ ub = {}

Next == (\E d \in Docs : ParseConfig(d)) \/ FinaliseConfig \/ DestroySelf

Spec == Init /\ [][Next]_vars

-----------------------------------------------------------------------------

\* the ports a bitmap marks allowed
PortsOf(bm) == {p \in 0 .. MAXPORT : (bm[p \div 8] \div 2^(7 - (p % 8))) % 2 = 1}

\* the ports one list item names: a single port, or first .. last with last
\* capped at the highest port
NamedPorts(item) ==
    IF ~item.first.ok \/ item.first.n > MAXPORT THEN {}
    ELSE IF ~item.dash THEN {item.first.n}
    ELSE IF ~item.last.ok THEN {}
    ELSE item.first.n .. IF item.last.n > MAXPORT THEN MAXPORT ELSE item.last.n

\* the items of option k that are read: those before a non-scalar item
ReadItems(k) ==
    LET lists == SelectSeq(doc.pairs, LAMBDA pr : pr.key = k /\ pr.vtype = "sequence")
        upto(l) == LET bad == {i \in DOMAIN l : l[i].type # "scalar"}
                   IN  IF bad = {} THEN Range(l) ELSE {l[i] : i \in 1 .. Min(bad) - 1}
    IN  UNION {upto(lists[j].items) : j \in DOMAIN lists}

(* TypeOK: the options after parsing are within the ranges the plugin uses: *)
(* 1 .. MAX_IPTRACKERS tracker threads, a 16-bit queue mark, prefix lengths *)
(* 1 .. 32 and byte-valued port bitmaps.                                   *)
TypeOK ==
    /\ phase \in {"start", "parsed", "rejected", "final", "destroyed", "crash"}
    /\ conf.tracker_count \in 1 .. MAX_IPTRACKERS
    /\ conf.internalhwm \in 0 .. 65535
    /\ \A ic \in {conf.src_ipcount, conf.dst_ipcount} :
          ic.method \in {"all", "sample", "prefixagg"} /\ ic.pfxbits \in 1 .. 32
    /\ \A k \in PortKeys : \A i \in 0 .. PORTBYTES - 1 : conf.ports[k][i] \in 0 .. 255
    /\ trackerclasses \subseteq 0 .. 19
    /\ \A s \in DOMAIN sock : sock[s].peer \in 0 .. MAX_IPTRACKERS - 1 /\ sock[s].open \in BOOLEAN
    /\ mutex \subseteq threads /\ threads \subseteq 0 .. MAX_IPTRACKERS - 1
    /\ ret \in {0, -1}
    /\ ub \subseteq {"null_deref", "uninitialised_read"}

(* PortBitmapMatchesRanges: after corsaro_report_parse_config each of the  *)
(* four port bitmaps marks exactly the ports its option's ranges name      *)
(* (over every occurrence of the option, a high end capped at the highest  *)
(* port), and every port when the option names none: the byte-wise fill   *)
(* loop of parse_port_ranges, with its partial first and last bytes, and   *)
(* the memset of an unset bitmap, agree with the ranges as written.        *)
PortBitmapMatchesRanges ==
    phase \in {"parsed", "final"} =>
        \A k \in PortKeys :
            LET named == UNION {NamedPorts(it) : it \in ReadItems(k)}
            IN  PortsOf(conf.ports[k]) = IF named = {} THEN 0 .. MAXPORT ELSE named

(* GeoLiteLimitsRegions: with geo_mode lite the IP trackers count no       *)
(* region or polygon metric (the configuration's "LITE: continent and      *)
(* country only"), whatever limitmetrics says.  corsaro_report_finalise_   *)
(* config only removes them when a continent class bit is set, so the      *)
(* default "every class" (0) keeps them.                                   *)
GeoLiteLimitsRegions ==
    phase = "final" /\ conf.geomode = "lite" =>
        \A m \in {NETACQ_REGION, NETACQ_POLYGON, IPINFO_REGION} :
            ~IS_METRIC_ALLOWED(trackerclasses, m)

(* InboxHwmCoversSenders: when corsaro_report_finalise_config returns 0,   *)
(* every slot 0 .. tracker_count * procthreads - 1 of tracker_queues holds *)
(* a PUSH socket, and each tracker's PULL socket has a receive high-water  *)
(* mark equal to the sum of the send marks of the PUSH sockets connected   *)
(* to it, one per processing thread (the inbox of section 3 of the spec:   *)
(* "send_hwm x processors").  The slot arithmetic of the nested loops and  *)
(* the inchwm product must agree for this.                                 *)
InboxHwmCoversSenders ==
    phase = "final" /\ ret = 0 =>
        LET tc == conf.tracker_count
        IN  /\ \A q \in 0 .. tc * PROCTHREADS - 1 : Push(q) \in DOMAIN sock
            /\ \A i \in 0 .. tc - 1 :
                 sock[Pull(i)].hwm =
                   MapThenSumSet(LAMBDA s : sock[s].hwm,
                                 {s \in DOMAIN sock : s[1] = "push" /\ sock[s].peer = i})

(* TeardownReleasesAll: once corsaro_report_destroy_self has run on a      *)
(* finalised configuration, every block parse_config and finalise_config   *)
(* allocated is freed, every socket finalise_config made is closed (even   *)
(* the ones whose set-up failed) and every tracker mutex is destroyed:    *)
(* the teardown loops walk the same tracker_count x procthreads slots the  *)
(* set-up filled.                                                          *)
TeardownReleasesAll ==
    phase = "destroyed" /\ ub = {} =>
        /\ heap = {}
        /\ \A s \in DOMAIN sock : ~sock[s].open
        /\ mutex = {}

(* InboxBounded: every socket between the processing threads and the IP  *)
(* trackers has a high-water mark, so a slow tracker blocks its senders   *)
(* (the spec's "per-tracker bounded inbox" with backpressure).  An         *)
(* internalhwm above 65535 is stored as 0, which ZeroMQ takes as no mark.  *)
InboxBounded ==
    phase = "final" => \A s \in DOMAIN sock : sock[s].hwm > 0

(* NoMemoryError: parsing, finalising and destroying the configuration     *)
(* never dereferences an unchecked NULL from calloc nor reads the          *)
(* uninitialised iptrackers field.                                         *)
NoMemoryError == ub = {}

===============================================================================
