------------------------------ MODULE MetricSeen ------------------------------
(***************************************************************************)
(* The per-IP metric bookkeeping of an IP tracker thread                    *)
(* (src/libcorsaro3/plugins/corsaro_report.c): an IP's first                *)
(* METRIC_ARRAY_SIZE metrics live in the array firstmetrics, and when a new *)
(* metric arrives at a full array the entries are copied into the hash map  *)
(* metricsseen, which is used from then on.  Each entry carries the metval  *)
(* bits (0x01 seen as source, 0x02 seen as destination) that decide whether *)
(* the metric's unique source or destination count grows.                  *)
(***************************************************************************)
EXTENDS Naturals, Sequences, FiniteSets, Bitwise, KnownIpOps

CONSTANTS
    Bodies,             \* update bodies [ipaddr, issrc, tags, size]
    METRIC_ARRAY_SIZE,
    MaxUpdates          \* bodies applied in one run

VARIABLES
    knownips,   \* ipaddr -> [firstmetrics, metriccount, metricsseen]
    tally,      \* metricid -> corsaro_metric_ip_hash_t tally
    updates

vars == <<knownips, tally, updates>>

\* update_iphash: a new entry has an empty array and an empty hash map
NewIpHash == [firstmetrics |-> << >>, metriccount |-> 0, metricsseen |-> << >>]

\* the metval bit for this observation
Bit(issrc) == IF issrc THEN 1 ELSE 2

\* the tally after setting the bit in metval for the first time
CountNew(t, issrc) == IF issrc THEN [t EXCEPT !.srcips = @ + 1]
                               ELSE [t EXCEPT !.destips = @ + 1]

\* update_metric_map: result [ip, t] for IP entry ip and metric tally t
UpdateMetricMap(ip, metricid, issrc, t) ==
    LET isnew  == metricid \notin DOMAIN ip.metricsseen
        seen   == IF isnew THEN (metricid :> 0) @@ ip.metricsseen ELSE ip.metricsseen
        count  == IF isnew THEN ip.metriccount + 1 ELSE ip.metriccount
        metval == seen[metricid]
        first  == (metval & Bit(issrc)) = 0
    IN  [ip |-> [ip EXCEPT !.metricsseen = IF first
                                           THEN [seen EXCEPT ![metricid] = metval | Bit(issrc)]
                                           ELSE seen,
                           !.metriccount = count],
         t  |-> IF first THEN CountNew(t, issrc) ELSE t]

\* the array entries copied into the hash map when the array is full
ArrayToMap(ip) ==
    [m \in {ip.firstmetrics[i].metricid : i \in 1 .. ip.metriccount} |->
        (CHOOSE e \in Range(ip.firstmetrics) : e.metricid = m).metval]
       @@ ip.metricsseen

\* the conversion: every array entry put into the hash map
MoveArrayToMap_nocopy(ip) == ip
MoveArrayToMap(ip) == [ip EXCEPT !.metricsseen = ArrayToMap(ip)]

\* metriccount == METRIC_ARRAY_SIZE: no free array slot
ArrayFull_late(ip) == ip.metriccount = METRIC_ARRAY_SIZE + 1
ArrayFull(ip) == ip.metriccount = METRIC_ARRAY_SIZE

\* update_metric_array: look the metric up in the array; if it is absent and
\* the array is full, move the array into the hash map and use
\* update_metric_map; if absent otherwise, take the next slot
UpdateMetricArray(ip, metricid, issrc, t) ==
    IF \E i \in 1 .. ip.metriccount : ip.firstmetrics[i].metricid = metricid
    THEN LET i      == CHOOSE j \in 1 .. ip.metriccount : ip.firstmetrics[j].metricid = metricid
             metval == ip.firstmetrics[i].metval
             first  == (metval & Bit(issrc)) = 0
         IN  [ip |-> IF first THEN [ip EXCEPT !.firstmetrics[i].metval = metval | Bit(issrc)]
                              ELSE ip,
              t  |-> IF first THEN CountNew(t, issrc) ELSE t]
    ELSE IF ArrayFull(ip)
    THEN UpdateMetricMap(MoveArrayToMap(ip), metricid, issrc, t)
    ELSE [ip |-> [ip EXCEPT !.firstmetrics = Append(@, [metricid |-> metricid,
                                                          metval |-> Bit(issrc)]),
                            !.metriccount = @ + 1],
          t  |-> CountNew(t, issrc)]

\* update_knownip_metric: create the tally if needed, count the packet, and
\* use the array while the IP has at most METRIC_ARRAY_SIZE metrics
UpdateKnownIpMetricDetail(st, b, metricid) ==
    LET ip  == st.knownips[b.ipaddr]
        t0  == IF metricid \in DOMAIN st.tally THEN st.tally[metricid] ELSE ZeroTally
        t1  == IF b.size > 0 THEN [t0 EXCEPT !.packets = @ + 1, !.bytes = @ + b.size]
                             ELSE t0
        r   == IF ip.metriccount <= METRIC_ARRAY_SIZE
               THEN UpdateMetricArray(ip, metricid, b.issrc, t1)
               ELSE UpdateMetricMap(ip, metricid, b.issrc, t1)
    IN  [knownips |-> [st.knownips EXCEPT ![b.ipaddr] = r.ip],
         tally    |-> (metricid :> r.t) @@ st.tally]

\* process_msg_body for one body: find or create the IP entry (update_iphash,
\* only when the body has a tag) and apply every tag
ProcessMsgBodyDetail(b) ==
    /\ updates < MaxUpdates
    /\ LET st0 == [knownips |-> IF b.tags # << >> /\ b.ipaddr \notin DOMAIN knownips
                                THEN (b.ipaddr :> NewIpHash) @@ knownips
                                ELSE knownips,
                   tally    |-> tally]
           st  == FoldLeft(LAMBDA s, m : UpdateKnownIpMetricDetail(s, b, m), st0, b.tags)
       IN  /\ knownips' = st.knownips
           /\ tally' = st.tally
    /\ updates' = updates + 1

Init == knownips = << >> /\ tally = << >> /\ updates = 0

Next == \E b \in Bodies : ProcessMsgBodyDetail(b)

Spec == Init /\ [][Next]_vars

-----------------------------------------------------------------------------

\* the metval bits an IP entry holds: the array while metriccount <= the
\* array size (the test update_knownip_metric makes), the hash map after
Recorded(ip) ==
    IF ip.metriccount <= METRIC_ARRAY_SIZE
    THEN {<<ip.firstmetrics[i].metricid, ip.firstmetrics[i].metval>> : i \in 1 .. ip.metriccount}
    ELSE {<<m, ip.metricsseen[m]>> : m \in DOMAIN ip.metricsseen}

SeenBits ==
    UNION {{<<a, e[1], bit>> : bit \in {b \in {SRC, DST} : (e[2] & b) # 0}} :
           <<a, e>> \in UNION {{a} \X Recorded(knownips[a]) : a \in DOMAIN knownips}}

Abstract == INSTANCE KnownIpSpec WITH ips <- SeenBits, tally <- tally

(* TypeOK: every IP entry has a metric count and never more array entries *)
(* than firstmetrics has slots: the conversion to the hash map happens     *)
(* before a METRIC_ARRAY_SIZE+1-th slot would be written.                   *)
TypeOK ==
    \A a \in DOMAIN knownips :
        /\ Len(knownips[a].firstmetrics) <= METRIC_ARRAY_SIZE
        /\ knownips[a].metriccount \in Nat

(* ImplementsKnownIpSpec: applying bodies to the array-then-hash structures *)
(* counts the same unique sources and destinations, packets and bytes per   *)
(* metric as remembering every <<ip, metric, bit>> in one set: the array is *)
(* moved into the hash map without losing a bit, at the moment              *)
(* update_knownip_metric stops consulting it.                               *)
ImplementsKnownIpSpec == Abstract!Spec
===============================================================================
