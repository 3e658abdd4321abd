------------------------------ MODULE KnownIpOps ------------------------------
(***************************************************************************)
(* What an IP tracker records for one interval, in the form the pipeline   *)
(* model uses: the set of <<ip, metric, bit>> observations the tracker's   *)
(* per-IP metricsseen structures hold, and one tally per metric id.        *)
(* MetricSeen shows that the array/hash representation of                  *)
(* src/libcorsaro3/plugins/corsaro_report.c implements this form.          *)
(***************************************************************************)
EXTENDS Naturals, Sequences, SequencesExt, TLC

SRC == 1   \* metval bit 0x01: IP + metric seen as a source
DST == 2   \* metval bit 0x02: IP + metric seen as a destination

\* a new corsaro_metric_ip_hash_t
ZeroTally == [srcips |-> 0, destips |-> 0, packets |-> 0, bytes |-> 0]

\* update_knownip_metric, with the metricsseen bit of update_metric_array /
\* update_metric_map taken as membership of <<ip, metric, bit>> in acc.ips
UpdateKnownIpMetric(acc, b, m) ==
    LET old   == IF m \in DOMAIN acc.tally THEN acc.tally[m] ELSE ZeroTally
        bit   == IF b.issrc THEN SRC ELSE DST
        fresh == <<b.ipaddr, m, bit>> \notin acc.ips
        new   == [old EXCEPT
                    !.packets = IF b.size > 0 THEN @ + 1 ELSE @,
                    !.bytes   = IF b.size > 0 THEN @ + b.size ELSE @,
                    !.srcips  = IF b.issrc /\ fresh THEN @ + 1 ELSE @,
                    !.destips = IF ~b.issrc /\ fresh THEN @ + 1 ELSE @]
    IN  [ips |-> acc.ips \cup {<<b.ipaddr, m, bit>>}, tally |-> (m :> new) @@ acc.tally]

\* process_msg_body after the choice of maps: every tag of the body in order
ProcessMsgBody(acc, b) ==
    FoldLeft(LAMBDA a, m : UpdateKnownIpMetric(a, b, m), acc, b.tags)
===============================================================================
