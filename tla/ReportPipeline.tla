--------------------------- MODULE ReportPipeline ---------------------------
(***************************************************************************)
(* The report plugin of corsarotrace, src/libcorsaro3/plugins/corsaro_report.c *)
(*                                                                         *)
(* Packet processing threads turn every packet into two per-IP updates     *)
(* (source and destination) and batch them into one pending message per   *)
(* IP tracker thread, chosen by the top octet of the address.  At the end  *)
(* of an interval a processing thread flushes its batches and sends an     *)
(* interval message to every tracker.  A tracker tallies packets, bytes    *)
(* and unique source/destination IPs per metric; updates from a thread     *)
(* that has already ended the interval go to the "next" maps.  When every  *)
(* processing thread has ended interval T the tracker publishes its tally  *)
(* as lastresult/lastresultts under its mutex, and the merge thread, which *)
(* polls every tracker, sums the tallies and writes one row per metric.    *)
(***************************************************************************)
EXTENDS Naturals, Sequences, FiniteSets, Functions, SequencesExt, TLC, KnownIpOps

CONSTANTS
    Procs,          \* processing thread ids (msg.sender); |Procs| = sourcethreads
    TrackerCount,   \* conf->tracker_count
    Packets,        \* IPv4 packets as [src, dst, size, tags]: addresses, ip_len
                    \* and the metric ids process_tags derives for the packet
    BatchSize,      \* REPORT_BATCH_SIZE
    MaxInterval,    \* intervals 1..MaxInterval; 0 is the unset timestamp
    MaxPkts,        \* packets a processing thread sees per interval
    HaltMidInterval,\* may a processing thread be halted before it ended
                    \* every interval (TRUE), or only after (FALSE)
    NoResult,       \* lastresult == NULL
    UpdateMsgType   \* the msgtype an update batch carries: nextmsg[] is
                    \* calloc'd and never given a type, so 0 (HALT); the later
                    \* plugin gives it CORSARO_IP_MESSAGE_UPDATE, a value of its own

Trackers  == 0 .. TrackerCount - 1
Intervals == 1 .. MaxInterval
Metrics   == UNION {Range(pk.tags) : pk \in Packets}
IPs       == UNION {{pk.src, pk.dst} : pk \in Packets}

ASSUME /\ Procs # {} /\ TrackerCount \in Nat \ {0}
       /\ BatchSize \in Nat \ {0} /\ MaxInterval \in Nat \ {0}
       \* combined (metric id 0) is always the first tag: process_msg_body asserts it
       /\ \A pk \in Packets : Len(pk.tags) > 0 /\ pk.tags[1] = 0

EmptyMsg == <<>>

VARIABLES
    \* packet processing threads (corsaro_report_state_t)
    nextmsg,            \* nextmsg[p][t]: the update bodies batched for tracker t
    current_interval,   \* current_interval[p]
    pphase,             \* "running", "joining" (in pthread_join), "done"
    \* the libtrace message queue of every tracker
    incoming,
    \* IP tracker threads (corsaro_report_iptracker_t)
    outstanding,        \* Seq of [ts, recvd]: intervals not every thread has ended
    knownips,           \* set of <<ip, metric, bit>> seen in the current interval
    knownips_next,      \* ... and in the next interval
    currentresult,      \* metric id -> tally, current interval
    nextresult,         \* metric id -> tally, next interval
    lastresult,         \* the most recent complete tally, or NoResult
    lastresultts,
    haltphase,          \* 0 running, 1 halt seen with intervals outstanding, 2 exiting
    \* merge thread (corsaro_report_merge_interval_results)
    mergets,            \* fin->timestamp being merged, 0 when idle
    trackers_done,
    results,            \* metric id -> summed tally
    skipresult,
    merged,             \* the last interval the merge thread finished
    emitted,            \* emitted[T]: [status: "none", "skipped", "written"; rows]
    aborted,            \* an assert() fired and the process died
    \* history: the packets every interval saw, and the per-interval packet bound
    observed,           \* observed[T][pk]: how often pk was processed in T
    pcount

procVars    == <<nextmsg, current_interval, pphase, pcount>>
trackerVars == <<outstanding, knownips, knownips_next, currentresult, nextresult,
                 lastresult, lastresultts, haltphase>>
mergeVars   == <<mergets, trackers_done, results, skipresult, merged, emitted>>
vars == <<procVars, incoming, trackerVars, mergeVars, aborted, observed>>

-----------------------------------------------------------------------------
(* Messages and the processing-thread side                                 *)

\* corsaro_report_ip_message_t; interval and halt messages are memset to 0
HALT == 0
INTERVAL == 1
UpdateMsg(p, bodies) ==
    [msgtype |-> UpdateMsgType, sender |-> p, timestamp |-> 0, update |-> bodies]
IntervalMsg(p, ts) == [msgtype |-> INTERVAL, sender |-> p, timestamp |-> ts, update |-> <<>>]
HaltMsg(p) == [msgtype |-> HALT, sender |-> p, timestamp |-> 0, update |-> <<>>]

\* trackerhash = (addr >> 24) % conf->tracker_count
TrackerHash(addr) == (addr \div 2^24) % TrackerCount

\* process_tags: the source update carries ip_len, the destination update 0
Body(pk, issrc) ==
    [ipaddr |-> IF issrc THEN pk.src ELSE pk.dst, issrc |-> issrc,
     tags |-> pk.tags, size |-> IF issrc THEN pk.size ELSE 0]

\* update_metrics_for_address: append the body to the batch of its tracker and
\* push the batch once it holds REPORT_BATCH_SIZE bodies.
AddUpdate(p, st, body) ==
    LET t   == TrackerHash(body.ipaddr)
        msg == Append(st.nextmsg[t], body)
    IN  IF Len(msg) < BatchSize
        THEN [st EXCEPT !.nextmsg[t] = msg]
        ELSE [nextmsg  |-> [st.nextmsg EXCEPT ![t] = EmptyMsg],
              incoming |-> [st.incoming EXCEPT ![t] = Append(@, UpdateMsg(p, msg))]]

\* the pending batch for t, pushed first by end_interval and halt_processing
Flush(p, t) == IF nextmsg[p][t] # EmptyMsg THEN <<UpdateMsg(p, nextmsg[p][t])>>
                                            ELSE <<>>

\* corsaro_report_process_packet: source update, then destination update
ProcessPacket(p, pk) ==
    /\ ~aborted /\ pphase[p] = "running"
    /\ current_interval[p] \in Intervals /\ pcount[p] < MaxPkts
    /\ LET s0 == [nextmsg |-> nextmsg[p], incoming |-> incoming]
           s2 == AddUpdate(p, AddUpdate(p, s0, Body(pk, TRUE)), Body(pk, FALSE))
       IN  /\ nextmsg'  = [nextmsg EXCEPT ![p] = s2.nextmsg]
           /\ incoming' = s2.incoming
    /\ observed' = [observed EXCEPT ![current_interval[p]][pk] = @ + 1]
    /\ pcount' = [pcount EXCEPT ![p] = @ + 1]
    /\ UNCHANGED <<current_interval, pphase, trackerVars, mergeVars, aborted>>

\* corsaro_report_end_interval, followed by corsaro_report_start_interval of
\* the next interval, which the framework calls at the same boundary
EndInterval(p) ==
    /\ ~aborted /\ pphase[p] = "running"
    /\ current_interval[p] \in Intervals
    /\ incoming' = [t \in Trackers |->
                      incoming[t] \o Flush(p, t) \o <<IntervalMsg(p, current_interval[p])>>]
    /\ nextmsg' = [nextmsg EXCEPT ![p] = [t \in Trackers |-> EmptyMsg]]
    /\ current_interval' = [current_interval EXCEPT ![p] = @ + 1]
    /\ pcount' = [pcount EXCEPT ![p] = 0]
    /\ UNCHANGED <<pphase, trackerVars, mergeVars, aborted, observed>>

\* corsaro_report_halt_processing: flush, send HALT to every tracker, then join
HaltProcessing(p) ==
    /\ ~aborted /\ pphase[p] = "running"
    /\ HaltMidInterval \/ current_interval[p] > MaxInterval
    /\ incoming' = [t \in Trackers |-> incoming[t] \o Flush(p, t) \o <<HaltMsg(p)>>]
    /\ nextmsg' = [nextmsg EXCEPT ![p] = [t \in Trackers |-> EmptyMsg]]
    /\ pphase' = [pphase EXCEPT ![p] = "joining"]
    /\ UNCHANGED <<current_interval, pcount, trackerVars, mergeVars, aborted, observed>>

\* pthread_join returns once every tracker thread has left its loop
JoinTrackers(p) ==
    /\ ~aborted /\ pphase[p] = "joining"
    /\ \A t \in Trackers : haltphase[t] = 2
    /\ pphase' = [pphase EXCEPT ![p] = "done"]
    /\ UNCHANGED <<nextmsg, current_interval, pcount, incoming, trackerVars,
                   mergeVars, aborted, observed>>

-----------------------------------------------------------------------------
(* IP tracker threads                                                      *)

\* sender_in_outstanding
SenderInOutstanding_never(outl, sender) == FALSE
SenderInOutstanding(outl, sender) == \E i \in DOMAIN outl : sender \in outl[i].recvd

\* reports_total == limit: every processing thread has ended the interval
IntervalComplete_gt(recv, limit) == Cardinality(recv) > limit
IntervalComplete(recv, limit) == Cardinality(recv) = limit

\* update_outstanding with the sender left unmarked in a new entry
UpdateOutstanding_unmarked(outl, ts, limit, sender) ==
    IF \E i \in DOMAIN outl : outl[i].interval_ts = ts
    THEN LET i    == CHOOSE j \in DOMAIN outl : outl[j].interval_ts = ts
             recv == outl[i].recvd \cup {sender}
         IN  IF IntervalComplete(recv, limit)
             THEN [list |-> SubSeq(outl, i + 1, Len(outl)), complete |-> ts]
             ELSE [list |-> [outl EXCEPT ![i].recvd = recv], complete |-> 0]
    ELSE [list |-> Append(outl, [interval_ts |-> ts, recvd |-> {}]), complete |-> 0]

\* update_outstanding: the new list and the timestamp of the interval that
\* every thread has now ended (0 if none).  A completed interval is popped
\* together with every older, still incomplete, one.
UpdateOutstanding(outl, ts, limit, sender) ==
    IF \E i \in DOMAIN outl : outl[i].interval_ts = ts
    THEN LET i    == CHOOSE j \in DOMAIN outl : outl[j].interval_ts = ts
             recv == outl[i].recvd \cup {sender}
         IN  IF IntervalComplete(recv, limit)
             THEN [list |-> SubSeq(outl, i + 1, Len(outl)), complete |-> ts]
             ELSE [list |-> [outl EXCEPT ![i].recvd = recv], complete |-> 0]
    ELSE [list |-> Append(outl, [interval_ts |-> ts, recvd |-> {sender}]),
          complete |-> 0]

TrackerRunning(t) == ~aborted /\ haltphase[t] # 2 /\ incoming[t] # <<>>

\* an update message: apply every body to the current or the next maps
TrackerUpdate(t) ==
    LET msg     == Head(incoming[t])
        useNext == SenderInOutstanding(outstanding[t], msg.sender)
        base    == IF useNext THEN [ips |-> knownips_next[t], tally |-> nextresult[t]]
                              ELSE [ips |-> knownips[t], tally |-> currentresult[t]]
        acc     == FoldLeft(ProcessMsgBody, base, msg.update)
    IN
    /\ TrackerRunning(t) /\ msg.msgtype \notin {HALT, INTERVAL}
    /\ incoming' = [incoming EXCEPT ![t] = Tail(@)]
    /\ IF useNext
       THEN /\ knownips_next' = [knownips_next EXCEPT ![t] = acc.ips]
            /\ nextresult' = [nextresult EXCEPT ![t] = acc.tally]
            /\ UNCHANGED <<knownips, currentresult>>
       ELSE /\ knownips' = [knownips EXCEPT ![t] = acc.ips]
            /\ currentresult' = [currentresult EXCEPT ![t] = acc.tally]
            /\ UNCHANGED <<knownips_next, nextresult>>
    /\ UNCHANGED <<procVars, outstanding, lastresult, lastresultts, haltphase,
                   mergeVars, aborted, observed>>

\* the halt phase a halt message moves the tracker to
HaltPhaseOnHalt_wait(outl) == 1
HaltPhaseOnHalt(outl) == IF outl = <<>> THEN 2 ELSE 1

\* a halt message: exit now, or once the outstanding intervals complete
TrackerHalt(t) ==
    /\ TrackerRunning(t) /\ Head(incoming[t]).msgtype = HALT
    /\ incoming' = [incoming EXCEPT ![t] = Tail(@)]
    /\ haltphase' = [haltphase EXCEPT ![t] = HaltPhaseOnHalt(outstanding[t])]
    /\ UNCHANGED <<procVars, outstanding, knownips, knownips_next, currentresult,
                   nextresult, lastresult, lastresultts, mergeVars, aborted, observed>>

\* the sanity assert of update_outstanding, checked as AssertionsHold: a new
\* interval is newer than every outstanding one
OutstandingInOrder(outl, ts) ==
    \/ \E i \in DOMAIN outl : outl[i].interval_ts = ts
    \/ \A i \in DOMAIN outl : outl[i].interval_ts < ts

\* an interval message for an unset or already published interval is dropped;
\* one that does not complete its interval is recorded in the outstanding list
IsStale(t, ts) == ts = 0 \/ ts <= lastresultts[t]
TrackerNoteInterval(t) ==
    LET msg == Head(incoming[t])
        u   == UpdateOutstanding(outstanding[t], msg.timestamp, Cardinality(Procs), msg.sender)
    IN
    /\ TrackerRunning(t) /\ msg.msgtype = INTERVAL
    /\ IsStale(t, msg.timestamp) \/ u.complete = 0
    /\ incoming' = [incoming EXCEPT ![t] = Tail(@)]
    /\ outstanding' = [outstanding EXCEPT ![t] = IF IsStale(t, msg.timestamp) THEN @
                                                                            ELSE u.list]
    /\ UNCHANGED <<procVars, knownips, knownips_next, currentresult, nextresult,
                   lastresult, lastresultts, haltphase, mergeVars, aborted, observed>>

\* the check before publishing: the merge thread took the previous tally
LastResultTaken_unchecked(t) == TRUE
LastResultTaken(t) == lastresult[t] = NoResult

\* the last interval message of an interval: publish the tally and rotate the
\* maps.  assert(0) if the merge thread has not taken the previous tally yet.
TrackerCompleteInterval(t) ==
    LET msg == Head(incoming[t])
        u   == UpdateOutstanding(outstanding[t], msg.timestamp, Cardinality(Procs), msg.sender)
    IN
    /\ TrackerRunning(t) /\ msg.msgtype = INTERVAL
    /\ ~IsStale(t, msg.timestamp) /\ u.complete # 0
    /\ IF LastResultTaken(t)
       THEN /\ incoming' = [incoming EXCEPT ![t] = Tail(@)]
            /\ outstanding' = [outstanding EXCEPT ![t] = u.list]
            /\ lastresult' = [lastresult EXCEPT ![t] = currentresult[t]]
            /\ lastresultts' = [lastresultts EXCEPT ![t] = u.complete]
            /\ haltphase' = [haltphase EXCEPT ![t] = IF @ = 1 THEN 2 ELSE @]
            /\ knownips' = [knownips EXCEPT ![t] = knownips_next[t]]
            /\ currentresult' = [currentresult EXCEPT ![t] = nextresult[t]]
            /\ knownips_next' = [knownips_next EXCEPT ![t] = {}]
            /\ nextresult' = [nextresult EXCEPT ![t] = << >>]
            /\ UNCHANGED aborted
       ELSE /\ aborted' = TRUE
            /\ UNCHANGED <<incoming, trackerVars>>
    /\ UNCHANGED <<procVars, mergeVars, observed>>

-----------------------------------------------------------------------------
(* The merge thread                                                        *)

\* the framework calls merge_interval_results(T) once every processing
\* thread has ended T
MergeStart ==
    /\ ~aborted /\ mergets = 0 /\ merged < MaxInterval
    /\ \A p \in Procs : current_interval[p] > merged + 1
    /\ mergets' = merged + 1
    /\ trackers_done' = {}
    /\ results' = << >>
    /\ skipresult' = FALSE
    /\ UNCHANGED <<merged, emitted, procVars, incoming, trackerVars, aborted, observed>>

\* update_tracker_results: add a tracker's tallies into the merged result
AddTally(r, x) ==
    [srcips |-> r.srcips + x.srcips, destips |-> r.destips + x.destips,
     packets |-> r.packets + x.packets, bytes |-> r.bytes + x.bytes]
UpdateTrackerResults(res, tally) ==
    [m \in DOMAIN res \cup DOMAIN tally |->
        AddTally(IF m \in DOMAIN res THEN res[m] ELSE ZeroTally,
                 IF m \in DOMAIN tally THEN tally[m] ELSE ZeroTally)]

\* one successful trylock of tracker t in the polling loop; a tracker that
\* has neither published T nor exited is polled again later (no step).  The
\* loop's assert(fin->timestamp >= lastresultts) is checked as AssertionsHold.
MergePoll(t) ==
    /\ ~aborted /\ mergets # 0 /\ t \notin trackers_done
    /\ \/ /\ lastresultts[t] = mergets
          /\ results' = UpdateTrackerResults(results, lastresult[t])
          /\ lastresult' = [lastresult EXCEPT ![t] = NoResult]
          /\ trackers_done' = trackers_done \cup {t}
          /\ UNCHANGED skipresult
       \/ /\ lastresultts[t] < mergets /\ haltphase[t] = 2
          /\ trackers_done' = trackers_done \cup {t}
          /\ skipresult' = TRUE
          /\ UNCHANGED <<results, lastresult>>
    /\ UNCHANGED <<aborted, mergets, merged, emitted, procVars, incoming, outstanding,
                   knownips, knownips_next, currentresult, nextresult,
                   lastresultts, haltphase, observed>>

\* every tracker answered: write the rows, or nothing if one had exited
MergeFinish ==
    /\ ~aborted /\ mergets # 0 /\ trackers_done = Trackers
    /\ emitted' = [emitted EXCEPT ![mergets] =
                     IF skipresult THEN [status |-> "skipped", rows |-> << >>]
                                   ELSE [status |-> "written", rows |-> results]]
    /\ merged' = mergets
    /\ mergets' = 0
    /\ UNCHANGED <<trackers_done, results, skipresult, procVars, incoming,
                   trackerVars, aborted, observed>>

-----------------------------------------------------------------------------

Init ==
    /\ nextmsg = [p \in Procs |-> [t \in Trackers |-> EmptyMsg]]
    /\ current_interval = [p \in Procs |-> 1]
    /\ pphase = [p \in Procs |-> "running"]
    /\ pcount = [p \in Procs |-> 0]
    /\ incoming = [t \in Trackers |-> <<>>]
    /\ outstanding = [t \in Trackers |-> <<>>]
    /\ knownips = [t \in Trackers |-> {}]
    /\ knownips_next = [t \in Trackers |-> {}]
    /\ currentresult = [t \in Trackers |-> << >>]
    /\ nextresult = [t \in Trackers |-> << >>]
    /\ lastresult = [t \in Trackers |-> NoResult]
    /\ lastresultts = [t \in Trackers |-> 0]
    /\ haltphase = [t \in Trackers |-> 0]
    /\ mergets = 0
    /\ trackers_done = {}
    /\ results = << >>
    /\ skipresult = FALSE
    /\ merged = 0
    /\ emitted = [T \in Intervals |-> [status |-> "none", rows |-> << >>]]
    /\ aborted = FALSE
    /\ observed = [T \in Intervals |-> [pk \in Packets |-> 0]]

\* the process has died on an assert, or every thread has finished
Terminated ==
    /\ \/ aborted
       \/ (\A p \in Procs : pphase[p] = "done") /\ mergets = 0
    /\ UNCHANGED vars

Next ==
    \/ \E p \in Procs : \/ \E pk \in Packets : ProcessPacket(p, pk)
                        \/ EndInterval(p) \/ HaltProcessing(p) \/ JoinTrackers(p)
    \/ \E t \in Trackers : \/ TrackerUpdate(t) \/ TrackerHalt(t)
                           \/ TrackerNoteInterval(t) \/ TrackerCompleteInterval(t)
    \/ MergeStart \/ MergeFinish \/ \E t \in Trackers : MergePoll(t)
    \/ Terminated

\* Tracker and merge threads spin on their queue and on trylock; a joining
\* thread returns once the trackers exit.  Packet arrival, interval ends and
\* halts come from the capture and are not assumed to happen.
Fairness ==
    /\ \A t \in Trackers : WF_vars(TrackerUpdate(t) \/ TrackerHalt(t)
                                   \/ TrackerNoteInterval(t)
                                   \/ TrackerCompleteInterval(t))
    /\ WF_vars(MergeStart) /\ WF_vars(MergeFinish)
    /\ \A t \in Trackers : WF_vars(MergePoll(t))
    /\ \A p \in Procs : WF_vars(JoinTrackers(p))

Spec == Init /\ [][Next]_vars /\ Fairness

-----------------------------------------------------------------------------
(* Properties                                                              *)

Tally == [srcips : Nat, destips : Nat, packets : Nat, bytes : Nat]
IsTallyMap(f) == DOMAIN f \subseteq Metrics /\ \A m \in DOMAIN f : f[m] \in Tally

TypeOK ==
    /\ current_interval \in [Procs -> 1 .. MaxInterval + 1]
    /\ pphase \in [Procs -> {"running", "joining", "done"}]
    /\ \A t \in Trackers :
          /\ \A i \in DOMAIN outstanding[t] :
                /\ outstanding[t][i].interval_ts \in Intervals
                /\ outstanding[t][i].recvd \in SUBSET Procs \ {{}}
          /\ knownips[t] \cup knownips_next[t] \subseteq IPs \X Metrics \X {SRC, DST}
          /\ IsTallyMap(currentresult[t]) /\ IsTallyMap(nextresult[t])
          /\ lastresult[t] = NoResult \/ IsTallyMap(lastresult[t])
          /\ lastresultts[t] \in 0 .. MaxInterval
          /\ haltphase[t] \in 0 .. 2
    /\ mergets \in 0 .. MaxInterval /\ trackers_done \subseteq Trackers
    /\ merged \in 0 .. MaxInterval /\ aborted \in BOOLEAN

\* What interval T should report for metric m: every packet of T carrying m,
\* its bytes, and the distinct source and destination addresses.
Expected(T) ==
    LET seen == {pk \in Packets : observed[T][pk] > 0}
        With(m) == {pk \in seen : m \in Range(pk.tags)}
    IN  [m \in UNION {Range(pk.tags) : pk \in seen} |->
            [srcips  |-> Cardinality({pk.src : pk \in With(m)}),
             destips |-> Cardinality({pk.dst : pk \in With(m)}),
             packets |-> SumFunctionOnSet(observed[T], With(m)),
             bytes   |-> SumFunctionOnSet([pk \in Packets |-> observed[T][pk] * pk.size],
                                          With(m))]]

(* ResultExact: the rows the merge thread writes for interval T count exactly *)
(* the packets the processing threads saw during T: the tracker routes the    *)
(* updates of a thread that already ended T into the next maps, and every     *)
(* unique address is counted once, by the tracker its top octet hashes to.    *)
ResultExact ==
    \A T \in Intervals : emitted[T].status = "written" => emitted[T].rows = Expected(T)

(* EveryIntervalReported: once every processing thread has ended interval  *)
(* T, the merge thread eventually finishes T, writing or skipping it, unless *)
(* the process died on an assert: every tracker either publishes T or exits, *)
(* so the trylock polling loop of merge_interval_results terminates.         *)
EveryIntervalReported ==
    \A T \in Intervals :
        (\A p \in Procs : current_interval[p] > T) ~> (emitted[T].status # "none" \/ aborted)

(* EveryIntervalWritten: once every processing thread has ended interval T, *)
(* the merge thread eventually writes the rows of T, unless the process died *)
(* on an assert.  The trackers must complete T and publish it, and the       *)
(* polling loop must neither spin forever nor skip T, which it does only     *)
(* for a tracker that exited on a halt message.                              *)
EveryIntervalWritten ==
    \A T \in Intervals :
        (\A p \in Procs : current_interval[p] > T) ~> (emitted[T].status = "written" \/ aborted)

(* ShutdownCompletes: once every processing thread has called                 *)
(* halt_processing, every one of them returns from pthread_join on the        *)
(* tracker threads, i.e. every tracker leaves its loop.                       *)
ShutdownCompletes ==
    (\A p \in Procs : pphase[p] # "running") ~> ((\A p \in Procs : pphase[p] = "done") \/ aborted)

(* AssertionsHold: the two ordering asserts the tracker and merge threads     *)
(* rely on never fire.  A tracker never receives an interval older than one  *)
(* still outstanding (update_outstanding), and the merge thread never finds  *)
(* a tracker that has published an interval later than the one it merges:   *)
(* both rest on FIFO queues and on the tracker holding back interval T+1     *)
(* until the merge thread has taken T.                                       *)
AssertionsHold ==
    /\ \A t \in Trackers :
          LET msg == Head(incoming[t]) IN
          TrackerRunning(t) /\ msg.msgtype = INTERVAL /\ ~IsStale(t, msg.timestamp)
             => OutstandingInOrder(outstanding[t], msg.timestamp)
    /\ mergets # 0 => \A t \in Trackers \ trackers_done : lastresultts[t] <= mergets

(* NoAssertionFailure: no assert() of the tracker or merge thread fires; in   *)
(* particular a tracker never completes an interval while the merge thread    *)
(* still holds the previous one (assert(0) in start_iptracker).               *)
NoAssertionFailure == ~aborted

=============================================================================
