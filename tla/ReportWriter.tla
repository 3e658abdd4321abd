---------------------------- MODULE ReportWriter ----------------------------
(***************************************************************************)
(* The output side of the merge thread of the report plugin of corsarotrace *)
(* (src/libcorsaro3/plugins/corsaro_report.c).  init_merging allocates the  *)
(* merge state and its Avro writer; merge_interval_results(T) adds the     *)
(* tally every IP tracker published for T into one result per metric       *)
(* (update_tracker_results, new_result), skips T if a tracker had exited,  *)
(* opens an output file named for T when no writer is active, and writes   *)
(* every result (write_all_metrics, write_single_metric); rotate_output    *)
(* closes the writer, so that the next interval written opens a new file; *)
(* halt_merging frees everything.                                          *)
(*                                                                         *)
(* The polling loop over the trackers is ReportPipeline's MergePoll; here  *)
(* its outcome is an input: for every tracker, the set of metrics of its   *)
(* tally (one packet each), or that it exited.  The outcomes of the calls into the  *)
(* Avro writer and the allocator, whose code is not in this file, are      *)
(* chosen among Faults.                                                    *)
(***************************************************************************)
EXTENDS Naturals, FiniteSets, Sequences, SequencesExt

CONSTANTS
    Metrics,       \* metric ids a tally may hold
    TrackerCount,  \* procconf->tracker_count
    MaxInterval,   \* merge_interval_results is called for 1 .. MaxInterval
    Faults         \* subset of {"alloc", "name", "start", "convert", "write"}

Trackers  == 0 .. TrackerCount - 1
Intervals == 1 .. MaxInterval

NOTCALLED == 1   \* no value merge_interval_results returns

AVRO_CONVERSION_FAILURE == -1
AVRO_WRITE_FAILURE == -2

\* the outcomes a call outside this file may have: failing only if f is a fault
May(f) == IF f \in Faults THEN BOOLEAN ELSE {FALSE}

\* write_single_metric: 0, or the failure of corsaro_populate_avro_item or
\* of corsaro_append_avro_writer
WriteOutcomes ==
    {0} \cup (IF "convert" \in Faults THEN {AVRO_CONVERSION_FAILURE} ELSE {})
        \cup (IF "write" \in Faults THEN {AVRO_WRITE_FAILURE} ELSE {})

VARIABLES
    mstate,    \* corsaro_report_merge_state_t *m: "init", "null", "live", "halted"
    active,    \* corsaro_is_avro_writer_active(m->writer)
    files,     \* the output files: [name (the T given to derive_output_name),
               \* epoch (rotations before it was opened), rows]
    epoch,     \* rotate_output calls so far
    nextts,    \* the interval of the next merge_interval_results call
    rotated,   \* rotate_output already called since the last merge
    inuse,     \* results taken from m->res_handler and not released
    retval,    \* what merge_interval_results returned for T (0 or -1), or NOTCALLED
    expected   \* history: [skipped, rows]: whether a tracker had exited before T, and
               \* the rows its tallies call for

vars == <<mstate, active, files, epoch, nextts, rotated, inuse, retval, expected>>

Row(ts, m, n, e) == [ts |-> ts, metric |-> m, pkts |-> n, epoch |-> e]

-----------------------------------------------------------------------------

\* corsaro_report_init_merging: NULL when calloc or the Avro writer fails
InitMerging ==
    /\ mstate = "init"
    /\ \E fail \in May("alloc") : mstate' = IF fail THEN "null" ELSE "live"
    /\ UNCHANGED <<active, files, epoch, nextts, rotated, inuse, retval, expected>>

\* new_result: a fresh result starts from zero tallies
NewResult_one == 1
NewResult == 0

\* update_tracker_results over the trackers that published T: a metric not
\* yet in the result map gets a new_result, then the tally is added
UpdateTrackerResults(res, tally) ==
    [m \in DOMAIN res \cup tally |->
        (IF m \in DOMAIN res THEN res[m] ELSE NewResult) + (IF m \in tally THEN 1 ELSE 0)]

\* the timestamp derive_output_name is given for a new output file
OutputName_zero(T) == 0
OutputName(T) == T

\* the error test on the value write_all_metrics returns
WriteFailed(haderror) == haderror < 0

\* write_all_metrics in HASH_ITER order with the outcome out[i] of the i-th
\* write_single_metric: a write failure stops the writing, every failure
\* sets haderror, and every result is deleted and released either way
WriteAllMetrics(order, out) ==
    FoldLeft(LAMBDA a, i :
                IF a.stop THEN a
                ELSE [written  |-> IF out[i] = 0 THEN a.written \cup {order[i]} ELSE a.written,
                      stop     |-> out[i] = AVRO_WRITE_FAILURE,
                      haderror |-> IF out[i] < 0 THEN 1 ELSE a.haderror],
             [written |-> {}, stop |-> FALSE, haderror |-> 0],
             [i \in 1 .. Len(order) |-> i])

\* corsaro_report_merge_interval_results(T) once the polling loop is over:
\* a NULL merge state returns -1 at once; a skipped interval returns 0; no
\* active writer opens a file named for T, returning -1 if the name or the
\* writer fails; then every result is written
MergeIntervalResults ==
    /\ mstate \in {"null", "live"} /\ nextts \in Intervals
    \* halted: the trackers found at haltphase 2 without a result for T;
    \* poll[t]: the metrics of the tally of every other tracker
    /\ \E halted \in SUBSET Trackers, poll \in [Trackers -> SUBSET Metrics] :
        LET T       == nextts
            skip    == halted # {}
            res     == FoldLeft(LAMBDA r, t : IF t \in halted THEN r
                                              ELSE UpdateTrackerResults(r, poll[t]),
                                [m \in {} |-> 0], [i \in 1 .. TrackerCount |-> i - 1])
            order   == SetToSeq(DOMAIN res)
        IN
        /\ expected' = [expected EXCEPT ![T] =
                          [skipped |-> skip,
                           rows |-> {[ts |-> T, metric |-> m,
                                      pkts |-> Cardinality({t \in Trackers \ halted : m \in poll[t]})] :
                                     m \in UNION {poll[t] : t \in Trackers \ halted}}]]
        /\ nextts' = T + 1
        /\ rotated' = FALSE
        /\ \/ /\ mstate = "null"
              /\ retval' = [retval EXCEPT ![T] = -1]
              /\ UNCHANGED <<active, files, inuse>>
           \/ /\ mstate = "live" /\ skip
              /\ retval' = [retval EXCEPT ![T] = 0]
              /\ inuse' = inuse + Cardinality(DOMAIN res)
              /\ UNCHANGED <<active, files>>
           \/ /\ mstate = "live" /\ ~skip /\ ~active
              /\ \E nofile \in May("name"), nostart \in May("start") :
                    nofile \/ nostart
              /\ retval' = [retval EXCEPT ![T] = -1]
              /\ inuse' = inuse + Cardinality(DOMAIN res)
              /\ UNCHANGED <<active, files>>
           \/ /\ mstate = "live" /\ ~skip
              /\ \E out \in [1 .. Len(order) -> WriteOutcomes] :
                   LET w    == WriteAllMetrics(order, out)
                       new  == IF active THEN files
                               ELSE Append(files, [name |-> OutputName(T), epoch |-> epoch, rows |-> {}])
                   IN  /\ files' = [new EXCEPT ![Len(new)].rows =
                                      @ \cup {Row(T, m, res[m], epoch) : m \in w.written}]
                       /\ retval' = [retval EXCEPT ![T] =
                                       IF WriteFailed(w.haderror) THEN -1 ELSE 0]
              /\ active' = TRUE
              /\ UNCHANGED inuse
    /\ UNCHANGED <<mstate, epoch>>

\* the close of the writer by rotate_output: the writer is inactive after
\* corsaro_close_avro_writer, whether it returned -1 or not
CloseWriter_keep(act) == act
CloseWriter(act) == FALSE

\* corsaro_report_rotate_output, called by the merge thread between two
\* intervals; -1 for a NULL merge state
RotateOutput ==
    /\ mstate \in {"null", "live"} /\ ~rotated /\ nextts \in 2 .. MaxInterval
    /\ active' = IF mstate = "live" THEN CloseWriter(active) ELSE active
    /\ epoch' = epoch + 1
    /\ rotated' = TRUE
    /\ UNCHANGED <<mstate, files, nextts, inuse, retval, expected>>

\* corsaro_report_halt_merging: the writer and m->res_handler, with every
\* result still taken from it, are destroyed
HaltMerging ==
    /\ mstate \in {"null", "live"}
    /\ mstate' = "halted"
    /\ active' = FALSE
    /\ inuse' = 0
    /\ UNCHANGED <<files, epoch, nextts, rotated, retval, expected>>

Init ==
    /\ mstate = "init"
    /\ active = FALSE
    /\ files = << >>
    /\ epoch = 0
    /\ nextts = 1
    /\ rotated = FALSE
    /\ inuse = 0
    /\ retval = [T \in Intervals |-> NOTCALLED]
    /\ expected = [T \in Intervals |-> [skipped |-> FALSE, rows |-> {}]]

Next == InitMerging \/ MergeIntervalResults \/ RotateOutput \/ HaltMerging

Spec == Init /\ [][Next]_vars

-----------------------------------------------------------------------------
(* Properties                                                              *)

RowsOf(f) == {[ts |-> r.ts, metric |-> r.metric, pkts |-> r.pkts] : r \in f.rows}

(* TypeOK: the merge state, the writer and the result counters stay in     *)
(* range; no more results are outstanding than the metrics of the          *)
(* intervals merged so far.                                                 *)
TypeOK ==
    /\ mstate \in {"init", "null", "live", "halted"}
    /\ active \in BOOLEAN
    /\ \A i \in DOMAIN files : files[i].name \in Intervals /\ files[i].epoch \in 0 .. MaxInterval
    /\ epoch \in 0 .. MaxInterval /\ nextts \in 1 .. MaxInterval + 1
    /\ inuse \in 0 .. Cardinality(Metrics) * (nextts - 1)
    /\ retval \in [Intervals -> {NOTCALLED, 0, -1}]

(* WrittenRowsExact: every row in an output file is a row the interval's   *)
(* tallies call for, with the packets of every tracker added up once, and  *)
(* no (interval, metric) row is written twice, in one file or in two: the  *)
(* result map starts every metric from new_result's zero tallies and      *)
(* write_all_metrics deletes each result it visits.                        *)
WrittenRowsExact ==
    /\ \A i \in DOMAIN files : \A r \in RowsOf(files[i]) :
          ~expected[r.ts].skipped /\ r \in expected[r.ts].rows
    /\ \A i, j \in DOMAIN files : \A r \in files[i].rows, s \in files[j].rows :
          r.ts = s.ts /\ r.metric = s.metric => i = j /\ r = s

(* FilesFollowRotations: an output file holds only intervals from the one *)
(* it is named for (the timestamp derive_output_name got) up to the next   *)
(* rotate_output: the writer is opened lazily by the first interval that   *)
(* is written after a rotation, whatever skipped or failed merges came     *)
(* before, and every rotation closes it.                                   *)
FilesFollowRotations ==
    \A i \in DOMAIN files : \A r \in files[i].rows :
        r.ts >= files[i].name /\ r.epoch = files[i].epoch

(* MergeResultHonest: merge_interval_results returns 0 for an interval it  *)
(* did not skip only if every row of that interval is in the output (the  *)
(* function's comment: 0 if the merge is successful, -1 if an error        *)
(* occurs).                                                                *)
MergeResultHonest ==
    \A T \in Intervals :
        retval[T] = 0 /\ ~expected[T].skipped =>
            expected[T].rows \subseteq UNION {RowsOf(files[i]) : i \in DOMAIN files}

(* ResultItemsReleased: once merge_interval_results has returned, every    *)
(* result it took from m->res_handler has been released again, so a long   *)
(* run of skipped or unwritable intervals does not grow the handler.       *)
ResultItemsReleased ==
    mstate = "live" => inuse = 0
=============================================================================
