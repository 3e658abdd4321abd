# TLA+ models of the corsaro3 report plugin

This directory holds TLA+ models of the concurrent core of corsarotrace's
*report* plugin and of the algorithms around it, with the TLC configurations
that check them.  `PROJECT.json` lists the components, the runs, the mutants,
the source lines each definition models (`map`), the findings and the hazards.

## 1. The system

corsarotrace reads packets that the tagger has annotated and hands them to N
packet processing threads.  The report plugin
(`src/libcorsaro3/plugins/corsaro_report.c`) adds M *IP tracker* threads and
uses the framework's single merge thread.

| Part | State | Operations | Talks to |
|---|---|---|---|
| Processing thread (`corsaro_report_state_t`) | `current_interval`; `nextmsg[t]`, one pending batch of updates per tracker | `process_packet` (one source and one destination update per packet, pushed as a batch of `REPORT_BATCH_SIZE`), `start_interval`, `end_interval` (flush, then INTERVAL(ts) to every tracker), `halt_processing` (flush, HALT to every tracker, `pthread_join` every tracker) | tracker queues |
| Tracker message queue | a libtrace FIFO per tracker, many producers | `put` (blocks when full), `try_get` | |
| IP tracker thread (`corsaro_report_iptracker_t`) | `outstanding` (intervals some thread has ended, with the set of threads that did); `knownips`/`currentresult` and `knownips_next`/`nextresult`; `lastresult`/`lastresultts`; `haltphase` | `start_iptracker`: HALT, INTERVAL (`update_outstanding`; when every thread has ended T, publish T under the mutex and rotate the maps), update (`process_msg_body`, `update_knownip_metric`, `update_metric_array`/`_map`) | merge thread, through `lastresult` under the mutex |
| Merge thread | `results`, `trackers_done`, `skipresult`; the Avro writer and result handler | `merge_interval_results(T)`: trylock-poll every tracker until each has published T (`update_tracker_results`) or exited (skip T), then open a file if no writer is active and write the rows (`write_all_metrics`); `rotate_output` closes the writer; `init_merging`, `halt_merging` | trackers, Avro writer |
| Tag derivation | none | `process_tags`, `process_single_tag`, `GEN_METRICID` | processing thread |
| Configuration (`src/libcorsaro/plugins/report/corsaro_report.c`) | `corsaro_report_config_t` | `parse_config`, `parse_port_ranges`, `parse_metric_limits`, `finalise_config` (which also makes the trackers' ZeroMQ sockets and starts their threads), `destroy_self` | all |
| Tagger (`src/libcorsaro3/libcorsaro3_tagging.c`) | provider handles | `corsaro_tag_packet` and the provider updates | processing thread |
| Old plugin framework (`src/unnamed/part_003`) | reader set | `perform_distinct_merge` (k-way merge of per-thread outputs) | |
| Old plugin list (`src/unnamed/part_003`) | the loaded list, the enabled list, each plugin's `next` and `config` | `corsaro_load_all_plugins`, `corsaro_enable_plugin`, `corsaro_configure_plugin`, `corsaro_finish_plugin_config`, `corsaro_start_plugins`, `corsaro_stop_plugins`, `corsaro_cleanse_plugin_list` | the report plugin's `parse_config`, `finalise_config`, `init_processing`, `destroy_self` |

The hard behaviours are the interleavings of N producers and M trackers on
FIFO queues, and intervals that end at different times in different threads.
Other hard parts:
- the merge thread runs asynchronously and polls with trylock;
- threads are halted in the middle of an interval;
- the assertions that kill the process when an ordering assumption fails.

What makes the plugin correct:
- every written interval counts exactly the packets of that interval (spec P1, P5, S1, S2);
- every interval that all threads ended is eventually written, and is skipped only after a tracker exited (spec section 7);
- shutdown completes (spec S5);
- no assert fires.

## 2. Modules

### ReportPipeline (processing threads + tracker queues + trackers + merge thread)

State and actions correspond to the code as follows.

* `nextmsg[p][t]` is the batch of bodies (`Seq`); `current_interval[p]` holds
  the interval number.  Intervals are numbered 1..MaxInterval, and 0 is the
  unset timestamp that the tracker ignores.  `Init` is the state after the
  first `start_interval`.
* `incoming[t]` is the tracker's FIFO, as a sequence of
  `corsaro_report_ip_message_t` records `[msgtype, sender, timestamp, update]`.
* Tracker state keeps the code's names.  A map of metric tallies is a TLA+
  function from metric id to `[srcips, destips, packets, bytes]`.  The
  per-IP `metricsseen` array/hash is abstracted to the set of
  `<<ip, metric, bit>>` it records (module `KnownIpOps`); the `MetricSeen`
  module checks that abstraction.
* `ProcessPacket` is `corsaro_report_process_packet` with both calls of
  `update_metrics_for_address` (`AddUpdate`, which pushes a full batch).
  `EndInterval` is `end_interval` followed by the next `start_interval`.
  `HaltProcessing` is the flush-and-halt loop, and `JoinTrackers` is the
  `pthread_join` loop.
* `TrackerHalt`, `TrackerNoteInterval` and `TrackerCompleteInterval` are the
  three outcomes of the HALT and INTERVAL branches of `start_iptracker`;
  `TrackerUpdate` is the update branch.  Each is atomic.  The merge thread
  reads only `lastresult`, `lastresultts` and `haltphase`, and only under the
  mutex, so the one unlocked read (`lastresult != NULL`) cannot be torn
  against the merge thread's writes within the step.
* `assert(0)` in the completion path is the variable `aborted`: the process
  has died and nothing moves.  Two other asserts can never fire in the model:
  the order check in `update_outstanding` and the merge thread's
  `fin->timestamp >= lastresultts`.  They are stated as the invariant
  `AssertionsHold`.
* `MergeStart`/`MergePoll(t)`/`MergeFinish` model `merge_interval_results`.
  The framework calls it for T once every processing thread has ended T.  A
  poll of a tracker that has neither published T nor exited is a no-op and is
  not a step.  `emitted[T]` records what was written: written rows, skipped,
  or none.
* `observed[T][pk]` is history: how often each packet was processed in T.
  `Expected(T)` computes from it what the rows must say.
* `UpdateMsgType` is the `msgtype` an update batch carries.  The code never
  sets it: `nextmsg[]` is `calloc`'d, so it is 0, which is
  `CORSARO_IP_MESSAGE_HALT`.  The run `update_msgtype` checks that value.
  The runs `pipeline_halt_safety`, `halt_batch_short_write`,
  `lastresult_race` and `update_msgtype` use that value, as do the
  reproductions `_single`, `_early` and `_hang` (which also send no packets,
  `MaxPkts` 0, so their traces need no update at all).  `pipeline_liveness`
  gives updates a type of their own (2), as the later plugin does with
  `CORSARO_IP_MESSAGE_UPDATE`, so that the tally step `TrackerUpdate` is
  explored at all; it passes with the value 0 as well.  The reproductions
  `MC_ReportPipeline.cfg`, `_zero` and `_skew` also use 2: what they show is
  latent in this revision, behind the msgtype defect.
* `HaltMidInterval` chooses whether the capture may halt a thread before it
  ended every interval (TRUE) or only after (FALSE).

Fairness is weak fairness on each tracker's receive loop, on the merge
thread's start, poll and finish, and on the return from `pthread_join`.  These
are busy loops (`usleep` and retry) or blocking calls that return once
enabled.  Packet arrival, interval ends and halts come from the capture, and
no fairness is assumed of them.

### KnownIpOps, KnownIpSpec and MetricSeen (per-IP metric bookkeeping)

* `KnownIpOps` holds the operators both other modules use:
  `UpdateKnownIpMetric` and `ProcessMsgBody` over a set of seen
  `<<ip, metric, bit>>` triples.  `ReportPipeline` extends it.
* `KnownIpSpec` is the abstract specification: a body adds its triples, and a
  metric's unique source (destination) count grows exactly when a triple is
  new.
* `MetricSeen` is the code's structure.  Per IP it keeps `firstmetrics`, a
  sequence of at most `METRIC_ARRAY_SIZE` `[metricid, metval]` entries, then
  `metriccount` and the `metricsseen` hash map as a function.
  - `UpdateMetricArray` and `UpdateMetricMap` are `update_metric_array` and
    `update_metric_map`.  The conversion at a full array is
    `MoveArrayToMap`.
  - `UpdateKnownIpMetricDetail` is `update_knownip_metric`, with the
    `metriccount <= METRIC_ARRAY_SIZE` choice.
  - `ProcessMsgBodyDetail` is the per-body loop of `process_msg_body`.
* `ImplementsKnownIpSpec` maps the detailed state to the abstract one through
  `SeenBits`.  `SeenBits` reads the array while `metriccount <=
  METRIC_ARRAY_SIZE` and the hash map after that, the same test
  `update_knownip_metric` makes.

### PacketTags (tagger, tag list and metric ids)

`PacketTags` follows one packet from the tagger to the rows that decode its
metric ids.
* `TagPacket(p)` is `corsaro_tag_packet`:
  - `providers_used` is cleared;
  - `UpdateBasicTags` is `update_basic_tags`, which fills the protocol and the
    ports or the ICMP type and code from a transport header of `rem` bytes and
    sets bit 0;
  - when providers are configured and the address is IPv4, the libipmeta
    records are folded through `UpdateProviderTags`: MaxMind, NetAcq Edge, and
    pfx2as with a single ASN only;
  - a failed lookup leaves `rc = -1`.
* `ReportPacket` is `corsaro_report_process_packet`. It makes the source and
  destination bodies with `ProcessTags`, which follows `process_tags`: the
  combined tag, then, if any provider bit is set, the protocol, the port or
  ICMP tags (`TagList`), and the geo and ASN tags through
  `ProcessSingleTag` and its `maxtagval` filter.
* `Decode` is the switch of `write_single_metric`, from a metric id back to
  a (type, value) row.
* A packet is a record drawn from a small set: its transport shape, whether
  it is IPv4, the lookup outcome and its records.  Country and continent
  codes are two-letter sequences, packed as in `corsaro_tag_packet`.
* Metric ids are `class * 2^VALBITS + value`. VALBITS (16) stands for the
  code's 32-bit value field, since TLC's integers are 32-bit.
  `GEN_METRICID_masked` is the later plugin's macro as it parses.

### TaggerProviders (the tagger's provider list)

* `providers` is `tagger->providers`, a sequence, head first.
* `providermask` is the set of bits of `tagger->providermask`.
* `EnableProvider` is `corsaro_enable_ipmeta_provider`.
* `ReplaceProvider` is `corsaro_replace_ipmeta_provider`:
  - its search loop advances `n` before the `break`, so the written node is
    `ReplacedNode(i) = i + 1`;
  - when that node does not exist, the NULL write is the variable `crashed`;
  - otherwise the node is left pointing at the stack slot of the `prov`
    parameter, `Dangling`.
  - A later search that reads such a node may see any provider id.
    `Matches` makes that a nondeterministic stop.
* Provider instances are model values. `ProvId` gives their libipmeta id.
* Calls are capped at `MaxCalls` (4).

### ReportConfig (configuration of the later report plugin)

* `ParseConfig(d)` is `corsaro_report_parse_config` for one option
  mapping `d`:
  - a failed `malloc` of the config, or a non-mapping, is rejected;
  - otherwise the defaults are set and `ParsePair` is folded over the pairs;
  - then every port bitmap that no valid range was given for is filled
    with ones.
* `ParsePair` dispatches on the key, as the chain of `if`s does, to:
  - `ParsePortRanges` (`parse_port_ranges` with `strtoport`, `ItemRange`,
    `FillRange` and `ByteMask`, the byte-wise loop with its partial first
    and last bytes);
  - `ParseIpCounting`;
  - `ParseMetricLimits`;
  - the tracker count clamp;
  - the high-water mark;
  - `parse_onoff_option`;
  - `geo_mode`;
  - the label;
  - the whitelist file name;
  - the output format.
* `FinaliseConfig` is the whole of `corsaro_report_finalise_config`:
  - the label default, and the geo_mode reduction, which applies only when a
    continent class bit is set;
  - `allowedmetricclasses` copied into the trackers (`trackerclasses`);
  - the unchecked `calloc` of the tracker arrays (`TrackerBlocks`; a NULL
    is a `null_deref` and a crash);
  - each tracker's mutex, thread (`mutex`, `threads`) and sockets
    (`TrackerSockets`).  There is a PULL socket per tracker with
    `ZMQ_RCVHWM = internalhwm * procthreads`.  There is a PUSH socket per
    (tracker, thread) at slot `QueueId(i, j)`, with `ZMQ_SNDHWM =
    internalhwm`, connected to that tracker.  A later write to the same slot
    replaces the earlier one.
  - With `"zmq"` in `Faults`, any one socket's ZeroMQ call may fail.  The
    socket is then not `ok` and the result `ret` is -1, and the loop goes on.
* `DestroySelf` is `corsaro_report_destroy_self`: it frees the label and the
  whitelist name, then for every tracker destroys the mutex and closes the
  PULL socket and the PUSH sockets at `DestroyQueueIds(i)`, then frees the
  arrays and the config.
  - `heap` holds the blocks still allocated.
  - The framework that calls it is outside `src/`.  `DestroyFrom` says after
    which phases it may: `"final"`, and also `"parsed"` when a later
    plugin's configuration fails first.
  - After parse only, `iptrackers` was never set, so reading it is an
    `uninitialised_read`.
* A YAML number is a token `[ok, n]`: `ok` is FALSE when `strtoul` sets
  errno, and a string without digits reads as 0.
* The bitmap has `PORTBYTES` (3) bytes, ports 0..23, standing for 8192
  bytes and ports 0..65535.  23 plays the part of 65535, the cap of a
  range's high end.

### DistinctMerge (merge of interim files, first framework)

* `OpenPlugin` is the loop body of `corsaro_merge_plugin_outputs` up to the
  merge, including its failure paths as the code has them:
  - a NULL name skips the plugin without `index++`;
  - a NULL writer steps `p` and `index` but falls through, to the next
    plugin or to `p == NULL`, which is `crash`;
  - each reader that fails to open counts an error.
* `MergePass` is one iteration of the `do ... while` of
  `perform_distinct_merge`. `Scan` is its `for` loop:
  - it refills BLANK slots;
  - it closes readers on a read error or EOF;
  - it keeps the first reader with the least result (`Later` is
    `compare_results > 0`).
  - The pass then writes that result and releases the slot, or ends on no
    candidate or a failed write.
* `ClosePlugin` is the closing of readers and writer, then `p`/`index` step.
  `Finish` is the end of the list.
* The merge API calls (`corsaro_read_next_merge_result`, the create
  functions and the write) are not in this repository.  Their failures are
  nondeterministic outcomes, enabled by the constant set `Faults`.
* `stateof` records which `plugin_state` index each plugin's merge used.

### ReportWriter (output of the merge thread, first framework's report plugin)

* `InitMerging` is `corsaro_report_init_merging`: the merge state is NULL
  (`"null"`) when `calloc` or the Avro writer fails, else `"live"`.
* `MergeIntervalResults` is `merge_interval_results(T)` after its polling
  loop, whose outcome (which trackers exited, and each other tracker's
  tally as a set of metrics) is an input chosen with `\E`; the loop itself
  is `ReportPipeline`'s.  Its disjuncts are the code's exits in order:
  - a NULL merge state returns -1;
  - a skipped interval returns 0 and leaves the merged results in the map
    (`inuse` grows);
  - with no active writer, a failing `derive_output_name` or
    `corsaro_start_avro_writer` returns -1, again leaving the results;
  - otherwise the file named for T is opened if needed and
    `WriteAllMetrics` (a `FoldLeft` over `HASH_ITER` order) writes each
    result whose `write_single_metric` outcome is 0, stopping after an
    append failure; the return value is `WriteFailed(haderror)`, the
    code's `< 0` test on a value that is 0 or 1.
* `UpdateTrackerResults` and `NewResult` are the result map: a metric not
  yet in it starts from zero, then each tracker's tally is added.
* `RotateOutput` is `corsaro_report_rotate_output`, called between two
  intervals: the writer is closed (inactive even if the close reports an
  error), and the next written interval opens a new file.
* `HaltMerging` destroys the writer and the result handler.
* The outcomes of the allocator and of the Avro calls, whose code is outside
  this file, are enabled by `Faults`.  `expected` is a history variable: the
  rows the tallies of each interval call for, and whether it was skipped.

### PluginList (plugin list of the first framework, with the report plugin's set-up callbacks)

A node is a malloc'd `corsaro_plugin_t`: `1..Len(Kinds)` are the copies
`corsaro_load_all_plugins` makes, `Len(Kinds)+e` the copy enabled for
configuration entry `e`.  `nxt` is every node's `next`, `conf` its `config`
(`"null"`, `"parsed"` by `parse_config`, `"final"` after `finalise_config`,
or `"freed"`), `live` the nodes not yet freed.  `ub` collects the undefined
behaviours that happen (NULL dereference, use after free, double free, a
read of an uninitialised field, the failed `assert`).

* The caller, corsarotrace, is outside this repository.  It is modelled as
  the loop over the configuration's `plugins` entries that finds each
  plugin by name, enables it with the last plugin enabled as the tail, and
  configures it, going to the teardown on the first error.
* `LoadAllPlugins` is a `FoldLeft` of `add_plugin` over the compiled-in
  plugins.  `FindPlugin` is `corsaro_find_plugin`, `SelectInSeq` over the
  list walk (`Walk`, a bounded `RECURSIVE` walk of `next`).
* `EnablePlugin` is `add_plugin(tail, parent, 0)`: the `memcpy` also copies
  the parent's `next` (`CopyNext`), the copy is linked after the tail, and
  `copy->enabled = 1` dereferences a copy whose `malloc` failed.
* `ConfigurePlugin` frees `p->config` without clearing it, then the report
  plugin's `parse_config` (`ParseConfig`) sets a new one or fails, leaving
  the freed pointer.
* `FinishPluginConfig` runs `finalise_config` on every plugin of the list
  with a config.  `StartPlugins` asserts `index < count` before each
  `init_processing`, which reads the config.  `StopPlugins` halts them.
* `CleansePluginList` frees the enabled list, then the loaded list;
  `DestroySelf` is the report plugin's `destroy_self`, which reads
  `tracker_count` and `iptrackers`, fields only `finalise_config` sets.

## 3. Runs

| Run | cfg | Expect | What it shows |
|---|---|---|---|
| pipeline_halt_safety | MC_ReportPipeline_halt.cfg | pass | Two threads and two trackers over 2 intervals, one packet per thread per interval, two packet shapes that share a destination, halts at any time, update batches of one with msgtype 0 as the code sends them.  The ordering asserts of the merge thread and the trackers never fire.  Deadlock is not checked because of the hang below. |
| halt_batch_short_write | MC_ReportPipeline_short.cfg | violation | With msgtype 0 the first update batch a tracker takes is read as HALT; the tracker completes the outstanding interval without tallying the batch, and the interval is written with rows that miss the packet. |
| pipeline_liveness | MC_ReportPipeline_live.cfg | pass | With halts after the last interval, every interval is eventually reported (written or skipped) and shutdown completes (unless an assert fired). |
| metric_seen_refinement | MC_MetricSeen.cfg | pass | Two addresses, bodies with the metrics {0,1}, {0,2} or {0,1,2} as source or destination, `METRIC_ARRAY_SIZE` 2, five bodies.  The array→map conversion happens, and the detailed bookkeeping refines `KnownIpSpec` (same tallies) without overrunning the array. |
| packet_tags | MC_PacketTags.cfg | pass | For complete TCP, UDP, ICMP and GRE headers, IPv4 or not, with every lookup outcome, the source body decodes to exactly the rows spec §4.1 lists, with no duplicates.  The destination body has the same tags, the sizes are the IP length and 0, and every tagged IPv4 packet is reported. |
| distinct_merge | MC_DistinctMerge.cfg | pass | With name, writer, reader-open and write failures, every merged file holds its plugin's results, none more often than the interim files do, in order.  A merge that returns 0 errors has written every result. |
| report_writer | MC_ReportWriter.cfg | pass | Two metrics, two trackers, three intervals, every fault.  Every written row is the sum of its interval's tallies and is written once; each file holds intervals from the one it is named for up to the next rotation only. |
| report_config | MC_ReportConfig.cfg | pass | For every port-range form (single, range, capped, reversed, out of range, unconvertible, `-5`, non-scalar) alone, paired and repeated, each bitmap marks exactly the named ports, or all ports when none is named.  Every clamped option ends in range.  With any one ZeroMQ call failing: when `finalise_config` returns 0, every queue slot is filled, and each tracker's receive mark is the sum of its senders' marks.  After `destroy_self` every block, socket and mutex the set-up made is released. |
| lastresult_race | MC_ReportPipeline_race.cfg | violation | With msgtype 0 and no packets at all, the trackers complete T+1 before the merge thread has taken T, and `assert(0)` fires. |
| update_msgtype | MC_ReportPipeline_msgtype.cfg | violation | Update batches carry msgtype 0, so the first batch halts the tracker and every interval is skipped. |
| replace_provider | MC_TaggerProviders_replace.cfg | violation | Replacing a provider writes the node after the match: a NULL write when the match is last, otherwise a pointer to a dead stack slot. |
| enable_copies_next | MC_PluginList.cfg | violation | Two plugins loaded as flowtuple, report and enabled as report, flowtuple: the flowtuple copy keeps the loaded flowtuple's `next`, so the enabled list runs on into the loaded report plugin. |

The list holds one run for each question.  These cfgs reproduce further
disagreements; each is described on its hazard in `PROJECT.json`:

| cfg | Property violated | What it shows |
|---|---|---|
| MC_ReportPipeline.cfg | (passes) | Latent (msgtype 2): the halt-free safety run, with deadlock checked. |
| MC_ReportPipeline_single.cfg | EveryIntervalReported | With one processing thread no interval completes, so the merge thread polls forever. |
| MC_ReportPipeline_early.cfg | EveryIntervalWritten | A tracker in halt phase 1 exits after the first interval it completes, so a later complete interval is skipped. |
| MC_ReportPipeline_zero.cfg | ResultExact | Latent (msgtype 2): `ip_len` 0 counts the addresses but not the packet (spec P1). |
| MC_ReportPipeline_skew.cfg | ResultExact | Latent (msgtype 2): with 3 intervals a thread two intervals ahead has its T+2 packets counted in T+1. |
| MC_PacketTags_fragment.cfg | TagsMatchPacket | A fragment from a located source is counted as IP protocol 0. |
| MC_PacketTags_truncated.cfg | TagsMatchPacket | A header too short for the ports is counted as port 0 / ICMP type 0. |
| MC_TaggerProviders.cfg | (passes) | Every provider in the list has its bit in the lookup mask. |
| MC_ReportConfig_lite.cfg | GeoLiteLimitsRegions | `geo_mode: lite` without `limitmetrics` keeps region and polygon metrics. |
| MC_ReportConfig_hwm.cfg | InboxBounded | `internalhwm: 70000` is stored as 0, so every tracker socket has no high-water mark and the spec's bounded inbox is gone. |
| MC_ReportConfig_alloc.cfg | NoMemoryError | A failed `calloc` of the tracker array is written through at the first `pthread_mutex_init`. |
| MC_ReportConfig_destroy.cfg | NoMemoryError | `destroy_self` on a configuration parsed but not finalised tests the uninitialised `iptrackers`. |
| MC_DistinctMerge_read.cfg | ErrorFreeMergeComplete | A read error part-way through a file loses its remaining results, and 0 errors are returned. |
| MC_DistinctMerge_name.cfg | PluginStateMatches | After a plugin whose name fails, later plugins merge with the previous plugin's state. |
| MC_DistinctMerge_writer.cfg | MergeReturns | A writer failure on the last plugin makes the loop dereference `p == NULL`. |
| MC_PacketTags_masked.cfg | TagsMatchPacket | With the later plugin's `GEN_METRICID`, `+` binds tighter than `&`, so the class is masked off and distinct rows collide. |
| MC_ReportWriter_error.cfg | MergeResultHonest | A failed Avro append drops rows, yet `merge_interval_results` returns 0: `write_all_metrics` returns 1, tested for `< 0`. |
| MC_ReportWriter_leak.cfg | ResultItemsReleased | A skipped interval, or a failed file name or writer start, returns without releasing the merged results. |
| MC_ReportPipeline_hang.cfg | ShutdownCompletes | A halt with an interval outstanding leaves the tracker in halt phase 1 and `pthread_join` never returns. |
| MC_PluginList_teardown.cfg | NoMemoryError | A configuration error after the report plugin's config was parsed: `destroy_self` reads the uninitialised `iptrackers` and `tracker_count`. |
| MC_PluginList_alloc.cfg | NoMemoryError | A failed `malloc` in `add_plugin` while enabling a plugin: `copy->enabled = 1` writes through NULL. |

Bounds:
- Two processing threads and two trackers give every interleaving of two
  producers on each of two queues.  The addresses 1.0.0.x and 2.0.0.1 hash to
  different trackers, so source and destination updates of one packet go to
  different trackers.
- The source and destination of each packet go to different trackers, so
  with one packet per thread per interval a tracker gets at most one update
  per thread per interval.  `BatchSize` 1 (the halt run) therefore fills a
  batch at every update and takes the full-batch push; `BatchSize` 2 (the
  liveness and short-write runs) never fills one and takes the
  end-of-interval flush.  Between them both paths are explored.
- Two intervals are the fewest in which one thread can be an interval ahead.
  Three are needed for the skew of two.
- One packet per thread per interval already gives two packets per interval
  with distinct and shared addresses.
- Symmetry over the processing threads is used in the safety runs only.
- For `MetricSeen`, an array of 2 slots and bodies with two or three metrics (the
  combined tag 0 plus one or two more) give an IP three distinct metrics within
  five bodies, so the conversion and the use of the map afterwards both happen.
  The real size, 20, changes nothing but the count at which this happens.
- For `PacketTags`, each transport shape that takes a different branch of
  `update_basic_tags` is present, along with each provider record kind
  (including a pfx2as group, which is dropped).  The packets are IPv4 or not,
  with a lookup that succeeds or fails.  One packet at a time suffices: tagging
  and reporting a packet read nothing a previous packet left.
- For `ReportConfig`, three bitmap bytes give ranges that start and end
  mid-byte, span a whole byte, and stay inside one byte.  The values 24 and
  30 exceed the top port.  Repeated options cover the accumulation across
  occurrences.  Two processing threads and the tracker counts 1, 4 and 32
  give every slot layout two threads can have: one tracker, several
  trackers, and the maximum.  Any one of up to 96 sockets (32 PULL, 64 PUSH) may fail.
- For `DistinctMerge`, three plugins let a failure of the first be seen by
  the second and third.  Two threads with a shared result (3) cover the tie.
  An empty interim file and an overlapping-merge plugin cover the other paths.
- For `ReportWriter`, two metrics and two trackers let a metric be in no,
  one or both tallies, and one tracker exit while the other publishes.
  Three intervals allow a rotation between each pair, so a file can be
  opened by an interval after a skipped or failed one.  Every fault is
  enabled in the pass run.
- For `PluginList`, two compiled-in plugins enabled in the other order than
  they were loaded are the fewest for a copied `next` to point at a node
  that is not the end of the list.  Two entries also let the second one
  fail after the first was parsed.

## 4. Fairness

Only `ReportPipeline` has liveness properties.  The fairness it assumes is
stated in section 2.  The other modules describe sequential code, and their
runs check safety only.  Their cfgs turn off deadlock checking because
configuration, tagging, merging and the plugin list's set-up and teardown
come to an end.

## 5. Not modelled

- The formatting of a row into Avro (`report_result_to_avro`,
  `metclasstostr` and the decoding switch of `write_single_metric`, which
  `PacketTags` models) and the text of output file names.  `ReportWriter`
  keeps only the outcome of each write and the timestamp a file is named
  for.  A NULL merge state in `ReportWriter` leaves the trackers' results
  untaken; `ReportPipeline` assumes the merge state was allocated.
- The memory handlers beyond the count of results outstanding, the freeing of maps, `destroy_self`, the
  `queueblocks` statistic.
- libtrace's packet parsing.  `ExtractAddresses` keeps only whether
  `extract_addresses` succeeds (an IPv4 packet with a complete header).
- The capacity of the libtrace message queue: it is a pipe outside this
  repository, so the model's queues are unbounded.  The later plugin's
  `internalhwm` sets the marks of the sockets `ReportConfig` models, but
  what the sockets then carry is in code outside `src/`.
- What the later plugin's tracker threads do after `finalise_config` starts
  them: their code is outside `src/`.  `destroy_self` assumes they have
  joined (a hazard in `PROJECT.json`).
- The tagger's option strings for libipmeta and `corsaro_init_ipmeta_provider`.
- Of the first framework's plugin list, the `corsaro_push_*_plugins` loops,
  `corsaro_disable_plugin` and the reader start.  The push loops call
  callbacks in list order on one thread, and `ReportPipeline` models the
  report plugin's callbacks themselves.
- The removal of interim files after a merge.
- The Dockerfiles (`src/unnamed/part_000`–`002`), the plugin API header
  (`part_004`), `libcorsaro.h.in`, the example configuration and the README.
