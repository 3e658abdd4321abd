----------------------------- MODULE PluginList -----------------------------
(***************************************************************************)
(* The plugin list of the first framework (src/unnamed/part_003) and the   *)
(* report plugin's set-up callbacks it calls (src/libcorsaro3/plugins/     *)
(* corsaro_report.c).  corsaro_load_all_plugins links one malloc'd copy of *)
(* every compiled-in plugin (add_plugin, PLUGIN_INIT_ADD).  For every      *)
(* entry of the configuration's plugins sequence the caller finds the      *)
(* plugin by name, enables it (a copy appended after the last one enabled) *)
(* and configures it (parse_config); corsaro_finish_plugin_config calls    *)
(* finalise_config on every configured plugin; a processing thread starts  *)
(* and stops a plugin set; corsaro_cleanse_plugin_list frees a list.       *)
(*                                                                         *)
(* A node is a malloc'd corsaro_plugin_t: 1 .. Len(Kinds) the loaded       *)
(* copies, Len(Kinds) + e the copy enabled for entry e.  Every plugin's    *)
(* callbacks are those of the report plugin, the one whose code is here.   *)
(* The caller (corsarotrace) is outside this repository: it is modelled as *)
(* the loop over the entries, passing the last plugin enabled as the list  *)
(* tail, and leaving for the teardown on the first error.                  *)
(***************************************************************************)
EXTENDS Naturals, Sequences, FiniteSets, SequencesExt

CONSTANTS
    Kinds,   \* the names of the compiled-in plugins, in PLUGIN_INIT_ADD order
    Yaml,    \* the plugins sequence: [name, map] (the options are a YAML map)
    Faults   \* subset of {"alloc"}: malloc of a plugin copy may fail

NK    == Len(Kinds)
Nodes == 1 .. NK + Len(Yaml)
NULL  == 0
CopyOf(e) == NK + e

May(f) == IF f \in Faults THEN BOOLEAN ELSE {FALSE}

VARIABLES
    pc,       \* "load", "enable", "configure", "finish", "start", "stop",
              \* "cleanse_active", "cleanse_all", "done", "crash"
    all,      \* the list corsaro_load_all_plugins returned
    active,   \* the head of the enabled list
    tail,     \* the last plugin corsaro_enable_plugin returned
    nxt,      \* p->next of every node
    live,     \* the nodes malloc'd and not yet freed
    conf,     \* p->config: "null", "parsed" (malloc'd, iptrackers not set),
              \* "final" (finalise_config ran) or "freed"
    entry,    \* the configuration entry being handled
    enabled,  \* history: the copies corsaro_enable_plugin returned, in order
    ub        \* the undefined behaviours that have happened

vars == <<pc, all, active, tail, nxt, live, conf, entry, enabled, ub>>

\* the nodes a while (p != NULL) p = p->next loop visits from n; the bound
\* stops at a cycle, which no property needs to see past
RECURSIVE WalkFrom(_, _, _)
WalkFrom(f, n, budget) ==
    IF n = NULL \/ budget = 0 THEN << >> ELSE <<n>> \o WalkFrom(f, f[n], budget - 1)
Walk(f, n) == WalkFrom(f, n, Cardinality(Nodes) + 1)

-----------------------------------------------------------------------------

\* PLUGIN_INIT_ADD for every compiled-in plugin: tail = add_plugin(tail,
\* plugin_alloc(), 1), and all is the first copy made.  A failed malloc makes
\* tail NULL, so the next copy starts a list of its own; corsaro_plugin_verify
\* accepts the static plugin definitions.
LoadAllPlugins ==
    /\ pc = "load"
    /\ \E failed \in SUBSET (IF "alloc" \in Faults THEN 1 .. NK ELSE {}) :
        LET step(a, i) ==
              IF i \in failed THEN [a EXCEPT !.tail = NULL]
              ELSE [a EXCEPT !.nxt = IF a.tail = NULL THEN @ ELSE [@ EXCEPT ![a.tail] = i],
                             !.tail = i,
                             !.all = IF @ = NULL THEN i ELSE @,
                             !.live = @ \cup {i}]
            r == FoldLeft(step, [all |-> NULL, tail |-> NULL, nxt |-> nxt, live |-> {}],
                          [i \in 1 .. NK |-> i])
        IN  /\ all' = r.all /\ nxt' = r.nxt /\ live' = r.live
    /\ pc' = IF Yaml = << >> THEN "finish" ELSE "enable"
    /\ UNCHANGED <<active, tail, conf, entry, enabled, ub>>

\* corsaro_find_plugin: the first plugin of the list with the name
FindPlugin(head, name) ==
    LET hits == SelectInSeq(Walk(nxt, head), LAMBDA n : Kinds[n] = name)
    IN  IF hits = 0 THEN NULL ELSE Walk(nxt, head)[hits]

\* the next pointer add_plugin gives the copy: memcpy copies the parent's
CopyNext(parent) == nxt[parent]

\* the caller's find and corsaro_enable_plugin(logger, tail, parent):
\* add_plugin(tail, parent, 0) memcpy's the parent, links the copy after
\* tail, and copy->enabled = 1 dereferences the copy even when malloc failed.
\* No plugin of that name ends the configuration with an error.
EnablePlugin ==
    /\ pc = "enable"
    /\ LET parent == FindPlugin(all, Yaml[entry].name)
           c      == CopyOf(entry)
       IN  IF parent = NULL
           THEN /\ pc' = "cleanse_active"
                /\ UNCHANGED <<active, tail, nxt, live, conf, enabled, ub>>
           ELSE \E nomem \in May("alloc") :
                  IF nomem
                  THEN /\ pc' = "crash"
                       /\ ub' = ub \cup {"null_deref"}
                       /\ UNCHANGED <<active, tail, nxt, live, conf, enabled>>
                  ELSE /\ nxt' = IF tail = NULL THEN [nxt EXCEPT ![c] = CopyNext(parent)]
                                   ELSE [nxt EXCEPT ![c] = CopyNext(parent), ![tail] = c]
                       /\ conf' = [conf EXCEPT ![c] = conf[parent]]
                       /\ live' = live \cup {c}
                       /\ active' = IF active = NULL THEN c ELSE active
                       /\ tail' = c
                       /\ enabled' = Append(enabled, c)
                       /\ pc' = "configure"
                       /\ UNCHANGED ub
    /\ UNCHANGED <<all, entry>>

\* corsaro_report_parse_config: 0, with a config malloc'd and only
\* outlabel set, unless malloc fails or the options are not a map
ParseConfig(map, nomem) == map /\ ~nomem

\* corsaro_configure_plugin frees p->config (without clearing it), then the
\* report plugin's parse_config mallocs a config and sets p->config, or
\* returns -1 leaving it as it was when the options are not a map or
\* malloc fails; the caller stops at the error
ConfigurePlugin ==
    /\ pc = "configure"
    /\ \E nomem \in May("alloc") :
        LET c      == tail
            parsed == ParseConfig(Yaml[entry].map, nomem)
            old    == IF conf[c] = "null" THEN "null" ELSE "freed"
        IN  /\ conf' = [conf EXCEPT ![c] = IF parsed THEN "parsed" ELSE old]
            /\ ub' = ub \cup (IF conf[c] = "freed" THEN {"double_free"} ELSE {})
            /\ pc' = IF ~parsed THEN "cleanse_active"
                     ELSE IF entry = Len(Yaml) THEN "finish" ELSE "enable"
    /\ entry' = entry + 1
    /\ UNCHANGED <<all, active, tail, nxt, live, enabled>>

\* the undefined behaviour of a callback that reads p->config
ConfigRead(c) ==
    CASE c = "null"  -> {"null_deref"}
      [] c = "freed" -> {"use_after_free"}
      [] OTHER       -> {}

\* corsaro_report_finalise_config: the config gets its template, label,
\* tracker_count and iptrackers (a freed config is written all the same)
FinaliseConfig(c) == IF c = "freed" THEN "freed" ELSE "final"

\* corsaro_finish_plugin_config: finalise_config on every plugin of the list
\* whose config is not NULL (its return value is ignored); the report
\* plugin's fills in the config and starts its IP tracker threads
FinishPluginConfig ==
    /\ pc = "finish"
    /\ LET todo == {n \in Range(Walk(nxt, active)) : conf[n] # "null"}
       IN  /\ conf' = [n \in Nodes |-> IF n \in todo THEN FinaliseConfig(conf[n]) ELSE conf[n]]
           /\ ub' = ub \cup UNION {ConfigRead(conf[n]) : n \in todo}
    /\ pc' = "start"
    /\ UNCHANGED <<all, active, tail, nxt, live, entry, enabled>>

\* corsaro_start_plugins(logger, active, count, threadid) with count the
\* plugins enabled: assert(index < count) before every init_processing,
\* which reads the config's tracker_count
StartPlugins ==
    /\ pc = "start"
    /\ LET w       == Walk(nxt, active)
           inits   == UNION {ConfigRead(conf[w[i]]) : i \in 1 .. Min({Len(w), Len(enabled)})}
           overrun == IF Len(w) > Len(enabled) THEN {"assert"} ELSE {}
       IN  /\ ub' = ub \cup inits \cup overrun
           /\ pc' = IF "null_deref" \in inits \/ overrun # {} THEN "crash" ELSE "stop"
    /\ UNCHANGED <<all, active, tail, nxt, live, conf, entry, enabled>>

\* corsaro_stop_plugins: halt_processing with every plugin's state, then
\* the plugin set is freed
StopPlugins ==
    /\ pc = "stop"
    /\ pc' = "cleanse_active"
    /\ UNCHANGED <<all, active, tail, nxt, live, conf, entry, enabled, ub>>

\* corsaro_report_destroy_self: with a config, free the label, then each
\* tracker's handlers, mutex, queue and list for conf->tracker_count
\* trackers if conf->iptrackers is set, then the config; p->config = NULL.
\* A config finalise_config never saw has both fields uninitialised.
DestroySelf(c) ==
    CASE c = "parsed" -> {"uninitialised_read"}
      [] c = "freed"  -> {"double_free"}
      [] OTHER        -> {}

\* corsaro_cleanse_plugin_list(head): p->next is read, then destroy_self and
\* free(p); a node already freed is read and freed again
Cleanse(head) ==
    LET step(a, n) ==
          [live |-> a.live \ {n},
           conf |-> [a.conf EXCEPT ![n] = "null"],
           ub   |-> a.ub \cup DestroySelf(a.conf[n])
                         \cup (IF n \in a.live THEN {} ELSE {"double_free"})]
    IN  FoldLeft(step, [live |-> live, conf |-> conf, ub |-> ub], Walk(nxt, head))

\* the teardown: the enabled list, then the loaded list
CleansePluginList ==
    /\ pc \in {"cleanse_active", "cleanse_all"}
    /\ LET r == Cleanse(IF pc = "cleanse_active" THEN active ELSE all)
       IN  /\ live' = r.live /\ conf' = r.conf /\ ub' = r.ub
    /\ pc' = IF pc = "cleanse_active" THEN "cleanse_all" ELSE "done"
    /\ UNCHANGED <<all, active, tail, nxt, entry, enabled>>

Init ==
    /\ pc = "load"
    /\ all = NULL /\ active = NULL /\ tail = NULL
    /\ nxt = [n \in Nodes |-> NULL]
    /\ live = {}
    /\ conf = [n \in Nodes |-> "null"]
    /\ entry = 1
    /\ enabled = << >>
    /\ ub = {}

Next == LoadAllPlugins \/ EnablePlugin \/ ConfigurePlugin \/ FinishPluginConfig
        \/ StartPlugins \/ StopPlugins \/ CleansePluginList

Spec == Init /\ [][Next]_vars

-----------------------------------------------------------------------------
(* Properties                                                              *)

UB == {"null_deref", "use_after_free", "double_free", "uninitialised_read", "assert"}

(* TypeOK: the pointers are nodes or NULL and the list walk stays in range. *)
TypeOK ==
    /\ pc \in {"load", "enable", "configure", "finish", "start", "stop",
               "cleanse_active", "cleanse_all", "done", "crash"}
    /\ {all, active, tail} \subseteq Nodes \cup {NULL}
    /\ nxt \in [Nodes -> Nodes \cup {NULL}]
    /\ live \subseteq Nodes
    /\ conf \in [Nodes -> {"null", "parsed", "final", "freed"}]
    /\ entry \in 1 .. Len(Yaml) + 1
    /\ ub \subseteq UB

(* ActiveListIsEnabledCopies: from the first enable until the teardown, the *)
(* list the caller hands to corsaro_finish_plugin_config and                *)
(* corsaro_start_plugins holds exactly the copies corsaro_enable_plugin     *)
(* returned, in the order of the configuration: add_plugin links each new   *)
(* copy after the last, and the last is the end of the list.                *)
ActiveListIsEnabledCopies ==
    pc \in {"enable", "configure", "finish", "start", "stop"} /\ active # NULL =>
        Walk(nxt, active) = enabled

(* NoMemoryError: loading, enabling, configuring, finalising, starting and  *)
(* cleansing the plugin lists never reads freed or uninitialised memory,    *)
(* dereferences NULL, frees twice or fails the assert of                    *)
(* corsaro_start_plugins.                                                   *)
NoMemoryError == ub = {}
=============================================================================
