---------------------------- MODULE DistinctMerge ----------------------------
(***************************************************************************)
(* The merge of the interim files of the first framework                   *)
(* (src/unnamed/part_003): corsaro_merge_plugin_outputs walks the plugin   *)
(* list; for each plugin it derives the merged file's name, opens a merge  *)
(* writer and one merge reader per processing thread, runs the plugin's    *)
(* merge style, then closes the readers and the writer.                    *)
(* perform_distinct_merge is a k-way merge: every pass reads a fresh       *)
(* result for each reader whose slot is BLANK, closes the readers at EOF,  *)
(* picks the least result (compare_results > 0 moves to a later reader)    *)
(* and writes it.  A result is a number ordered by <; the interim file of  *)
(* plugin q and thread i is Interim[q][i].  The outcomes of the merge API  *)
(* calls (name, writer, reader, read, write), whose code is not part of    *)
(* this file, are chosen among Faults.                                     *)
(***************************************************************************)
EXTENDS Naturals, Sequences, FiniteSets, SequencesExt

CONSTANTS
    NP,          \* plugins in the list
    T,           \* fin->threads_ended
    Interim,     \* [1..NP -> [1..T -> Seq(result)]]
    MergeStyle,  \* [1..NP -> {"distinct", "overlapping"}]
    Faults       \* subset of {"name", "writer", "open", "read", "write"}

Threads == 1 .. T
NULLP == NP + 1  \* p == NULL: the end of the plugin list

VARIABLES
    pc,       \* "plugin", "merge", "close", "done" or "crash"
    p,        \* the plugin being merged
    index,    \* the index of its state in pset->plugin_state
    stateof,  \* the plugin_state index each plugin's merge used (NP: none)
    writer,   \* output != NULL
    readers,  \* readers[i] != NULL
    pos,      \* the next result of each interim file
    results,  \* results[i]: [type, val]
    output,   \* what each plugin's merged file holds
    errors

vars == <<pc, p, index, stateof, writer, readers, pos, results, output, errors>>

BLANK == [type |-> "BLANK", val |-> 0]
EOF   == [type |-> "EOF", val |-> 0]

\* the outcomes a merge API call may have: failing only if f is a fault
May(f) == IF f \in Faults THEN BOOLEAN ELSE {FALSE}

\* corsaro_start_reader_plugins and the set-up of corsaro_merge_plugin_outputs
Init ==
    /\ pc = "plugin"
    /\ p = 1
    /\ index = 0
    /\ stateof = [q \in 1 .. NP |-> NP]
    /\ writer = FALSE
    /\ readers = [i \in Threads |-> FALSE]
    /\ pos = [i \in Threads |-> 1]
    /\ results = [i \in Threads |-> BLANK]
    /\ output = [q \in 1 .. NP |-> << >>]
    /\ errors = 0

\* one plugin of the loop of corsaro_merge_plugin_outputs, up to the merge:
\* a NULL name skips the plugin without index++; a NULL writer counts an
\* error and steps p and index but goes on, with the next plugin and no
\* writer (p->derive_output_name on p == NULL when there is none); then the
\* readers, one error for each that fails to open
OpenPlugin ==
    /\ pc = "plugin"
    /\ p # NULLP
    /\ \E nofile \in May("name"), nowriter \in May("writer") :
        IF nofile
        THEN /\ errors' = errors + 1
             /\ p' = p + 1
             /\ UNCHANGED <<pc, index, stateof, writer, readers, pos, results, output>>
        ELSE LET q == IF nowriter THEN p + 1 ELSE p
                 k == IF nowriter THEN index + 1 ELSE index
             IN  IF q = NULLP
                 THEN /\ pc' = "crash"
                      /\ errors' = errors + 1
                      /\ UNCHANGED <<p, index, stateof, writer, readers, pos, results, output>>
                 ELSE \E failed \in SUBSET (IF "open" \in Faults THEN Threads ELSE {}) :
                        /\ p' = q
                        /\ index' = k
                        /\ stateof' = [stateof EXCEPT ![q] = k]
                        /\ writer' = ~nowriter
                        /\ readers' = [i \in Threads |-> i \notin failed]
                        /\ pos' = [i \in Threads |-> 1]
                        /\ results' = [i \in Threads |-> BLANK]
                        /\ errors' = errors + Cardinality(failed) + (IF nowriter THEN 1 ELSE 0)
                        /\ pc' = IF MergeStyle[q] = "distinct" THEN "merge" ELSE "close"
                        /\ UNCHANGED output

\* compare_results(cand, r) > 0: r is a better candidate than cand
Later_max(cand, r) == cand.val < r.val
Later(cand, r) == cand.val > r.val

\* corsaro_read_next_merge_result: EOF once the file's results are read
AtEnd_early(k, file) == k >= Len(file)
AtEnd(k, file) == k > Len(file)

\* the reader moves past the result it read
Advance_two(k) == k + 2
Advance(k) == k + 1

\* the scan over the readers of one pass of perform_distinct_merge: a BLANK
\* slot is refilled (a read error in rerr closes the reader), a reader at EOF
\* is closed, and cand is the first reader holding the least result
Scan(rerr) ==
    LET step(a, i) ==
          IF ~a.readers[i] THEN a
          ELSE LET file == Interim[p][i]
                   fresh == a.results[i].type = "BLANK"
                   r == IF ~fresh THEN a.results[i]
                        ELSE IF AtEnd(a.pos[i], file) THEN EOF
                        ELSE [type |-> "DATA", val |-> file[a.pos[i]]]
               IN  IF (fresh /\ i \in rerr) \/ r.type = "EOF"
                   THEN [a EXCEPT !.readers[i] = FALSE, !.results[i] = EOF]
                   ELSE [a EXCEPT !.results[i] = r,
                                  !.pos[i] = IF fresh THEN Advance(@) ELSE @,
                                  !.cand = IF @ = 0 \/ Later(a.results[@], r) THEN i ELSE @]
    IN  FoldLeft(step, [readers |-> readers, pos |-> pos, results |-> results, cand |-> 0],
                 [j \in 1 .. T |-> j])

\* one pass of the do-while loop of perform_distinct_merge: no candidate
\* ends the merge; a failed write returns -1 (one error); otherwise the
\* result is written and its slot released to BLANK
MergePass ==
    /\ pc = "merge"
    /\ \E rerr \in SUBSET (IF "read" \in Faults THEN Threads ELSE {}) :
        LET s == Scan(rerr)
        IN  /\ readers' = s.readers
            /\ pos' = s.pos
            /\ IF s.cand = 0
               THEN /\ pc' = "close"
                    /\ UNCHANGED <<results, output, errors>>
               ELSE \E wfail \in May("write") \cup (IF writer THEN {} ELSE {TRUE}) :
                      IF wfail
                      THEN /\ pc' = "close"
                           /\ results' = s.results
                           /\ errors' = errors + 1
                           /\ UNCHANGED output
                      ELSE /\ output' = [output EXCEPT ![p] = Append(@, s.results[s.cand].val)]
                           /\ results' = [s.results EXCEPT ![s.cand] = BLANK]
                           /\ UNCHANGED <<pc, errors>>
    /\ UNCHANGED <<p, index, stateof, writer>>

\* the end of the loop body: every open reader is closed, the writer is
\* closed, and p and index step to the next plugin
ClosePlugin ==
    /\ pc = "close"
    /\ pc' = "plugin"
    /\ readers' = [i \in Threads |-> FALSE]
    /\ writer' = FALSE
    /\ p' = p + 1
    /\ index' = index + 1
    /\ UNCHANGED <<stateof, pos, results, output, errors>>

\* the end of the plugin list: corsaro_stop_plugins, return errors
Finish ==
    /\ pc = "plugin"
    /\ p = NULLP
    /\ pc' = "done"
    /\ UNCHANGED <<p, index, stateof, writer, readers, pos, results, output, errors>>

Next == OpenPlugin \/ MergePass \/ ClosePlugin \/ Finish

Spec == Init /\ [][Next]_vars

-----------------------------------------------------------------------------

\* every result of plugin q's interim files, as a bag
InterimBag(q) == FoldLeft(LAMBDA b, i : b (+) ToBag(Interim[q][i]), EmptyBag, [j \in 1 .. T |-> j])

\* the longest interim file
MaxLen == Max({Len(Interim[q][i]) : q \in 1 .. NP, i \in Threads})

InOrder(s) == \A j \in 1 .. Len(s) - 1 : s[j] <= s[j + 1]

(* TypeOK: the merge state stays within its ranges: a reader never reads   *)
(* past the end of its interim file, and index never passes the plugins.  *)
TypeOK ==
    /\ pc \in {"plugin", "merge", "close", "done", "crash"}
    /\ p \in 1 .. NULLP
    /\ index \in 0 .. NP
    /\ \A i \in Threads : pos[i] \in 1 .. MaxLen + 1
    /\ pc = "merge" => \A i \in Threads : pos[i] \in 1 .. Len(Interim[p][i]) + 1
    /\ \A i \in Threads : results[i].type \in {"BLANK", "EOF", "DATA"}
    /\ errors \in Nat

(* MergedInOrder: whatever the merge API calls return, every merged file  *)
(* holds results of that plugin's interim files only, none more often than *)
(* they hold it, in compare order when each interim file is: the k-way    *)
(* selection of perform_distinct_merge and the release of each written    *)
(* slot to BLANK.                                                          *)
MergedInOrder ==
    \A q \in 1 .. NP :
        /\ ToBag(output[q]) \sqsubseteq InterimBag(q)
        /\ (\A i \in Threads : InOrder(Interim[q][i])) => InOrder(output[q])

(* ErrorFreeMergeComplete: when corsaro_merge_plugin_outputs returns 0     *)
(* errors, the merged file of every distinct-merge plugin holds every      *)
(* result of each of its interim files, as often as they hold it.          *)
ErrorFreeMergeComplete ==
    pc = "done" /\ errors = 0 =>
        \A q \in 1 .. NP : MergeStyle[q] = "distinct" => ToBag(output[q]) = InterimBag(q)

(* PluginStateMatches: each plugin is merged with its own reader state,    *)
(* pset->plugin_state[q - 1], after any failures of earlier plugins.       *)
PluginStateMatches ==
    \A q \in 1 .. NP : stateof[q] # NP => stateof[q] = q - 1

(* MergeReturns: the merge returns, with an error count, whatever the   *)
(* merge API calls return, rather than dereferencing the end of the list.  *)
MergeReturns ==
    pc # "crash"
===============================================================================
