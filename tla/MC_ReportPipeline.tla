------------------------- MODULE MC_ReportPipeline -------------------------
(* Instantiation of ReportPipeline for TLC: two trackers, three addresses   *)
(* (1.0.0.1 and 1.0.0.2 hash to tracker 1, 2.0.0.1 to tracker 0) and two    *)
(* packet shapes that share a source /8 and a destination.                 *)
EXTENDS ReportPipeline

A1 == 16777217     \* 1.0.0.1
A2 == 16777218     \* 1.0.0.2
B1 == 33554433     \* 2.0.0.1

\* metric ids: 0 is combined, 6 stands for one protocol metric
MCPackets == { [src |-> A1, dst |-> B1, size |-> 1, tags |-> <<0>>],
               [src |-> A2, dst |-> B1, size |-> 2, tags |-> <<0, 6>>] }

\* one packet shape only, for the larger runs
MCPacketsOne == { [src |-> A1, dst |-> B1, size |-> 1, tags |-> <<0, 6>>] }

\* a packet whose IP header carries a total length of 0
MCPacketsZero == { [src |-> A1, dst |-> B1, size |-> 0, tags |-> <<0>>] }

\* The processing threads are interchangeable: they run the same code and
\* the trackers only compare sender ids.
ProcSymmetry == Permutations(Procs)
============================================================================
