------------------------- MODULE MC_ReportWriter -------------------------
(* Instantiation of ReportWriter for TLC: two metric ids and two trackers,  *)
(* so that a metric can be in one tally, in both, or in neither, and a     *)
(* tracker can exit while the other publishes.                             *)
EXTENDS ReportWriter

CONSTANTS m1, m2

MCMetrics == {m1, m2}
============================================================================
