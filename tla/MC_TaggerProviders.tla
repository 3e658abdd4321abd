------------------------- MODULE MC_TaggerProviders -------------------------
(* Two instances of the maxmind provider and one of pfx2as, so that a       *)
(* replace can find a node of the same id at the head, in the middle or at *)
(* the tail of the list.                                                   *)
EXTENDS TaggerProviders

CONSTANTS mm1, mm2, pa1, null, dangling

MCProvId == [p \in {mm1, mm2, pa1} |-> IF p = pa1 THEN 3 ELSE 1]
===============================================================================
