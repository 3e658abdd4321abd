---------------------------- MODULE MC_MetricSeen ----------------------------
(* Two addresses, metric ids 0 (combined), 1 and 2, an array of two entries: *)
(* a third metric for an address forces the move into the hash map, either  *)
(* within one body or across bodies.                                         *)
EXTENDS MetricSeen

CONSTANTS a1, a2

MCBodies ==
    {[ipaddr |-> a, issrc |-> s, tags |-> tg, size |-> IF s THEN 1 ELSE 0] :
        a \in {a1, a2}, s \in BOOLEAN, tg \in {<<0, 1>>, <<0, 2>>, <<0, 1, 2>>}}
===============================================================================
