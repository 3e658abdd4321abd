----------------------------- MODULE KnownIpSpec -----------------------------
(* What an IP tracker promises about the bodies it applies to one set of     *)
(* maps: every <<ip, metric, bit>> observation is remembered, and a metric's *)
(* unique source (destination) count grows exactly when an address is seen  *)
(* as a source (destination) for that metric for the first time.            *)
EXTENDS KnownIpOps

CONSTANT Bodies     \* the update bodies [ipaddr, issrc, tags, size] a tracker receives

VARIABLES ips, tally

Init == ips = {} /\ tally = << >>

Apply(b) ==
    LET acc == ProcessMsgBody([ips |-> ips, tally |-> tally], b)
    IN  ips' = acc.ips /\ tally' = acc.tally

Next == \E b \in Bodies : Apply(b)

Spec == Init /\ [][Next]_<<ips, tally>>
===============================================================================
