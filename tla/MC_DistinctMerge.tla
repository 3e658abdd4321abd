-------------------------- MODULE MC_DistinctMerge --------------------------
(* Three plugins and two processing threads: a distinct-merge plugin whose *)
(* interim files share a result, an overlapping-merge plugin, and a         *)
(* distinct-merge plugin with one empty interim file.                       *)
EXTENDS DistinctMerge

MCInterim ==
    [q \in 1 .. 3 |-> CASE q = 1 -> <<<<1, 3>>, <<2, 3>>>>
                        [] q = 2 -> <<<<1>>, <<2>>>>
                        [] q = 3 -> <<<<2>>, << >>>>]

MCMergeStyle == <<"distinct", "overlapping", "distinct">>
===============================================================================
