------------------------------ MODULE MCJobSystem ------------------------------
(* JobSystem for TLC.  Worker and request names are interchangeable; the    *)
(* symmetry is used by the configurations that check no liveness.          *)
EXTENDS JobRefinement, TLC

Symmetry == Permutations(Workers) \cup Permutations(Requests)
===============================================================================
