------------------------------ MODULE MCPriority ------------------------------
(* PriorityOrder for TLC, with priorities in and out of the bounds.        *)
EXTENDS PriorityOrder

SomePriorities == {-4, -1, 0, 1}
===============================================================================
