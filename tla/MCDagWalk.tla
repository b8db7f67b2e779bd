----------------------------- MODULE MCDagWalk -----------------------------
(* Instances of DagWalk for TLC. *)
EXTENDS DagWalk

\* Every graph over the tasks, cycles and unknown names included.
AllGraphs == [Tasks -> SUBSET (Tasks \union {Unknown})]

=============================================================================
