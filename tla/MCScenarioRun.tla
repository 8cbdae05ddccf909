--------------------------- MODULE MCScenarioRun ---------------------------
(* Small instances of ScenarioRun for TLC. *)
EXTENDS ScenarioRun

(* Each target has a cluster of its own, as PostScenarioRun enforces. *)
OwnName == [t \in Targets |-> t]
=============================================================================
