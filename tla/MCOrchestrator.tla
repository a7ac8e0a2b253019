--------------------------- MODULE MCOrchestrator ---------------------------
(* Two scales, the second one twice, so that one has nothing left to seed.   *)
EXTENDS Orchestrator

MCCounts == <<1, 3, 3>>

=============================================================================
