--------------------------- MODULE MCOrchestrator ---------------------------
(* Orchestrator on small instances: three CNF instances are enough for a    *)
(* raise, a raise from an owned instance and one more after a failure or a  *)
(* restart.                                                                 *)
EXTENDS Orchestrator

=============================================================================
