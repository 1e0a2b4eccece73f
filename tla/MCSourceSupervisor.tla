------------------------ MODULE MCSourceSupervisor ------------------------
(***************************************************************************)
(* TLC instances of SourceSupervisor, and the claim of CollectorSupervisor *)
(* that a stop in the wrong moment refutes.                                *)
(***************************************************************************)
EXTENDS SourceSupervisor

\* healthy(): "backoff is a source that is expected back".
BackoffComesBack == status = "backoff" => sup # "done"
=============================================================================
