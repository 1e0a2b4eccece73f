---------------------------- MODULE MCRetention ----------------------------
(* The maintenance thread of the service, and the policy applied once by   *)
(* hand or by a timer.                                                     *)
EXTENDS Retention

CONSTANTS service, timer
=============================================================================
