--------------------------- MODULE MCServiceHealth ---------------------------
(* Two collectors of one process.                                           *)
EXTENDS ServiceHealth

CONSTANTS exec, auth

Both == <<exec, auth>>

Exec == {exec}
=============================================================================
