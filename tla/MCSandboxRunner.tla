--------------------------- MODULE MCSandboxRunner ---------------------------
(***************************************************************************)
(* Small instances of SandboxRunner: the names of the executions.          *)
(***************************************************************************)
EXTENDS SandboxRunner

CONSTANTS e1, e2
=============================================================================
