--------------------------- MODULE MCJobLifecycle ---------------------------
(* Two jobs that wait for one memory.                                      *)
EXTENDS JobLifecycle

CONSTANTS j1, j2
=============================================================================
