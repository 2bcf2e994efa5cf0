---------------------------- MODULE MCLifecycle ----------------------------
(* Model-checking instance of Lifecycle: the process with one or two      *)
(* concurrent validation requests on the HTTP server.                      *)
EXTENDS Lifecycle, TLC

CONSTANTS r1, r2, a

MCRequests == {r1, r2}
MCIds == {a}
MCSigLens == {32}
=============================================================================
