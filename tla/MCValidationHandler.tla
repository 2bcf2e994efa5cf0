------------------------ MODULE MCValidationHandler ------------------------
(* Model-checking instance of ValidationHandler: two concurrent requests,  *)
(* two byte strings so that SwapID and SwapTxHash can coincide or differ,  *)
(* and signature lengths on both sides of the 32-byte check.               *)
EXTENDS ValidationHandler, TLC

CONSTANTS r1, r2, a, b

MCRequests == {r1, r2}
MCIds == {a, b}
MCSigLens == {31, 32}

MCSymmetry == Permutations(MCRequests)
=============================================================================
