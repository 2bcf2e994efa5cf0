-------------------------- MODULE MCEventPipeline --------------------------
(* Model-checking instance of EventPipeline: two chains (cfg.ChainIds has  *)
(* "1337" and "1338"), channels of capacity 1 so that a full channel is    *)
(* reached, and two concurrent callers of GET /v1/swap/latest.             *)
EXTENDS EventPipeline, TLC

CONSTANTS k1, k2

MCClients == {k1, k2}

MCSymmetry == Permutations(MCClients)
=============================================================================
