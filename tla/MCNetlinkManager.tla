-------------------------- MODULE MCNetlinkManager --------------------------
(* Instances of NetlinkManager for TLC. *)
EXTENDS NetlinkManager, TLC

CONSTANTS w1, w2

WorkerSymmetry == Permutations({w1, w2})
=============================================================================
