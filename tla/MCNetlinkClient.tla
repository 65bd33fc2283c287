-------------------------- MODULE MCNetlinkClient --------------------------
(* Instances of NetlinkClient for TLC. *)
EXTENDS NetlinkClient, TLC

CONSTANTS proc1, thr1, thr2

\* Two threads of one process, which share its session; a single thread.
OneProcess == (thr1 :> proc1) @@ (thr2 :> proc1)
OneThread  == thr1 :> proc1

\* The threads of OneProcess are interchangeable.
ThreadSymmetry == Permutations({thr1, thr2})
=============================================================================
