------------------------------ MODULE MCDaemon ------------------------------
(* Instances of Daemon for TLC. *)
EXTENDS Daemon, TLC

CONSTANTS proc1, proc2, thr1, thr2

\* One thread in each of two processes; a single thread.
TwoProcesses == (thr1 :> proc1) @@ (thr2 :> proc2)
OneThread    == thr1 :> proc1
=============================================================================
