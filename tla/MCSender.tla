------------------------------ MODULE MCSender ------------------------------
(* Instances of Sender for TLC. *)
EXTENDS Sender, TLC

CONSTANTS snd1, snd2

SenderSymmetry == Permutations(Senders)
=============================================================================
