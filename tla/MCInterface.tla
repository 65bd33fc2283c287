---------------------------- MODULE MCInterface ----------------------------
(* Instances of Interface for TLC.  The table has three entries, ids 0..2. *)
EXTENDS Interface

ValidIdSets == {{1}}

\* Each type once, the CAN interface with a name that does not say so.
TwoKinds == {[type |-> "CAN", named |-> FALSE], [type |-> "VCAN", named |-> TRUE]}
=============================================================================
