-------------------------- MODULE DispatcherService --------------------------
(***************************************************************************)
(* What a Dispatcher promises to the application: a callback table and at  *)
(* most one reaper.  A registration enters all its ids at once; a frame's  *)
(* callback is the one that the table has when it begins, it runs alone,   *)
(* and the table is not changed under it.  Frames come in the order of the *)
(* bus, until a start leaves two sockets open.  Between a start and a stop *)
(* there may be one callback without a frame, and only if the start found  *)
(* a notification that its predecessor had left.  A registration with an   *)
(* id outside the table ends all callbacks and all registrations; an id of *)
(* the bus outside the table may end the process.                          *)
(*                                                                         *)
(* Nothing here has a lock, a second thread, a socket or an event: that    *)
(* they make no difference is what Dispatcher shows by implementing it.    *)
(***************************************************************************)
EXTENDS Integers

CONSTANTS
  Callbacks,  \* the functions that can be registered
  NoFunc,     \* no function
  MaxId,      \* the length of the table
  IdSets      \* the sets of ids that can be registered

VARIABLES
  entries,    \* the callback of each id
  jammed,     \* a registration has failed
  active,     \* there is a reaper
  phantom,    \* it may still take a notification for a frame
  current,    \* the look-up under way: the frame's id, its number on the bus (0
              \* for a notification), the callback it found
  last,       \* the number of the last frame looked up
  doubled,    \* frames may come from two sockets, and in any order
  sent        \* frames on the bus so far

vars == <<entries, jammed, active, phantom, current, last, doubled, sent>>

Ids    == 0..(MaxId - 1)
NoCall == [id |-> 0, seq |-> 0, cb |-> NoFunc, running |-> FALSE]

Init ==
  /\ entries = [i \in Ids |-> NoFunc]
  /\ jammed = FALSE /\ active = FALSE /\ phantom = FALSE
  /\ current = NoCall /\ last = 0 /\ doubled = FALSE /\ sent = 0

Free == ~jammed /\ ~current.running

Register(ids, cb) ==
  /\ Free
  /\ entries' = [i \in Ids |-> IF i \in ids THEN cb ELSE entries[i]]
  /\ jammed' = (\E i \in ids : i >= MaxId)
  /\ UNCHANGED <<active, phantom, current, last, doubled, sent>>

Start ==
  /\ ~active /\ active' = TRUE
  /\ phantom' \in BOOLEAN
  /\ UNCHANGED <<entries, jammed, current, last, doubled, sent>>

(* No callback runs when a stop returns, and none begins before the next start. *)
Stop ==
  /\ active /\ ~current.running
  /\ active' = FALSE /\ phantom' = FALSE
  /\ UNCHANGED <<entries, jammed, current, last, doubled, sent>>

Frame ==
  /\ sent' = sent + 1
  /\ UNCHANGED <<entries, jammed, active, phantom, current, last, doubled>>

Double ==
  /\ ~doubled /\ doubled' = TRUE
  /\ UNCHANGED <<entries, jammed, active, phantom, current, last, sent>>

(* A frame may be missed, and it may be looked up twice when the socket is replaced
   while it arrives, but none is looked up after a later one unless two sockets are
   read. *)
Begin ==
  LET call == current' IN
  /\ active /\ Free
  /\ call.id \in Nat /\ call.seq \in Nat
  /\ call = [id |-> call.id, seq |-> call.seq,
             cb |-> IF call.id \in Ids THEN entries[call.id] ELSE NoFunc, running |-> TRUE]
  /\ \/ /\ call.seq > 0 /\ (doubled \/ last <= call.seq) /\ call.seq <= sent
        /\ UNCHANGED phantom
     \/ call.seq = 0 /\ phantom /\ phantom' = FALSE
  /\ UNCHANGED <<entries, jammed, active, last, doubled, sent>>

End ==
  /\ current.running
  /\ current' = NoCall
  /\ last' = IF current.seq = 0 THEN last ELSE current.seq
  /\ UNCHANGED <<entries, jammed, active, phantom, doubled, sent>>

(* The process dies in the look-up. *)
Die ==
  /\ current.running /\ current.id \notin Ids
  /\ current' = NoCall /\ jammed' = TRUE
  /\ UNCHANGED <<entries, active, phantom, last, doubled, sent>>

Next ==
  \/ \E ids \in IdSets, cb \in Callbacks : Register(ids, cb)
  \/ Start \/ Stop \/ Frame \/ Double \/ Begin \/ End \/ Die

Spec == Init /\ [][Next]_vars
=============================================================================
