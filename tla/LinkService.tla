----------------------------- MODULE LinkService -----------------------------
(***************************************************************************)
(* What NetlinkManager promises to the daemon's workers: each request is   *)
(* served in one step, on links nobody sees half changed.  A query answers *)
(* what is there.  A set that succeeds leaves the link in the state asked  *)
(* for, with the bitrate asked for; one that fails leaves the link as it   *)
(* was or down.  Other programs change links, too: before or after a       *)
(* request, or while it is served, and then nothing is promised about the  *)
(* links they changed, but all of the above about the others.              *)
(***************************************************************************)
EXTENDS Naturals

CONSTANTS
  Workers,      \* threads with requests
  Names,        \* interface names
  CanNames,     \* those that start with "can"
  Rates         \* bitrates

VARIABLES
  links,        \* the interfaces: present or not, their kind, state and bitrate
  asked,        \* each worker's request, NoRequest when it has none
  answer,       \* and its last answer
  disturbed     \* what other programs do to the links while a request is served

NoRequest == [op |-> "none"]
NoAnswer  == [code |-> "none", exists |-> FALSE, up |-> FALSE]

(* A bitrate is a matter of bringing a can* interface up only. *)
Requests ==
  [op : {"exists", "is_up", "create"}, name : Names] \cup
  [op : {"set"}, name : CanNames, up : {TRUE}, rate : Rates] \cup
  [op : {"set"}, name : Names \ CanNames, up : {TRUE}, rate : {0}] \cup
  [op : {"set"}, name : Names, up : {FALSE}, rate : {0}]

(* NetlinkClient asks for a bitrate when it brings a can* interface up. *)
SetsBitrate(r) == r.op = "set" /\ r.up /\ r.name \in CanNames

Ask(w, r) ==
  /\ asked[w] = NoRequest
  /\ asked' = [asked EXCEPT ![w] = r]
  /\ answer' = [answer EXCEPT ![w] = NoAnswer]
  /\ UNCHANGED <<links, disturbed>>

Ok(exists, up) == [code |-> "ok", exists |-> exists, up |-> up]
Failed         == [code |-> "error", exists |-> FALSE, up |-> FALSE]
BitrateFailed  == [code |-> "bitrate", exists |-> FALSE, up |-> FALSE]
Answers        == {Failed, BitrateFailed} \cup {Ok(e, u) : e \in BOOLEAN, u \in BOOLEAN}

(* Request r finds link l, is answered with a and leaves link m. *)
Query(r, a, l, m) ==
  /\ \/ a = Failed
     \/ r.op = "exists" /\ a = Ok(l.exists, FALSE)
     \/ r.op = "is_up" /\ a = Ok(l.exists, l.up)
  /\ m = l

Create(r, a, l, m) ==
  \/ a = Failed /\ m = l
  \/ a = Ok(FALSE, FALSE) /\ l.exists /\ m = l
  \/ /\ a = Ok(FALSE, FALSE) /\ ~l.exists
     /\ m = [exists |-> TRUE, kind |-> "vcan", up |-> FALSE, rate |-> 0]

Set(r, a, l, m) ==
  LET rate == IF SetsBitrate(r) THEN r.rate ELSE l.rate IN
  \/ a = Ok(FALSE, FALSE) /\ l.exists /\ m = [l EXCEPT !.up = r.up, !.rate = rate]
  \/ a = Failed /\ m = l
  \/ a \in {Failed, BitrateFailed} /\ SetsBitrate(r) /\ m = [l EXCEPT !.up = FALSE]
  \/ a = Failed /\ SetsBitrate(r) /\ m = [l EXCEPT !.up = FALSE, !.rate = rate]

Disturbed == {d.name : d \in disturbed}

Serve(w) ==
  LET r == asked[w] IN
  /\ r # NoRequest
  /\ asked' = [asked EXCEPT ![w] = NoRequest]
  /\ \E a \in Answers :
       /\ answer' = [answer EXCEPT ![w] = a]
       /\ r.name \in Disturbed
          \/ (r.op \in {"exists", "is_up"} /\ Query(r, a, links[r.name], links'[r.name]))
          \/ (r.op = "create" /\ Create(r, a, links[r.name], links'[r.name]))
          \/ (r.op = "set" /\ Set(r, a, links[r.name], links'[r.name]))
  /\ \A n \in Names \ (Disturbed \cup {r.name}) : links'[n] = links[n]
  /\ disturbed' = {}

(* Another program removes, creates or switches a link. *)
Outside(n) ==
  \/ /\ \A m \in Names \ {n} : links'[m] = links[m]
     /\ links'[n].exists # links[n].exists \/ links'[n].up # links[n].up
     /\ UNCHANGED <<asked, answer, disturbed>>
  \/ /\ \E what \in {"remove", "create", "switch"} :
          disturbed' = disturbed \cup {[name |-> n, what |-> what]}
     /\ UNCHANGED <<links, asked, answer>>

Init ==
  /\ links \in [Names -> [exists : BOOLEAN, kind : {"can", "vcan"}, up : BOOLEAN,
                          rate : {0}]]
  /\ asked = [w \in Workers |-> NoRequest] /\ answer = [w \in Workers |-> NoAnswer]
  /\ disturbed = {}

Next ==
  \/ \E w \in Workers : Serve(w) \/ \E r \in Requests : Ask(w, r)
  \/ \E n \in Names : Outside(n)

Spec == Init /\ [][Next]_<<links, asked, answer, disturbed>>
=============================================================================
