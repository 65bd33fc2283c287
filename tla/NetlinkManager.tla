--------------------------- MODULE NetlinkManager ---------------------------
(***************************************************************************)
(* HyCAN::NetlinkManager, shared by the daemon's workers: process_request  *)
(* under mutex_, one step per exchange with the kernel, and                *)
(* create_vcan_interface_if_not_exists.  link_cache_ is a copy of the      *)
(* kernel's links that nl_cache_refill brings up to date; other programs   *)
(* (ip, NetlinkClient's fallback) change the links at any time.            *)
(*                                                                         *)
(* The kernel is external: it refuses a change of a link that is gone and  *)
(* a bitrate for a link that is up, and may refuse any other exchange.     *)
(***************************************************************************)
EXTENDS Naturals

CONSTANTS
  Workers, NoWorker,   \* worker threads
  Names, CanNames,     \* interface names; those that start with "can"
  Rates,               \* bitrates
  MaxOutside           \* bound: changes by other programs

ASSUME NetlinkAssumption ==
  /\ NoWorker \notin Workers
  /\ CanNames \subseteq Names /\ Rates \subseteq Nat /\ MaxOutside \in Nat

VARIABLES
  links,       \* the kernel's links: index (0 when absent), kind, up, rate
  link_cache_, \* the manager's copy of them
  mutex_,      \* who holds it
  pc,          \* where each worker is
  goal,        \* the state it asks of set_interface_state_libnl
  asked,       \* its request
  answer,      \* its response
  before,      \* history: the links when the mutex was taken
  outside,     \* changes by other programs so far
  disturbed    \* history: what they did to which link since the mutex was taken

vars == <<links, link_cache_, mutex_, pc, goal, asked, answer, before, outside, disturbed>>

View(ls) == [n \in Names |-> [exists |-> ls[n].index > 0, kind |-> ls[n].kind,
                              up |-> ls[n].up, rate |-> ls[n].rate]]

(* The other workers see the links as they were until the mutex is released. *)
Service == INSTANCE LinkService WITH
  links  <- View(IF mutex_ = NoWorker THEN links ELSE before),
  answer <- [w \in Workers |-> IF pc[w] = "idle" THEN answer[w]
                               ELSE [code |-> "none", exists |-> FALSE, up |-> FALSE]]

NoRequest == Service!NoRequest
NoAnswer  == Service!NoAnswer
SetsBitrate(r) == Service!SetsBitrate(r)
Ok(exists, up) == Service!Ok(exists, up)
Failed         == Service!Failed
BitrateFailed  == Service!BitrateFailed

Link   == [index : 0..MaxOutside + 2, kind : {"can", "vcan"}, up : BOOLEAN,
           rate : Rates \cup {0}]
Absent == [index |-> 0, kind |-> "vcan", up |-> FALSE, rate |-> 0]

(* The index of a link created now, never used before for its name. *)
Fresh == outside + 2

(* initialize() fills the cache. *)
Init ==
  /\ links \in [Names -> {Absent} \cup
                         [index : {1}, kind : {"can", "vcan"}, up : BOOLEAN, rate : {0}]]
  /\ link_cache_ = links /\ before = [n \in Names |-> Absent]
  /\ mutex_ = NoWorker
  /\ pc = [w \in Workers |-> "idle"] /\ goal = [w \in Workers |-> FALSE]
  /\ asked = [w \in Workers |-> NoRequest] /\ answer = [w \in Workers |-> NoAnswer]
  /\ outside = 0 /\ disturbed = {}

-----------------------------------------------------------------------------
Goto(w, at, to) == pc[w] = at /\ pc' = [pc EXCEPT ![w] = to]

Respond(w, at, a) == Goto(w, at, "reply") /\ answer' = [answer EXCEPT ![w] = a]

Refill == link_cache_' = links

Request(w, r) ==
  /\ Goto(w, "idle", "lock")
  /\ asked' = [asked EXCEPT ![w] = r] /\ answer' = [answer EXCEPT ![w] = NoAnswer]
  /\ UNCHANGED <<links, link_cache_, mutex_, goal, before, outside, disturbed>>

(* process_request's lock_guard and its switch. *)
Dispatch(w) ==
  LET r == asked[w] IN
  /\ Goto(w, "lock", CASE r.op \in {"exists", "is_up"} -> "query"
                       [] r.op = "create" -> "lookup"
                       [] SetsBitrate(r) -> "check"
                       [] OTHER -> "refill")
  /\ mutex_' = w /\ before' = links /\ disturbed' = {}
  /\ goal' = [goal EXCEPT ![w] = r.op = "set" /\ r.up /\ ~SetsBitrate(r)]
  /\ UNCHANGED <<links, link_cache_, asked, answer, outside>>

\* Mutant of Lock: process_request without its lock_guard.
NoLock(w) == Dispatch(w)

Lock(w) == mutex_ = NoWorker /\ Dispatch(w)

Unlock(w) ==
  /\ Goto(w, "reply", "idle")
  /\ mutex_' = NoWorker /\ asked' = [asked EXCEPT ![w] = NoRequest]
  /\ goal' = [goal EXCEPT ![w] = FALSE]
  /\ before' = [n \in Names |-> Absent] /\ disturbed' = {}
  /\ UNCHANGED <<links, link_cache_, answer, outside>>

\* Mutant of Query: the cache is not refilled first.
QueryStale(w) ==
  LET l == link_cache_[asked[w].name] IN
  /\ Respond(w, "query", Ok(l.index > 0, asked[w].op = "is_up" /\ l.up))
  /\ UNCHANGED <<links, link_cache_, mutex_, goal, asked, before, outside, disturbed>>

(* check_interface_exists, and check_interface_is_up as a request. *)
Query(w) ==
  LET l == links[asked[w].name] IN
  /\ \/ /\ Refill
        /\ Respond(w, "query", Ok(l.index > 0, asked[w].op = "is_up" /\ l.up))
     \/ Respond(w, "query", Failed) /\ UNCHANGED link_cache_
  /\ UNCHANGED <<links, mutex_, goal, asked, before, outside, disturbed>>

-----------------------------------------------------------------------------
(***************************************************************************)
(* create_vcan_interface_if_not_exists.                                    *)
(***************************************************************************)
\* Mutant of Lookup: the cache is asked instead of the kernel.
LookupCached(w) ==
  LET there == link_cache_[asked[w].name].index > 0 IN
  /\ \/ Respond(w, "lookup", Ok(FALSE, FALSE)) /\ there
     \/ Goto(w, "lookup", "add") /\ ~there /\ UNCHANGED answer
     \/ Respond(w, "lookup", Failed)
  /\ UNCHANGED <<links, link_cache_, mutex_, goal, asked, before, outside, disturbed>>

Lookup(w) ==
  LET there == links[asked[w].name].index > 0 IN
  /\ \/ Respond(w, "lookup", Ok(FALSE, FALSE)) /\ there
     \/ Goto(w, "lookup", "add") /\ ~there /\ UNCHANGED answer
     \/ Respond(w, "lookup", Failed)
  /\ UNCHANGED <<links, link_cache_, mutex_, goal, asked, before, outside, disturbed>>

(* rtnl_link_add without NLM_F_EXCL: a link of that name created meanwhile is
   left alone, and that is a success too. *)
Add(w) ==
  LET n == asked[w].name IN
  /\ \/ /\ Respond(w, "add", Ok(FALSE, FALSE))
        /\ links' = IF links[n].index > 0 THEN links
                    ELSE [links EXCEPT ![n] = [Absent EXCEPT !.index = Fresh]]
     \/ Respond(w, "add", Failed) /\ UNCHANGED links
  /\ UNCHANGED <<link_cache_, mutex_, goal, asked, before, outside, disturbed>>

-----------------------------------------------------------------------------
(***************************************************************************)
(* SET_INTERFACE_STATE: down if it is up, bitrate, up.                     *)
(***************************************************************************)

\* Mutant of Check: an interface that is up is not brought down first.
CheckNoDown(w) ==
  /\ Goto(w, "check", "bitrate") /\ Refill
  /\ UNCHANGED <<links, mutex_, goal, asked, answer, before, outside, disturbed>>

(* check_interface_is_up. *)
Check(w) ==
  /\ \/ /\ Goto(w, "check", IF links[asked[w].name].up THEN "refill" ELSE "bitrate")
        /\ Refill /\ UNCHANGED answer
     \/ Respond(w, "check", Failed) /\ UNCHANGED link_cache_
  /\ UNCHANGED <<links, mutex_, goal, asked, before, outside, disturbed>>

(* Where a successful set_interface_state_libnl returns to. *)
After(w, at) ==
  IF asked[w].up /\ ~goal[w] THEN Goto(w, at, "bitrate") /\ UNCHANGED answer
                             ELSE Respond(w, at, Ok(FALSE, FALSE))

(* set_interface_state_libnl: the cache, the link and its state ... *)
SetRefill(w) ==
  LET l == links[asked[w].name] IN
  /\ pc[w] = "refill"
  /\ \/ /\ Refill
        /\ \/ l.index > 0 /\ l.up = goal[w] /\ After(w, "refill")
           \/ l.index > 0 /\ l.up # goal[w] /\ Goto(w, "refill", "change") /\ UNCHANGED answer
           \/ l.index = 0 /\ Respond(w, "refill", Failed)
     \/ Respond(w, "refill", Failed) /\ UNCHANGED link_cache_
  /\ UNCHANGED <<links, mutex_, goal, asked, before, outside, disturbed>>

(* The kernel finds the link by the index the cache has. *)
Current(n) == links[n].index > 0 /\ links[n].index = link_cache_[n].index

(* ... rtnl_link_change ... *)
SetChange(w) ==
  LET n == asked[w].name IN
  /\ \/ /\ Goto(w, "change", "refresh") /\ Current(n) /\ UNCHANGED answer
        /\ links' = [links EXCEPT ![n].up = goal[w]]
     \/ Respond(w, "change", Failed) /\ UNCHANGED links
  /\ UNCHANGED <<link_cache_, mutex_, goal, asked, before, outside, disturbed>>

(* ... and the cache again, where a failure is ignored. *)
SetRefresh(w) ==
  /\ pc[w] = "refresh" /\ After(w, "refresh")
  /\ Refill \/ UNCHANGED link_cache_
  /\ UNCHANGED <<links, mutex_, goal, asked, before, outside, disturbed>>

\* Mutant of Bitrate: the interface is brought up even if this fails.
BitrateIgnored(w) ==
  LET n == asked[w].name IN
  /\ Goto(w, "bitrate", "refill") /\ goal' = [goal EXCEPT ![w] = TRUE]
  /\ \/ /\ Current(n) /\ links[n].kind = "can" /\ ~links[n].up
        /\ links' = [links EXCEPT ![n].rate = asked[w].rate]
     \/ UNCHANGED links
  /\ UNCHANGED <<link_cache_, mutex_, asked, answer, before, outside, disturbed>>

(* set_can_bitrate_libnl, on the cache as it is, then set_interface_state_libnl. *)
Bitrate(w) ==
  LET n == asked[w].name IN
  /\ \/ /\ Goto(w, "bitrate", "refill")
        /\ link_cache_[n].kind = "can" /\ Current(n) /\ ~links[n].up
        /\ links' = [links EXCEPT ![n].rate = asked[w].rate]
        /\ goal' = [goal EXCEPT ![w] = TRUE]
        /\ UNCHANGED answer
     \/ Respond(w, "bitrate", BitrateFailed) /\ UNCHANGED <<links, goal>>
  /\ UNCHANGED <<link_cache_, mutex_, asked, before, outside, disturbed>>

-----------------------------------------------------------------------------
(* Another program removes, creates or switches a link. *)
Outside(n, what) ==
  /\ outside < MaxOutside /\ outside' = outside + 1
  /\ disturbed' = IF mutex_ = NoWorker THEN {}
                  ELSE disturbed \cup {[name |-> n, what |-> what]}
  /\ \/ what = "remove" /\ links[n].index > 0 /\ links' = [links EXCEPT ![n] = Absent]
     \/ what = "switch" /\ links[n].index > 0 /\ links' = [links EXCEPT ![n].up = ~@]
     \/ /\ what = "create" /\ links[n].index = 0
        /\ \E k \in {"can", "vcan"} :
             links' = [links EXCEPT ![n] = [Absent EXCEPT !.index = Fresh, !.kind = k]]
  /\ UNCHANGED <<link_cache_, mutex_, pc, goal, asked, answer, before>>

WorkerStep(w) ==
  \/ Lock(w) \/ Query(w) \/ Lookup(w) \/ Add(w) \/ Check(w)
  \/ SetRefill(w) \/ SetChange(w) \/ SetRefresh(w) \/ Bitrate(w) \/ Unlock(w)

Next ==
  \/ \E w \in Workers : WorkerStep(w) \/ \E r \in Service!Requests : Request(w, r)
  \/ \E n \in Names, what \in {"remove", "create", "switch"} : Outside(n, what)

Spec == Init /\ [][Next]_vars

-----------------------------------------------------------------------------
(* Every variable has a value of its type, and a worker is inside process_request
   exactly while it holds mutex_. *)
TypeOK ==
  /\ links \in [Names -> Link] /\ link_cache_ \in [Names -> Link]
  /\ before \in [Names -> Link]
  /\ mutex_ \in Workers \cup {NoWorker}
  /\ pc \in [Workers -> {"idle", "lock", "query", "lookup", "add", "check", "refill",
                         "change", "refresh", "bitrate", "reply"}]
  /\ goal \in [Workers -> BOOLEAN]
  /\ asked \in [Workers -> Service!Requests \cup {NoRequest}]
  /\ answer \in [Workers -> [code : {"none", "ok", "error", "bitrate"},
                             exists : BOOLEAN, up : BOOLEAN]]
  /\ outside \in 0..MaxOutside
  /\ disturbed \subseteq [name : Names, what : {"remove", "create", "switch"}]
  /\ \A w \in Workers : (mutex_ = w) <=> (pc[w] \notin {"idle", "lock"})

Answered(w, op, codes) ==
  pc[w] = "reply" /\ asked[w].op = op /\ answer[w].code \in codes

(* A set that reports success has brought the link to the state asked for and,
   where it sets one, to its bitrate, unless another program changed that link
   meanwhile; another worker cannot, although all share the cache. *)
SuccessIsTrue ==
  \A w \in Workers : Answered(w, "set", {"ok"}) /\ asked[w].name \notin Service!Disturbed =>
    LET r == asked[w]  l == links[r.name] IN
    /\ l.index > 0 /\ l.up = r.up
    /\ SetsBitrate(r) => l.rate = r.rate

(* process_request says of a failed set_can_bitrate_libnl that the interface is
   down by then. *)
FailedBitrateIsDown ==
  \A w \in Workers : Answered(w, "set", {"bitrate"}) /\ asked[w].name \notin Service!Disturbed =>
    ~links[asked[w].name].up

(* A create that reports success leaves a link of that name, also when another
   program created it between the look-up and the creation; only one that removes
   it meanwhile can prevent that. *)
CreateIsThere ==
  \A w \in Workers : Answered(w, "create", {"ok"}) =>
    \/ links[asked[w].name].index > 0
    \/ [name |-> asked[w].name, what |-> "remove"] \in disturbed

(* process_request implements LinkService: each request takes effect at once, and
   a change by another program disturbs no request but those for that link. *)
Implements == Service!Spec
=============================================================================
