------------------------ MODULE NetlinkManagerProofs ------------------------
(***************************************************************************)
(* process_request implements LinkService, and what the runs check of its  *)
(* answers, proved for every number of workers, interfaces and bitrates    *)
(* and for any number of changes by other programs.                        *)
(***************************************************************************)
EXTENDS NetlinkManager, TLAPS

Sets == {"check", "refill", "change", "refresh", "bitrate"}

(* A worker is on the path of its request, and goal is the state this path wants
   the link in: down before the bitrate, up after it, else what was asked for. *)
OnPath(w) ==
  LET r == asked[w] IN
  /\ (pc[w] = "idle") <=> (r = NoRequest)
  /\ pc[w] = "query" => r.op \in {"exists", "is_up"}
  /\ pc[w] \in {"lookup", "add"} => r.op = "create"
  /\ pc[w] \in Sets => r.op = "set"
  /\ pc[w] \in {"check", "bitrate"} => SetsBitrate(r) /\ ~goal[w]
  /\ pc[w] \in {"refill", "change", "refresh"} /\ ~SetsBitrate(r) => goal[w] = r.up

(* The worker has set the bitrate of its interface and brings it up. *)
Second(w) == SetsBitrate(asked[w]) /\ goal[w]

(* Link l is link b with another state and bitrate. *)
Like(l, b, up, rate) ==
  l.index = b.index /\ l.kind = b.kind /\ l.up = up /\ l.rate = rate

Seen(l) == [exists |-> l.index > 0, kind |-> l.kind, up |-> l.up, rate |-> l.rate]

(* What LinkService allows the answer and the link to be. *)
Promised(r, a, b, l) ==
  /\ r.op \in {"exists", "is_up"} => Service!Query(r, a, Seen(b), Seen(l))
  /\ r.op = "create" => Service!Create(r, a, Seen(b), Seen(l))
  /\ r.op = "set" => Service!Set(r, a, Seen(b), Seen(l))

(* How far the worker has got with the link, compared with the link as it was when
   the worker took the mutex. *)
Progress(w) ==
  LET r == asked[w]  b == before[r.name]  l == links[r.name] IN
  /\ pc[w] \in {"query", "lookup", "add", "check"} => l = b
  /\ pc[w] = "add" => b.index = 0
  /\ pc[w] \in {"refill", "change"} =>
       IF Second(w) THEN b.index > 0 /\ Like(l, b, FALSE, r.rate) ELSE l = b
  /\ pc[w] = "change" => b.index > 0 /\ l.up # goal[w]
  /\ pc[w] = "refresh" =>
       b.index > 0 /\ Like(l, b, goal[w], IF Second(w) THEN r.rate ELSE b.rate)
  /\ pc[w] = "bitrate" => Like(l, b, FALSE, b.rate)
  /\ pc[w] = "reply" => Promised(r, answer[w], b, l)

(* The links that only the worker with the mutex could have changed, and has not. *)
Untouched ==
  /\ mutex_ = NoWorker => disturbed = {}
  /\ \A w \in Workers : mutex_ = w =>
       \A n \in Names \ (Service!Disturbed \cup {asked[w].name}) : links[n] = before[n]


ManagerInv ==
  /\ TypeOK /\ Untouched /\ CreateIsThere
  /\ \A w \in Workers :
       /\ OnPath(w)
       /\ mutex_ = w /\ asked[w].name \notin Service!Disturbed => Progress(w)

-----------------------------------------------------------------------------
(* What a request is. *)
LEMMA RequestOp == ASSUME NEW r, r.op # "none" PROVE r # NoRequest
  BY DEF NoRequest, Service!NoRequest

LEMMA RequestParts ==
  ASSUME NEW r \in Service!Requests
  PROVE  /\ r.op \in {"exists", "is_up", "create", "set"} /\ r.name \in Names
         /\ r.op = "set" => r.up \in BOOLEAN /\ r.rate \in Rates \cup {0}
         /\ r # NoRequest
  <1>1. CASE r \in [op : {"exists", "is_up", "create"}, name : Names]
    BY <1>1, RequestOp
  <1>2. CASE r \in [op : {"set"}, name : CanNames, up : {TRUE}, rate : Rates]
    <2>1. r.op = "set" /\ r.name \in Names  BY <1>2, NetlinkAssumption
    <2>2. r.up \in BOOLEAN  BY <1>2
    <2>3. r.rate \in Rates  BY <1>2
    <2> QED  BY <2>1, <2>2, <2>3, RequestOp
  <1>3. CASE r \in [op : {"set"}, name : Names \ CanNames, up : {TRUE}, rate : {0}]
    <2>1. r.op = "set" /\ r.name \in Names  BY <1>3
    <2>2. r.up \in BOOLEAN  BY <1>3
    <2>3. r.rate = 0  BY <1>3
    <2> QED  BY <2>1, <2>2, <2>3, RequestOp
  <1>4. CASE r \in [op : {"set"}, name : Names, up : {FALSE}, rate : {0}]
    <2>1. r.op = "set" /\ r.name \in Names  BY <1>4
    <2>2. r.up \in BOOLEAN  BY <1>4
    <2>3. r.rate = 0  BY <1>4
    <2> QED  BY <2>1, <2>2, <2>3, RequestOp
  <1> QED  BY <1>1, <1>2, <1>3, <1>4 DEF Service!Requests

LEMMA NoRequestParts == NoRequest.op = "none" /\ ~SetsBitrate(NoRequest)
  BY DEF NoRequest, Service!NoRequest, SetsBitrate, Service!SetsBitrate

(* What a link is, and what becomes of it. *)
LEMMA LinkParts ==
  ASSUME NEW l \in Link
  PROVE  /\ l.index \in 0..MaxOutside + 2 /\ l.kind \in {"can", "vcan"}
         /\ l.up \in BOOLEAN /\ l.rate \in Rates \cup {0}
  BY DEF Link

LEMMA LinkSet ==
  ASSUME NEW l \in Link
  PROVE  /\ \A u \in BOOLEAN : [l EXCEPT !.up = u] \in Link
         /\ \A r \in Rates \cup {0} : [l EXCEPT !.rate = r] \in Link
         /\ \A k \in {"can", "vcan"} : [l EXCEPT !.kind = k] \in Link
  BY DEF Link

LEMMA AbsentLink ==
  ASSUME NEW i \in 0..MaxOutside + 2, NEW k \in {"can", "vcan"}
  PROVE  /\ Absent \in Link /\ [Absent EXCEPT !.index = i] \in Link
         /\ [Absent EXCEPT !.index = i, !.kind = k] \in Link
  <1>1. Absent \in Link
    BY NetlinkAssumption DEF Absent, Link
  <1>2. [Absent EXCEPT !.index = i] \in Link
    BY NetlinkAssumption DEF Absent, Link
  <1>3. [Absent EXCEPT !.index = i, !.kind = k] = [[Absent EXCEPT !.index = i] EXCEPT !.kind = k]
    OBVIOUS
  <1> QED  BY <1>1, <1>2, <1>3, LinkSet

(* What a worker of LinkService sees of a link. *)
Sight == [exists : BOOLEAN, kind : {"can", "vcan"}, up : BOOLEAN, rate : Rates \cup {0}]

LEMMA SeenParts ==
  ASSUME NEW l \in Link
  PROVE  /\ Seen(l) \in Sight
         /\ Seen(l).up = l.up /\ Seen(l).rate = l.rate /\ Seen(l).kind = l.kind
         /\ Seen(l).exists = (l.index > 0)
  <1>1. Seen(l) \in Sight  BY DEF Seen, Link, Sight
  <1> QED  BY <1>1 DEF Seen

LEMMA SightSet ==
  ASSUME NEW x \in Sight, NEW u \in BOOLEAN, NEW r \in Rates \cup {0}
  PROVE  [x EXCEPT !.up = u, !.rate = r] \in Sight
  <1>1. [x EXCEPT !.up = u] \in Sight
    BY DEF Sight
  <1>2. ASSUME NEW y \in Sight PROVE [y EXCEPT !.rate = r] \in Sight
    BY DEF Sight
  <1>3. [x EXCEPT !.up = u, !.rate = r] = [[x EXCEPT !.up = u] EXCEPT !.rate = r]
    OBVIOUS
  <1> QED  BY <1>1, <1>2, <1>3

LEMMA SameSight ==
  ASSUME NEW x \in Sight, NEW y \in Sight,
         x.exists = y.exists, x.kind = y.kind, x.up = y.up, x.rate = y.rate
  PROVE  x = y
  BY DEF Sight

Changed(x, u, r) == [x EXCEPT !.up = u, !.rate = r]

LEMMA SeenLike ==
  ASSUME NEW l \in Link, NEW b \in Link, NEW u \in BOOLEAN, NEW r \in Rates \cup {0},
         Like(l, b, u, r)
  PROVE  Seen(l) = Changed(Seen(b), u, r)
  <1>1. PICK m : m = [Seen(b) EXCEPT !.up = u, !.rate = r]
    OBVIOUS
  <1>2. Seen(l) \in Sight /\ Seen(b) \in Sight
    BY SeenParts
  <1>3. /\ m \in Sight /\ m.exists = Seen(b).exists /\ m.kind = Seen(b).kind
        /\ m.up = u /\ m.rate = r
    <2>1. m \in Sight
      BY <1>1, <1>2, SightSet
    <2> QED  BY <1>1, <1>2, <2>1 DEF Sight
  <1>4. Seen(l).exists = m.exists
    BY <1>3, SeenParts DEF Like
  <1>5. Seen(l).kind = m.kind /\ Seen(l).rate = m.rate
    BY <1>3, SeenParts DEF Like
  <1>6. Seen(l).up = m.up
    BY <1>3, SeenParts DEF Like
  <1>7. Seen(l) = m
    BY <1>2, <1>3, <1>4, <1>5, <1>6, SameSight
  <1> QED  BY <1>1, <1>7 DEF Changed

(* A worker is inside process_request alone, and changes nothing of what the others
   have and no link but its own. *)
Inside(w) ==
  /\ pc[w] \notin {"idle", "lock"} /\ pc'[w] \notin {"idle", "lock"}
  /\ UNCHANGED <<mutex_, asked, before, outside, disturbed>>
  /\ \A v \in Workers \ {w} :
       pc'[v] = pc[v] /\ goal'[v] = goal[v] /\ answer'[v] = answer[v]
  /\ \A n \in Names \ {asked[w].name} : links'[n] = links[n]

Served(w) ==
  \/ Query(w) \/ Lookup(w) \/ Add(w) \/ Check(w) \/ SetRefill(w) \/ SetChange(w)
  \/ SetRefresh(w) \/ Bitrate(w)

LEMMA InsideStep ==
  ASSUME TypeOK, NEW w \in Workers, Served(w)
  PROVE  Inside(w)
  <1> USE DEF TypeOK, Inside, Goto, Respond, After
  <1>1. CASE Query(w)  BY <1>1 DEF Query
  <1>2. CASE Lookup(w)  BY <1>2 DEF Lookup
  <1>3. CASE Add(w)  BY <1>3 DEF Add
  <1>4. CASE Check(w)  BY <1>4 DEF Check
  <1>5. CASE SetRefill(w)  BY <1>5 DEF SetRefill
  <1>6. CASE SetChange(w)  BY <1>6 DEF SetChange
  <1>7. CASE SetRefresh(w)  BY <1>7 DEF SetRefresh
  <1>8. CASE Bitrate(w)  BY <1>8 DEF Bitrate
  <1> QED
    BY <1>1, <1>2, <1>3, <1>4, <1>5, <1>6, <1>7, <1>8 DEF Served

-----------------------------------------------------------------------------
(* Every step keeps the types. *)
AnswerType == [code : {"none", "ok", "error", "bitrate"}, exists : BOOLEAN, up : BOOLEAN]

LEMMA AnswerTypes ==
  /\ NoAnswer \in AnswerType /\ Failed \in AnswerType /\ BitrateFailed \in AnswerType
  /\ \A e, u \in BOOLEAN : Ok(e, u) \in AnswerType
  BY DEF AnswerType, NoAnswer, Service!NoAnswer, Failed, Service!Failed, BitrateFailed,
         Service!BitrateFailed, Ok, Service!Ok

Paths == {"idle", "lock", "query", "lookup", "add", "check", "refill", "change", "refresh",
          "bitrate", "reply"}

(* TypeOK in parts: the links, and the workers. *)
LinkTypes ==
  /\ links \in [Names -> Link] /\ link_cache_ \in [Names -> Link]
  /\ before \in [Names -> Link]
  /\ outside \in 0..MaxOutside
  /\ disturbed \subseteq [name : Names, what : {"remove", "create", "switch"}]

WorkerTypes ==
  /\ mutex_ \in Workers \cup {NoWorker}
  /\ pc \in [Workers -> Paths]
  /\ goal \in [Workers -> BOOLEAN]
  /\ asked \in [Workers -> Service!Requests \cup {NoRequest}]
  /\ answer \in [Workers -> AnswerType]
  /\ \A w \in Workers : (mutex_ = w) <=> (pc[w] \notin {"idle", "lock"})

LEMMA TypesParted == TypeOK <=> LinkTypes /\ WorkerTypes
  BY DEF TypeOK, LinkTypes, WorkerTypes, Paths, AnswerType

(* A worker that is not idle has a request. *)
LEMMA HasRequest ==
  ASSUME TypeOK, NEW w \in Workers, OnPath(w), pc[w] # "idle"
  PROVE  /\ asked[w] \in Service!Requests /\ asked[w].name \in Names
         /\ asked[w].op \in {"exists", "is_up", "create", "set"}
         /\ asked[w].op = "set" => asked[w].up \in BOOLEAN /\ asked[w].rate \in Rates \cup {0}
         /\ SetsBitrate(asked[w]) => asked[w].op = "set" /\ asked[w].up
  <1>1. asked[w] \in Service!Requests
    BY TypesParted DEF WorkerTypes, OnPath
  <1> QED  BY <1>1, RequestParts DEF SetsBitrate, Service!SetsBitrate

LEMMA LinkTypesServed ==
  ASSUME TypeOK, NEW w \in Workers, OnPath(w), Served(w)
  PROVE  LinkTypes'
  <1> DEFINE n == asked[w].name
  <1>0. LinkTypes /\ WorkerTypes /\ pc[w] # "idle"
    BY TypesParted, InsideStep DEF Inside
  <1>1. n \in Names /\ links[n] \in Link
    BY <1>0, HasRequest DEF LinkTypes
  <1> USE <1>0, <1>1 DEF LinkTypes, Refill
  <1>2. CASE Query(w)  BY <1>2 DEF Query
  <1>3. CASE Lookup(w)  BY <1>3 DEF Lookup
  <1>4. CASE Add(w)
    <2>1. [Absent EXCEPT !.index = Fresh] \in Link
      <3>1. Fresh \in 0..MaxOutside + 2  BY NetlinkAssumption DEF Fresh
      <3> QED  BY <3>1, AbsentLink
    <2> QED  BY <1>4, <2>1 DEF Add
  <1>5. CASE Check(w)  BY <1>5 DEF Check
  <1>6. CASE SetRefill(w)  BY <1>6 DEF SetRefill
  <1>7. CASE SetChange(w)
    <2>1. [links[n] EXCEPT !.up = goal[w]] \in Link
      BY LinkSet DEF WorkerTypes
    <2> QED  BY <1>7, <2>1 DEF SetChange
  <1>8. CASE SetRefresh(w)  BY <1>8 DEF SetRefresh
  <1>9. CASE Bitrate(w)
    <2>1. asked[w].op = "set"
      BY <1>9 DEF Bitrate, Goto, Respond, OnPath, Sets
    <2>2. [links[n] EXCEPT !.rate = asked[w].rate] \in Link
      BY <2>1, LinkSet, HasRequest
    <2> QED  BY <1>9, <2>2 DEF Bitrate
  <1> QED
    BY <1>2, <1>3, <1>4, <1>5, <1>6, <1>7, <1>8, <1>9 DEF Served

LEMMA WorkerTypesServed ==
  ASSUME TypeOK, NEW w \in Workers, OnPath(w), Served(w)
  PROVE  WorkerTypes'
  <1>0. LinkTypes /\ WorkerTypes /\ Inside(w)
    BY TypesParted, InsideStep
  <1>1. links[asked[w].name] \in Link
    BY <1>0, HasRequest DEF LinkTypes, Inside
  <1>2. answer' \in [Workers -> AnswerType]
    <2> USE <1>0, AnswerTypes DEF WorkerTypes, Respond, After
    <2>1. CASE Query(w)
      <3>1. Ok(links[asked[w].name].index > 0,
               asked[w].op = "is_up" /\ links[asked[w].name].up) \in AnswerType
        <4>1. /\ (links[asked[w].name].index > 0) \in BOOLEAN
              /\ (asked[w].op = "is_up" /\ links[asked[w].name].up) \in BOOLEAN
          OBVIOUS
        <4> QED  BY Zenon, <4>1, AnswerTypes
      <3> QED  BY <2>1, <3>1 DEF Query
    <2>2. CASE Lookup(w)  BY <2>2 DEF Lookup
    <2>3. CASE Add(w)  BY <2>3 DEF Add
    <2>4. CASE Check(w)  BY <2>4 DEF Check
    <2>5. CASE SetRefill(w)  BY <2>5 DEF SetRefill
    <2>6. CASE SetChange(w)  BY <2>6 DEF SetChange
    <2>7. CASE SetRefresh(w)  BY <2>7 DEF SetRefresh
    <2>8. CASE Bitrate(w)  BY <2>8 DEF Bitrate
    <2> QED
      BY <2>1, <2>2, <2>3, <2>4, <2>5, <2>6, <2>7, <2>8 DEF Served
  <1>3. pc' \in [Workers -> Paths] /\ goal' \in [Workers -> BOOLEAN]
    <2> USE <1>0 DEF WorkerTypes, Respond, After, Goto, Paths
    <2>1. CASE Query(w)  BY <2>1 DEF Query
    <2>2. CASE Lookup(w)  BY <2>2 DEF Lookup
    <2>3. CASE Add(w)  BY <2>3 DEF Add
    <2>4. CASE Check(w)  BY <2>4 DEF Check
    <2>5. CASE SetRefill(w)  BY <2>5 DEF SetRefill
    <2>6. CASE SetChange(w)  BY <2>6 DEF SetChange
    <2>7. CASE SetRefresh(w)  BY <2>7 DEF SetRefresh
    <2>8. CASE Bitrate(w)  BY <2>8 DEF Bitrate
    <2> QED
      BY <2>1, <2>2, <2>3, <2>4, <2>5, <2>6, <2>7, <2>8 DEF Served
  <1> QED  BY <1>0, <1>2, <1>3 DEF WorkerTypes, Inside

-----------------------------------------------------------------------------
(* The answers that keep what LinkService promises. *)
LEMMA SeenUp ==
  ASSUME NEW l \in Link, NEW b \in Link, NEW u \in BOOLEAN, Like(l, b, u, b.rate)
  PROVE  Seen(l) = [Seen(b) EXCEPT !.up = u]
  BY DEF Like, Seen

LEMMA SetOk ==
  ASSUME NEW r \in Service!Requests, r.op = "set", NEW l \in Link, NEW b \in Link,
         b.index > 0, Like(l, b, r.up, IF SetsBitrate(r) THEN r.rate ELSE b.rate)
  PROVE  Promised(r, Ok(FALSE, FALSE), b, l)
  <1>1. CASE SetsBitrate(r)
    <2>1. Seen(l) = Changed(Seen(b), r.up, r.rate)
      <3>1. r.up \in BOOLEAN /\ r.rate \in Rates \cup {0}  BY RequestParts
      <3>2. Like(l, b, r.up, r.rate)  BY <1>1
      <3> QED  BY Zenon, <3>1, <3>2, SeenLike
    <2> QED  BY <1>1, <2>1, SeenParts DEF Promised, Service!Set, SetsBitrate, Ok, Changed
  <1>2. CASE ~SetsBitrate(r)
    <2>1. Seen(l) = Changed(Seen(b), r.up, b.rate)
      <3>1. r.up \in BOOLEAN /\ b.rate \in Rates \cup {0}  BY RequestParts, LinkParts
      <3>2. Like(l, b, r.up, b.rate)  BY <1>2
      <3> QED  BY Zenon, <3>1, <3>2, SeenLike
    <2> QED  BY <1>2, <2>1, SeenParts DEF Promised, Service!Set, SetsBitrate, Ok, Changed
  <1> QED  BY <1>1, <1>2

LEMMA NothingDone ==
  ASSUME NEW r \in Service!Requests, NEW l
  PROVE  Promised(r, Failed, l, l)
  BY DEF Promised, Service!Query, Service!Create, Service!Set, Failed

LEMMA SetDown ==
  ASSUME NEW r \in Service!Requests, r.op = "set", SetsBitrate(r),
         NEW l \in Link, NEW b \in Link, Like(l, b, FALSE, b.rate)
  PROVE  Promised(r, Failed, b, l) /\ Promised(r, BitrateFailed, b, l)
  <1>1. Seen(l) = [Seen(b) EXCEPT !.up = FALSE]
    BY Zenon, SeenUp
  <1> QED  BY <1>1 DEF Promised, Service!Set, SetsBitrate, Failed, BitrateFailed

LEMMA SetHalf ==
  ASSUME NEW r \in Service!Requests, r.op = "set", SetsBitrate(r),
         NEW l \in Link, NEW b \in Link, Like(l, b, FALSE, r.rate)
  PROVE  Promised(r, Failed, b, l)
  <1>1. Seen(l) = Changed(Seen(b), FALSE, r.rate)
    <2>1. r.rate \in Rates \cup {0}  BY RequestParts
    <2> QED  BY Zenon, <2>1, SeenLike
  <1> QED  BY <1>1 DEF Promised, Service!Set, SetsBitrate, Failed, Changed

LEMMA QueryOk ==
  ASSUME NEW r \in Service!Requests, r.op \in {"exists", "is_up"}, NEW l \in Link
  PROVE  Promised(r, Ok(l.index > 0, r.op = "is_up" /\ l.up), l, l)
  <1>1. CASE r.op = "exists"
    <2>1. Seen(l).exists = (l.index > 0) /\ (r.op = "is_up" /\ l.up) = FALSE
      BY <1>1, SeenParts
    <2>2. Ok(l.index > 0, r.op = "is_up" /\ l.up) = Service!Ok(Seen(l).exists, FALSE)
      BY Zenon, <2>1 DEF Ok
    <2> QED  BY <1>1, <2>2 DEF Promised, Service!Query
  <1>2. CASE r.op = "is_up"
    <2>1. Seen(l).exists = (l.index > 0) /\ (r.op = "is_up" /\ l.up) = Seen(l).up
      BY <1>2, SeenParts, LinkParts
    <2>2. Ok(l.index > 0, r.op = "is_up" /\ l.up) = Service!Ok(Seen(l).exists, Seen(l).up)
      BY Zenon, <2>1 DEF Ok
    <2> QED  BY <1>2, <2>2 DEF Promised, Service!Query
  <1> QED  BY <1>1, <1>2

LEMMA CreateOk ==
  ASSUME outside \in Nat,
         NEW r \in Service!Requests, r.op = "create", NEW b \in Link, NEW l \in Link,
         (l = b /\ b.index > 0) \/ (b.index = 0 /\ l = [Absent EXCEPT !.index = Fresh])
  PROVE  Promised(r, Ok(FALSE, FALSE), b, l) /\ l.index > 0
  <1>1. CASE l = b /\ b.index > 0
    BY <1>1, SeenParts DEF Promised, Service!Create, Ok
  <1>2. CASE b.index = 0 /\ l = [Absent EXCEPT !.index = Fresh]
    <2>1. l.index > 0 /\ l.kind = "vcan" /\ l.rate = 0
      BY <1>2 DEF Absent, Fresh
    <2>2. l.up = FALSE
      BY <1>2 DEF Absent
    <2>3. Seen(l) = [exists |-> TRUE, kind |-> "vcan", up |-> FALSE, rate |-> 0]
      BY <2>1, <2>2 DEF Seen
    <2>4. ~Seen(b).exists
      <3>1. Seen(b).exists = (b.index > 0)  BY SeenParts
      <3>2. ~(b.index > 0)  BY <1>2
      <3> QED  BY Zenon, <3>1, <3>2
    <2> QED  BY <2>1, <2>3, <2>4 DEF Promised, Service!Create, Ok
  <1> QED  BY <1>1, <1>2

-----------------------------------------------------------------------------
(* Each exchange with the kernel keeps the worker on its path ... *)
LEMMA OnPathServed ==
  ASSUME TypeOK, NEW w \in Workers, OnPath(w), Served(w)
  PROVE  OnPath(w)'
  <1>0. /\ WorkerTypes /\ Inside(w) /\ asked[w] # NoRequest
        /\ SetsBitrate(asked[w]) => asked[w].up
        /\ asked[w].op = "set" => asked[w].up \in BOOLEAN
        /\ goal[w] \in BOOLEAN
    BY TypesParted, InsideStep, HasRequest DEF Inside, OnPath, WorkerTypes
  <1> USE <1>0 DEF WorkerTypes, Inside, OnPath, Goto, Respond, After, Sets, SetsBitrate,
                   Service!SetsBitrate
  <1>1. CASE Query(w)  BY <1>1 DEF Query
  <1>2. CASE Lookup(w)  BY <1>2 DEF Lookup
  <1>3. CASE Add(w)  BY <1>3 DEF Add
  <1>4. CASE Check(w)  BY <1>4 DEF Check
  <1>5. CASE SetRefill(w)  BY <1>5 DEF SetRefill
  <1>6. CASE SetChange(w)  BY <1>6 DEF SetChange
  <1>7. CASE SetRefresh(w)  BY <1>7 DEF SetRefresh
  <1>8. CASE Bitrate(w)  BY <1>8 DEF Bitrate
  <1> QED
    BY <1>1, <1>2, <1>3, <1>4, <1>5, <1>6, <1>7, <1>8 DEF Served

(* ... and does with the link what Progress says, or answers as promised. *)
LEMMA ProgressAsked ==
  ASSUME TypeOK, LinkTypes', NEW w \in Workers, OnPath(w), Progress(w),
         Query(w) \/ Lookup(w) \/ Add(w) \/ Check(w)
  PROVE  Progress(w)'
  <1> DEFINE r == asked[w]
             n == asked[w].name
             b == before[n]
             l == links[n]
  <1>0. /\ LinkTypes /\ WorkerTypes /\ Inside(w)
        /\ r \in Service!Requests /\ n \in Names
        /\ asked' = asked /\ before' = before
        /\ l \in Link /\ b \in Link /\ links'[n] \in Link
        /\ goal[w] \in BOOLEAN /\ l.up \in BOOLEAN /\ b.up \in BOOLEAN
    <2>1. LinkTypes /\ WorkerTypes /\ Inside(w)
      BY TypesParted, InsideStep DEF Served
    <2>2. r \in Service!Requests /\ n \in Names
      BY <2>1, HasRequest DEF Inside
    <2>3. l \in Link /\ b \in Link /\ links'[n] \in Link
      BY <2>1, <2>2 DEF LinkTypes
    <2> QED
      BY <2>1, <2>2, <2>3, LinkParts DEF Inside, WorkerTypes
  <1> USE <1>0
  <1>1. CASE Query(w)
    <2>1. links' = links /\ l = b /\ r.op \in {"exists", "is_up"}
      BY <1>1 DEF Query, Respond, Goto, Progress, OnPath
    <2>2. pc'[w] = "reply"
      BY <1>1 DEF Query, Respond, Goto, WorkerTypes
    <2>3. \/ answer'[w] = Failed
          \/ answer'[w] = Ok(l.index > 0, r.op = "is_up" /\ l.up)
      BY <1>1 DEF Query, Respond, WorkerTypes
    <2>4. Promised(r, answer'[w], b, l)
      BY <2>1, <2>3, QueryOk, NothingDone
    <2> QED  BY <2>1, <2>2, <2>4 DEF Progress
  <1>2. CASE Lookup(w)
    <2>1. links' = links /\ l = b /\ r.op = "create"
      BY <1>2 DEF Lookup, Respond, Goto, Progress, OnPath
    <2>2. CASE pc'[w] = "add" /\ ~(l.index > 0)
      <3>1. b.index = 0  BY <2>1, <2>2, LinkParts, NetlinkAssumption
      <3> QED  BY <2>1, <2>2, <3>1 DEF Progress
    <2>3. CASE pc'[w] = "reply" /\ answer'[w] = Ok(FALSE, FALSE) /\ l.index > 0
      <3>1. Promised(r, answer'[w], b, l)
        <4>1. outside \in Nat  BY DEF LinkTypes
        <4>2. Promised(r, Ok(FALSE, FALSE), b, b)
          BY <2>1, <2>3, <4>1, CreateOk
        <4> QED  BY <2>1, <2>3, <4>2
      <3> QED  BY <2>1, <2>3, <3>1 DEF Progress
    <2>4. CASE pc'[w] = "reply" /\ answer'[w] = Failed
      <3>1. Promised(r, answer'[w], b, l)
        BY <2>1, <2>4, NothingDone
      <3> QED  BY <2>1, <2>4, <3>1 DEF Progress
    <2> QED
      BY <1>2, <2>2, <2>3, <2>4 DEF Lookup, Respond, Goto, WorkerTypes
  <1>3. CASE Add(w)
    <2>1. pc'[w] = "reply" /\ l = b /\ b.index = 0 /\ r.op = "create"
      BY <1>3 DEF Add, Respond, Goto, Progress, OnPath, WorkerTypes
    <2>2. CASE answer'[w] = Ok(FALSE, FALSE) /\ links'[n] = [Absent EXCEPT !.index = Fresh]
      <3>1. Promised(r, answer'[w], b, links'[n])
        <4>1. outside \in Nat  BY DEF LinkTypes
        <4>2. Promised(r, Ok(FALSE, FALSE), b, links'[n])
          BY <2>1, <2>2, <4>1, CreateOk
        <4> QED  BY <2>2, <4>2
      <3> QED  BY <2>1, <3>1 DEF Progress
    <2>3. CASE answer'[w] = Failed /\ links' = links
      <3>1. Promised(r, answer'[w], b, links'[n])
        BY <2>1, <2>3, NothingDone
      <3> QED  BY <2>1, <3>1 DEF Progress
    <2>4. ~(l.index > 0)
      BY <2>1, LinkParts
    <2> QED
      BY <1>3, <2>2, <2>3, <2>4 DEF Add, Respond, WorkerTypes, LinkTypes
  <1>4. CASE Check(w)
    <2>1. links' = links /\ l = b /\ ~goal[w]
      BY <1>4 DEF Check, Respond, Goto, Progress, OnPath
    <2>2. CASE pc'[w] = "refill" /\ goal' = goal
      BY <2>1, <2>2 DEF Progress, Second
    <2>3. CASE pc'[w] = "bitrate" /\ ~l.up
      BY <2>1, <2>3 DEF Progress, Like
    <2>4. CASE pc'[w] = "reply" /\ answer'[w] = Failed
      <3>1. Promised(r, answer'[w], b, l)
        BY <2>1, <2>4, NothingDone
      <3> QED  BY <2>1, <2>4, <3>1 DEF Progress
    <2> QED
      BY <1>4, <2>2, <2>3, <2>4 DEF Check, Respond, Goto, WorkerTypes
  <1> QED  BY <1>1, <1>2, <1>3, <1>4

(* A set that fails half-way. *)
LEMMA FailsHalfWay ==
  ASSUME NEW w \in Workers, asked[w] \in Service!Requests, asked[w].op = "set",
         NEW l \in Link, NEW b \in Link,
         IF Second(w) THEN Like(l, b, FALSE, asked[w].rate) ELSE l = b
  PROVE  Promised(asked[w], Failed, b, l)
  BY SetHalf, NothingDone DEF Second

(* What follows a successful set_interface_state_libnl. *)
LEMMA AfterKeeps ==
  ASSUME WorkerTypes, NEW w \in Workers, NEW at, After(w, at), OnPath(w),
         at \in {"refill", "refresh"},
         asked[w] \in Service!Requests, asked[w].op = "set",
         UNCHANGED <<links, asked, before, goal>>,
         NEW l \in Link, NEW b \in Link,
         l = links[asked[w].name], b = before[asked[w].name], b.index > 0,
         Like(l, b, goal[w], IF Second(w) THEN asked[w].rate ELSE b.rate)
  PROVE  Progress(w)'
  <1>0. /\ goal[w] \in BOOLEAN /\ asked[w].up \in BOOLEAN
        /\ SetsBitrate(asked[w]) => asked[w].up
    BY RequestParts DEF WorkerTypes, SetsBitrate, Service!SetsBitrate
  <1>1. CASE asked[w].up /\ ~goal[w]
    <2>1. pc'[w] = "bitrate"
      BY <1>1 DEF After, Goto, WorkerTypes
    <2>2. Like(l, b, FALSE, b.rate)
      BY <1>0, <1>1 DEF Second, Like
    <2> QED  BY <2>1, <2>2 DEF Progress
  <1>2. CASE ~(asked[w].up /\ ~goal[w])
    <2>1. pc'[w] = "reply" /\ answer'[w] = Ok(FALSE, FALSE)
      BY <1>2 DEF After, Respond, Goto, WorkerTypes
    <2>2. goal[w] = asked[w].up /\ (Second(w) <=> SetsBitrate(asked[w]))
      BY <1>0, <1>2 DEF OnPath, After, Respond, Goto, Second
    <2>3. Like(l, b, asked[w].up, IF SetsBitrate(asked[w]) THEN asked[w].rate ELSE b.rate)
      BY <2>2
    <2>4. Promised(asked[w], Ok(FALSE, FALSE), b, l)
      BY <2>3, SetOk
    <2> QED  BY <2>1, <2>4 DEF Progress
  <1> QED  BY <1>1, <1>2

LEMMA ProgressSet ==
  ASSUME TypeOK, LinkTypes', NEW w \in Workers, OnPath(w), Progress(w),
         SetRefill(w) \/ SetChange(w) \/ SetRefresh(w) \/ Bitrate(w)
  PROVE  Progress(w)'
  <1> DEFINE r == asked[w]
             n == asked[w].name
             b == before[n]
             l == links[n]
  <1>0. /\ LinkTypes /\ WorkerTypes /\ Inside(w)
        /\ r \in Service!Requests /\ n \in Names /\ r.op = "set"
        /\ asked' = asked /\ before' = before
        /\ l \in Link /\ b \in Link /\ links'[n] \in Link
        /\ goal[w] \in BOOLEAN /\ l.up \in BOOLEAN /\ b.up \in BOOLEAN /\ r.up \in BOOLEAN
        /\ SetsBitrate(r) => r.up
    <2>1. LinkTypes /\ WorkerTypes /\ Inside(w)
      BY TypesParted, InsideStep DEF Served
    <2>2. r \in Service!Requests /\ n \in Names
      BY <2>1, HasRequest DEF Inside
    <2>3. l \in Link /\ b \in Link /\ links'[n] \in Link
      BY <2>1, <2>2 DEF LinkTypes
    <2>4. r.op = "set"
      BY DEF SetRefill, SetChange, SetRefresh, Bitrate, Goto, Respond, OnPath, Sets
    <2> QED
      BY <2>1, <2>2, <2>3, <2>4, LinkParts, HasRequest DEF Inside, WorkerTypes
  <1> USE <1>0
  <1>1. ASSUME pc'[w] = "reply", answer'[w] = Failed, links' = links,
               pc[w] \in {"refill", "change"}
        PROVE  Progress(w)'
    <2>1. IF Second(w) THEN Like(l, b, FALSE, r.rate) ELSE l = b
      BY <1>1 DEF Progress
    <2>2. Promised(r, Failed, b, l)
      BY <2>1, FailsHalfWay
    <2> QED  BY <1>1, <2>2 DEF Progress
  <1>2. CASE SetRefill(w)
    <2>1. /\ links' = links /\ goal' = goal /\ pc[w] = "refill"
          /\ IF Second(w) THEN b.index > 0 /\ Like(l, b, FALSE, r.rate) ELSE l = b
      BY <1>2 DEF SetRefill, Progress
    <2>2. CASE l.index > 0 /\ l.up = goal[w] /\ After(w, "refill")
      <3>1. ~Second(w) /\ l = b
        BY <2>1, <2>2 DEF Second, Like
      <3>2. Like(l, b, goal[w], IF Second(w) THEN r.rate ELSE b.rate) /\ b.index > 0
        BY <2>2, <3>1 DEF Like
      <3> QED  BY <2>1, <2>2, <3>2, AfterKeeps
    <2>3. CASE l.index > 0 /\ l.up # goal[w] /\ pc'[w] = "change"
      <3>1. b.index > 0
        BY <2>1, <2>3
      <3> QED  BY <2>1, <2>3, <3>1 DEF Progress, Second
    <2>4. CASE pc'[w] = "reply" /\ answer'[w] = Failed
      BY <1>1, <2>1, <2>4
    <2> QED
      BY <1>2, <2>2, <2>3, <2>4 DEF SetRefill, Respond, Goto, WorkerTypes
  <1>3. CASE SetChange(w)
    <2>1. /\ goal' = goal /\ pc[w] = "change" /\ b.index > 0
          /\ IF Second(w) THEN Like(l, b, FALSE, r.rate) ELSE l = b
      BY <1>3 DEF SetChange, Progress, Goto, Respond
    <2>2. CASE pc'[w] = "refresh" /\ links'[n] = [l EXCEPT !.up = goal[w]]
      <3>1. /\ links'[n].index = l.index /\ links'[n].kind = l.kind
            /\ links'[n].up = goal[w] /\ links'[n].rate = l.rate
        BY <2>2 DEF Link
      <3>2. Like(links'[n], b, goal[w], IF Second(w) THEN r.rate ELSE b.rate)
        BY <2>1, <3>1 DEF Like
      <3> QED  BY <2>1, <2>2, <3>2 DEF Progress, Second
    <2>3. CASE pc'[w] = "reply" /\ answer'[w] = Failed /\ links' = links
      BY <1>1, <2>1, <2>3
    <2> QED
      BY <1>3, <2>2, <2>3 DEF SetChange, Respond, Goto, WorkerTypes, LinkTypes
  <1>4. CASE SetRefresh(w)
    <2>1. /\ links' = links /\ goal' = goal /\ After(w, "refresh") /\ b.index > 0
          /\ Like(l, b, goal[w], IF Second(w) THEN r.rate ELSE b.rate)
      BY <1>4 DEF SetRefresh, Progress
    <2> QED  BY <2>1, AfterKeeps
  <1>5. CASE Bitrate(w)
    <2>1. SetsBitrate(r) /\ Like(l, b, FALSE, b.rate)
      BY <1>5 DEF Bitrate, Goto, Respond, Progress, OnPath
    <2>2. CASE /\ pc'[w] = "refill" /\ Current(n) /\ goal'[w] = TRUE
               /\ links'[n] = [l EXCEPT !.rate = r.rate]
      <3>1. /\ links'[n].index = l.index /\ links'[n].kind = l.kind
            /\ links'[n].up = l.up /\ links'[n].rate = r.rate
        BY <2>2 DEF Link
      <3>2. Like(links'[n], b, FALSE, r.rate) /\ b.index > 0
        BY <2>1, <2>2, <3>1 DEF Like, Current
      <3> QED  BY <2>1, <2>2, <3>2 DEF Progress, Second
    <2>3. CASE pc'[w] = "reply" /\ answer'[w] = BitrateFailed /\ links' = links
      <3>1. Promised(r, BitrateFailed, b, l)
        BY <2>1, SetDown
      <3> QED  BY <2>3, <3>1 DEF Progress
    <2> QED
      BY <1>5, <2>2, <2>3 DEF Bitrate, Respond, Goto, WorkerTypes, LinkTypes
  <1> QED  BY <1>2, <1>3, <1>4, <1>5

-----------------------------------------------------------------------------
(* ManagerInv is inductive. *)
LEMMA ServedKeeps ==
  ASSUME ManagerInv, NEW w \in Workers, Served(w)
  PROVE  ManagerInv'
  <1> DEFINE n == asked[w].name
  <1>0. /\ TypeOK /\ LinkTypes /\ WorkerTypes /\ Inside(w) /\ OnPath(w) /\ mutex_ = w
    <2>1. TypeOK /\ OnPath(w)  BY DEF ManagerInv
    <2> QED  BY <2>1, TypesParted, InsideStep DEF Inside, WorkerTypes
  <1>1. LinkTypes' /\ WorkerTypes'
    BY <1>0, LinkTypesServed, WorkerTypesServed
  <1>2. TypeOK'
    BY <1>1 DEF TypeOK, LinkTypes, WorkerTypes, Paths, AnswerType
  <1>3. Untouched'
    BY <1>0 DEF ManagerInv, Untouched, Inside, Service!Disturbed
  <1>4. \A v \in Workers : OnPath(v)'
    <2>1. OnPath(w)'
      BY <1>0, OnPathServed
    <2>2. ASSUME NEW v \in Workers, v # w PROVE OnPath(v)'
      BY <1>0, <2>2 DEF ManagerInv, OnPath, Inside
    <2> QED  BY <2>1, <2>2
  <1>5. ASSUME NEW v \in Workers, mutex_' = v, asked'[v].name \notin Service!Disturbed'
        PROVE  Progress(v)'
    <2>1. v = w /\ n \notin Service!Disturbed
      BY <1>0, <1>5 DEF Inside, Service!Disturbed
    <2>2. Progress(w)
      BY <1>0, <2>1 DEF ManagerInv
    <2> QED  BY <1>0, <1>1, <2>1, <2>2, ProgressAsked, ProgressSet DEF Served
  <1>6. CreateIsThere'
    <2> SUFFICES ASSUME NEW v \in Workers, Answered(v, "create", {"ok"})'
                 PROVE  \/ links'[asked[v].name].index > 0
                        \/ [name |-> asked[v].name, what |-> "remove"] \in disturbed
      BY <1>0 DEF CreateIsThere, Inside
    <2>1. v = w
      BY <1>0, <1>1 DEF Answered, Inside, WorkerTypes
    <2>2. asked[w].op = "create" /\ pc'[w] = "reply" /\ answer'[w].code = "ok"
      BY <1>0, <2>1 DEF Answered, Inside
    <2>3. Lookup(w) \/ Add(w)
      BY <1>0, <2>2
         DEF Served, OnPath, Sets, Query, Check, SetRefill, SetChange, SetRefresh, Bitrate,
             Goto, Respond
    <2>4. Failed.code # "ok"
      BY DEF Failed, Service!Failed
    <2>5. n \in Names
      BY <1>0, HasRequest DEF Inside
    <2>6. CASE Lookup(w)
      BY <1>0, <2>1, <2>2, <2>4, <2>6 DEF Lookup, Respond, Goto, WorkerTypes
    <2>7. CASE Add(w)
      <3>1. [Absent EXCEPT !.index = Fresh].index > 0
        BY <1>0 DEF Absent, Fresh, LinkTypes
      <3> QED
        BY <1>0, <2>1, <2>2, <2>4, <2>5, <2>7, <3>1
        DEF Add, Respond, Goto, WorkerTypes, LinkTypes
    <2> QED  BY <2>3, <2>6, <2>7
  <1> QED  BY <1>2, <1>3, <1>4, <1>5, <1>6 DEF ManagerInv

LEMMA RequestKeeps ==
  ASSUME ManagerInv, NEW w \in Workers, NEW r \in Service!Requests, Request(w, r)
  PROVE  ManagerInv'
  <1>0. LinkTypes /\ WorkerTypes
    BY TypesParted DEF ManagerInv
  <1>1. TypeOK'
    <2>1. LinkTypes'  BY <1>0 DEF Request, LinkTypes
    <2>2. WorkerTypes'
      BY <1>0, AnswerTypes DEF Request, WorkerTypes, Goto, Paths
    <2> QED  BY <2>1, <2>2 DEF TypeOK, LinkTypes, WorkerTypes, Paths, AnswerType
  <1>2. /\ mutex_ # w
        /\ \A v \in Workers \ {w} : pc'[v] = pc[v] /\ asked'[v] = asked[v] /\ answer'[v] = answer[v]
        /\ pc'[w] = "lock" /\ asked'[w] = r
        /\ UNCHANGED <<links, link_cache_, mutex_, goal, before, outside, disturbed>>
    BY <1>0 DEF Request, Goto, WorkerTypes
  <1>3. Untouched'
    BY <1>0, <1>2 DEF ManagerInv, Untouched, Service!Disturbed
  <1>4. \A v \in Workers : OnPath(v)'
    BY <1>2, RequestParts DEF ManagerInv, OnPath, Sets
  <1>5. ASSUME NEW v \in Workers, mutex_' = v, asked'[v].name \notin Service!Disturbed'
        PROVE  Progress(v)'
    <2>1. v # w /\ Progress(v)
      BY <1>2, <1>5 DEF ManagerInv, Service!Disturbed
    <2> QED  BY <1>2, <2>1 DEF Progress, Second
  <1>6. CreateIsThere'
    BY <1>0, <1>2 DEF ManagerInv, CreateIsThere, Answered
  <1> QED  BY <1>1, <1>3, <1>4, <1>5, <1>6 DEF ManagerInv

LEMMA LockKeeps ==
  ASSUME ManagerInv, NEW w \in Workers, Lock(w)
  PROVE  ManagerInv'
  <1>0. LinkTypes /\ WorkerTypes /\ OnPath(w) /\ pc[w] = "lock"
    BY TypesParted DEF ManagerInv, Lock, Dispatch, Goto
  <1>1. /\ asked[w] \in Service!Requests /\ asked[w].name \in Names
        /\ asked[w].op \in {"exists", "is_up", "create", "set"}
        /\ asked[w].op = "set" => asked[w].up \in BOOLEAN
        /\ SetsBitrate(asked[w]) => asked[w].op = "set" /\ asked[w].up
    BY <1>0, HasRequest DEF ManagerInv
  <1>2. /\ mutex_ = NoWorker /\ mutex_' = w /\ before' = links /\ disturbed' = {}
        /\ UNCHANGED <<links, link_cache_, asked, answer, outside>>
        /\ \A v \in Workers \ {w} : pc'[v] = pc[v] /\ goal'[v] = goal[v]
        /\ pc'[w] = CASE asked[w].op \in {"exists", "is_up"} -> "query"
                      [] asked[w].op = "create" -> "lookup"
                      [] SetsBitrate(asked[w]) -> "check"
                      [] OTHER -> "refill"
        /\ goal'[w] = (asked[w].op = "set" /\ asked[w].up /\ ~SetsBitrate(asked[w]))
    BY <1>0 DEF Lock, Dispatch, Goto, WorkerTypes
  <1>3. TypeOK'
    <2>1. LinkTypes'  BY <1>0, <1>2 DEF LinkTypes
    <2>2. pc' \in [Workers -> Paths] /\ goal' \in [Workers -> BOOLEAN]
      BY <1>0 DEF Lock, Dispatch, Goto, WorkerTypes, Paths
    <2>3. WorkerTypes'
      BY <1>0, <1>1, <1>2, <2>2, NetlinkAssumption DEF WorkerTypes
    <2> QED  BY <2>1, <2>3 DEF TypeOK, LinkTypes, WorkerTypes, Paths, AnswerType
  <1>4. Untouched'
    BY <1>2, NetlinkAssumption DEF Untouched
  <1>5. \A v \in Workers : OnPath(v)'
    <2>1. OnPath(w)'
      BY <1>0, <1>1, <1>2 DEF OnPath, Sets
    <2>2. ASSUME NEW v \in Workers, v # w PROVE OnPath(v)'
      BY <1>2, <2>2 DEF ManagerInv, OnPath
    <2> QED  BY <2>1, <2>2
  <1>6. ASSUME NEW v \in Workers, mutex_' = v, asked'[v].name \notin Service!Disturbed'
        PROVE  Progress(v)'
    <2>1. v = w  BY <1>2, <1>6
    <2>2. pc'[w] \in {"query", "lookup", "check", "refill"}
      BY <1>1, <1>2
    <2>3. ~Second(w)'
      BY <1>1, <1>2 DEF Second
    <2> QED  BY <1>2, <2>1, <2>2, <2>3 DEF Progress
  <1>7. CreateIsThere'
    <2>1. pc'[w] # "reply"
      BY <1>1, <1>2
    <2>2. \A v \in Workers \ {w} : pc'[v] # "reply"
      BY <1>0, <1>2, NetlinkAssumption DEF WorkerTypes
    <2> QED  BY <2>1, <2>2 DEF CreateIsThere, Answered
  <1> QED  BY <1>3, <1>4, <1>5, <1>6, <1>7 DEF ManagerInv

LEMMA UnlockKeeps ==
  ASSUME ManagerInv, NEW w \in Workers, Unlock(w)
  PROVE  ManagerInv'
  <1>0. LinkTypes /\ WorkerTypes /\ pc[w] = "reply" /\ mutex_ = w
    <2>1. LinkTypes /\ WorkerTypes /\ pc[w] = "reply"
      BY TypesParted DEF ManagerInv, Unlock, Goto
    <2> QED  BY <2>1 DEF WorkerTypes
  <1>1. /\ mutex_' = NoWorker /\ before' = [n \in Names |-> Absent] /\ disturbed' = {}
        /\ UNCHANGED <<links, link_cache_, answer, outside>>
        /\ \A v \in Workers \ {w} :
             pc'[v] = pc[v] /\ goal'[v] = goal[v] /\ asked'[v] = asked[v]
        /\ pc'[w] = "idle" /\ asked'[w] = NoRequest
    BY <1>0 DEF Unlock, Goto, WorkerTypes
  <1>2. TypeOK'
    <2>1. LinkTypes'
      <3>1. Absent \in Link
        BY NetlinkAssumption DEF Absent, Link
      <3> QED  BY <1>0, <1>1, <3>1 DEF LinkTypes
    <2>2. /\ pc' \in [Workers -> Paths] /\ goal' \in [Workers -> BOOLEAN]
          /\ asked' \in [Workers -> Service!Requests \cup {NoRequest}]
      BY <1>0 DEF Unlock, Goto, WorkerTypes, Paths
    <2>3. \A v \in Workers : (mutex_' = v) <=> (pc'[v] \notin {"idle", "lock"})
      BY <1>0, <1>1, NetlinkAssumption DEF WorkerTypes
    <2>4. WorkerTypes'
      BY <1>0, <1>1, <2>2, <2>3 DEF WorkerTypes
    <2> QED  BY <2>1, <2>4 DEF TypeOK, LinkTypes, WorkerTypes, Paths, AnswerType
  <1>3. Untouched'
    BY <1>1, NetlinkAssumption DEF Untouched
  <1>4. \A v \in Workers : OnPath(v)'
    <2>1. OnPath(w)'
      BY <1>1 DEF OnPath, Sets
    <2>2. ASSUME NEW v \in Workers, v # w PROVE OnPath(v)'
      BY <1>1, <2>2 DEF ManagerInv, OnPath
    <2> QED  BY <2>1, <2>2
  <1>5. \A v \in Workers : mutex_' # v /\ pc'[v] # "reply"
    BY <1>0, <1>1, NetlinkAssumption DEF WorkerTypes
  <1> QED  BY <1>2, <1>3, <1>4, <1>5 DEF ManagerInv, CreateIsThere, Answered

LEMMA OutsideKeeps ==
  ASSUME ManagerInv, NEW n \in Names, NEW what \in {"remove", "create", "switch"},
         Outside(n, what)
  PROVE  ManagerInv'
  <1>0. LinkTypes /\ WorkerTypes /\ links[n] \in Link
    BY TypesParted DEF ManagerInv, LinkTypes
  <1>1. /\ \A m \in Names \ {n} : links'[m] = links[m]
        /\ UNCHANGED <<link_cache_, mutex_, pc, goal, asked, answer, before>>
        /\ disturbed' = IF mutex_ = NoWorker THEN {}
                        ELSE disturbed \cup {[name |-> n, what |-> what]}
    BY <1>0 DEF Outside, LinkTypes
  <1>2. /\ links' \in [Names -> Link]
        /\ what # "remove" => links'[n].index > 0
    <2>1. CASE what = "remove"
      <3>1. Absent \in Link
        BY NetlinkAssumption DEF Absent, Link
      <3> QED  BY <1>0, <2>1, <3>1 DEF Outside, LinkTypes
    <2>2. CASE what = "switch"
      <3>1. /\ [links[n] EXCEPT !.up = ~links[n].up] \in Link
            /\ [links[n] EXCEPT !.up = ~links[n].up].index = links[n].index
        BY <1>0 DEF Link
      <3>2. links' = [links EXCEPT ![n] = [links[n] EXCEPT !.up = ~links[n].up]]
        BY <2>2 DEF Outside
      <3> QED  BY <1>0, <2>2, <3>1, <3>2 DEF Outside, LinkTypes
    <2>3. CASE what = "create"
      <3>1. PICK k \in {"can", "vcan"} :
              links' = [links EXCEPT ![n] = [Absent EXCEPT !.index = Fresh, !.kind = k]]
        BY <2>3 DEF Outside
      <3>2. Fresh \in 0..MaxOutside + 2 /\ Fresh > 0
        BY <1>0, NetlinkAssumption DEF Fresh, LinkTypes
      <3>3. [Absent EXCEPT !.index = Fresh, !.kind = k] \in Link
        BY <3>2, AbsentLink
      <3>4. [Absent EXCEPT !.index = Fresh, !.kind = k].index = Fresh
        BY DEF Absent
      <3> QED  BY <1>0, <3>1, <3>2, <3>3, <3>4 DEF LinkTypes
    <2> QED  BY <2>1, <2>2, <2>3
  <1>3. TypeOK'
    <2>1. outside' \in 0..MaxOutside
      BY <1>0, NetlinkAssumption DEF Outside, LinkTypes
    <2>2. LinkTypes'
      BY <1>0, <1>1, <1>2, <2>1 DEF LinkTypes
    <2>3. WorkerTypes'
      BY <1>0, <1>1 DEF WorkerTypes
    <2> QED  BY <2>2, <2>3 DEF TypeOK, LinkTypes, WorkerTypes, Paths, AnswerType
  <1>4. ASSUME mutex_ # NoWorker
        PROVE  Service!Disturbed' = Service!Disturbed \cup {n}
    <2> DEFINE d == [name |-> n, what |-> what]
    <2>1. disturbed' = disturbed \cup {d} /\ d.name = n
      BY <1>1, <1>4
    <2> HIDE DEF d
    <2> QED  BY <2>1 DEF Service!Disturbed
  <1>5. Untouched'
    BY <1>1, <1>4, NetlinkAssumption DEF ManagerInv, Untouched
  <1>6. \A v \in Workers : OnPath(v)'
    BY <1>1 DEF ManagerInv, OnPath
  <1>7. ASSUME NEW v \in Workers, mutex_' = v, asked'[v].name \notin Service!Disturbed'
        PROVE  Progress(v)'
    <2>1. mutex_ = v /\ asked[v].name # n /\ asked[v].name \notin Service!Disturbed
      BY <1>1, <1>4, <1>7, NetlinkAssumption
    <2>2. Progress(v) /\ OnPath(v) /\ pc[v] # "idle"
      BY <1>0, <2>1 DEF ManagerInv, WorkerTypes
    <2>3. links'[asked[v].name] = links[asked[v].name]
      BY <1>1, <2>1, <2>2, HasRequest DEF ManagerInv
    <2> QED  BY <1>1, <2>2, <2>3 DEF Progress, Second
  <1>8. CreateIsThere'
    <2> SUFFICES ASSUME NEW v \in Workers, Answered(v, "create", {"ok"})
                 PROVE  \/ links'[asked[v].name].index > 0
                        \/ [name |-> asked[v].name, what |-> "remove"] \in disturbed'
      BY <1>1 DEF CreateIsThere, Answered
    <2>1. mutex_ = v /\ asked[v].name \in Names
      <3>1. pc[v] = "reply" /\ OnPath(v)
        BY DEF Answered, ManagerInv
      <3> QED  BY <1>0, <3>1, HasRequest DEF ManagerInv, WorkerTypes
    <2>2. disturbed' = disturbed \cup {[name |-> n, what |-> what]}
      BY <1>1, <2>1, NetlinkAssumption
    <2>3. \/ links[asked[v].name].index > 0
          \/ [name |-> asked[v].name, what |-> "remove"] \in disturbed
      BY DEF ManagerInv, CreateIsThere
    <2> QED  BY <1>1, <1>2, <2>1, <2>2, <2>3
  <1> QED  BY <1>3, <1>5, <1>6, <1>7, <1>8 DEF ManagerInv

LEMMA ManagerInitially == Init => ManagerInv
  <1> SUFFICES ASSUME Init PROVE ManagerInv
    OBVIOUS
  <1>1. LinkTypes
    <2>1. Absent \in Link
      BY NetlinkAssumption DEF Absent, Link
    <2>2. [index : {1}, kind : {"can", "vcan"}, up : BOOLEAN, rate : {0}] \subseteq Link
      BY NetlinkAssumption DEF Link
    <2> QED  BY <2>1, <2>2, NetlinkAssumption DEF Init, LinkTypes
  <1>2. WorkerTypes
    BY AnswerTypes, NetlinkAssumption DEF Init, WorkerTypes, Paths
  <1>3. \A w \in Workers : OnPath(w) /\ pc[w] = "idle" /\ mutex_ # w
    BY NetlinkAssumption DEF Init, OnPath, Sets
  <1>4. TypeOK
    BY <1>1, <1>2, TypesParted
  <1>5. Untouched
    BY <1>3 DEF Init, Untouched
  <1> QED  BY <1>3, <1>4, <1>5 DEF ManagerInv, CreateIsThere, Answered

LEMMA ManagerStep == ManagerInv /\ [Next]_vars => ManagerInv'
  <1> SUFFICES ASSUME ManagerInv, [Next]_vars PROVE ManagerInv'
    OBVIOUS
  <1>1. CASE UNCHANGED vars
    <2>1. UNCHANGED <<links, link_cache_, mutex_, pc, goal, asked, answer, before, outside,
                      disturbed>>
      BY <1>1 DEF vars
    <2>2. TypeOK'  BY <2>1 DEF ManagerInv, TypeOK
    <2>3. Untouched'  BY <2>1 DEF ManagerInv, Untouched, Service!Disturbed
    <2>4. CreateIsThere'  BY <2>1 DEF ManagerInv, CreateIsThere, Answered
    <2>5. ASSUME NEW w \in Workers
          PROVE  /\ OnPath(w)'
                 /\ (mutex_ = w /\ asked[w].name \notin Service!Disturbed => Progress(w))'
      <3>1. OnPath(w)'  BY <2>1 DEF ManagerInv, OnPath
      <3>2. Progress(w) => Progress(w)'  BY <2>1 DEF Progress, Second
      <3> QED  BY <2>1, <3>1, <3>2 DEF ManagerInv, Service!Disturbed
    <2> QED  BY <2>2, <2>3, <2>4, <2>5 DEF ManagerInv
  <1>2. ASSUME NEW w \in Workers, WorkerStep(w) PROVE ManagerInv'
    BY <1>2, LockKeeps, ServedKeeps, UnlockKeeps DEF WorkerStep, Served
  <1>3. ASSUME NEW w \in Workers, NEW r \in Service!Requests, Request(w, r) PROVE ManagerInv'
    BY <1>3, RequestKeeps
  <1> QED  BY <1>1, <1>2, <1>3, OutsideKeeps DEF Next

-----------------------------------------------------------------------------
(* The inductive invariant of process_request: each worker stands on the path of
   its request, and if no other program has touched its link since the mutex was
   taken, that link is as far as the exchanges so far have brought it. *)
THEOREM ManagerInvariant == Spec => []ManagerInv
  BY ManagerInitially, ManagerStep, PTL DEF Spec

(* Every variable keeps its type, and a worker is inside process_request exactly
   while it holds mutex_. *)
THEOREM TypeCorrect == Spec => []TypeOK
  <1>1. ManagerInv => TypeOK  BY DEF ManagerInv
  <1> QED  BY <1>1, ManagerInvariant, PTL

(* create_vcan_interface_if_not_exists reports success only for a link that is
   there, or that another program removed meanwhile. *)
THEOREM CreateCorrect == Spec => []CreateIsThere
  <1>1. ManagerInv => CreateIsThere  BY DEF ManagerInv
  <1> QED  BY <1>1, ManagerInvariant, PTL

(* At its reply, an undisturbed set has kept the promise of LinkService. *)
LEMMA SetPromised ==
  ASSUME ManagerInv, NEW w \in Workers, NEW codes, Answered(w, "set", codes),
         asked[w].name \notin Service!Disturbed
  PROVE  LET r == asked[w] IN
         /\ r \in Service!Requests /\ links[r.name] \in Link /\ before[r.name] \in Link
         /\ Service!Set(r, answer[w], Seen(before[r.name]), Seen(links[r.name]))
  <1>1. pc[w] = "reply" /\ asked[w].op = "set" /\ OnPath(w) /\ LinkTypes /\ WorkerTypes
    BY TypesParted DEF Answered, ManagerInv
  <1>2. asked[w] \in Service!Requests /\ asked[w].name \in Names /\ mutex_ = w
    BY <1>1, HasRequest DEF ManagerInv, WorkerTypes
  <1>3. Progress(w)
    BY <1>2 DEF ManagerInv
  <1> QED  BY <1>1, <1>2, <1>3 DEF Progress, Promised, LinkTypes

(* How the code of an answer tells which way a set went. *)
LEMMA Codes ==
  /\ \A e, u \in BOOLEAN : Ok(e, u).code = "ok"
  /\ Failed.code = "error" /\ BitrateFailed.code = "bitrate" /\ NoAnswer.code = "none"
  BY DEF Ok, Service!Ok, Failed, Service!Failed, BitrateFailed, Service!BitrateFailed,
         NoAnswer, Service!NoAnswer

LEMMA SetSucceeded ==
  ASSUME NEW r \in Service!Requests, r.op = "set", NEW a, a.code = "ok",
         NEW b \in Link, NEW l \in Link, Service!Set(r, a, Seen(b), Seen(l))
  PROVE  l.index > 0 /\ l.up = r.up /\ (SetsBitrate(r) => l.rate = r.rate)
  <1>1. PICK rate \in {r.rate, b.rate} :
          /\ SetsBitrate(r) => rate = r.rate
          /\ Seen(b).exists /\ Seen(l) = [Seen(b) EXCEPT !.up = r.up, !.rate = rate]
    <2>1. a # Failed /\ a # BitrateFailed
      BY Codes
    <2> QED  BY <2>1, SeenParts DEF Service!Set, SetsBitrate, Failed, BitrateFailed
  <1>2. Seen(b) \in Sight
    BY SeenParts
  <1>3. Seen(l).exists = Seen(b).exists /\ Seen(l).up = r.up /\ Seen(l).rate = rate
    BY <1>1, <1>2 DEF Sight
  <1> QED  BY <1>1, <1>3, SeenParts

(* SET_INTERFACE_STATE reports success only when the link, unless another program
   changed it meanwhile, is in the state and has the bitrate asked for. *)
THEOREM SuccessCorrect == Spec => []SuccessIsTrue
  <1>1. ManagerInv => SuccessIsTrue
    BY SetPromised, SetSucceeded DEF SuccessIsTrue, Answered
  <1> QED  BY <1>1, ManagerInvariant, PTL

(* When set_can_bitrate_libnl is what failed, the interface is down. *)
THEOREM FailedBitrateCorrect == Spec => []FailedBitrateIsDown
  <1>1. ASSUME NEW r \in Service!Requests, NEW a, a.code = "bitrate",
               NEW b \in Link, NEW l \in Link, Service!Set(r, a, Seen(b), Seen(l))
        PROVE  ~l.up
    <2>1. a # Failed /\ \A e, u \in BOOLEAN : a # Ok(e, u)
      BY <1>1, Codes
    <2>2. Seen(l) = [Seen(b) EXCEPT !.up = FALSE]
      BY <1>1, <2>1 DEF Service!Set, Failed, Ok
    <2>3. Seen(b) \in Sight
      BY SeenParts
    <2>4. ~Seen(l).up
      BY <2>2, <2>3 DEF Sight
    <2> QED  BY <2>4, SeenParts
  <1>2. ManagerInv => FailedBitrateIsDown
    BY <1>1, SetPromised DEF FailedBitrateIsDown, Answered
  <1> QED  BY <1>2, ManagerInvariant, PTL

-----------------------------------------------------------------------------
(***************************************************************************)
(* The refinement of LinkService, step by step.                            *)
(***************************************************************************)
(* What LinkService sees of the links and of the answers. *)
Shown == View(IF mutex_ = NoWorker THEN links ELSE before)
Told  == [w \in Workers |-> IF pc[w] = "idle" THEN answer[w]
                            ELSE [code |-> "none", exists |-> FALSE, up |-> FALSE]]

(* A worker that replies has an answer, also about a link that was disturbed. *)
Replied == \A w \in Workers : pc[w] = "reply" => answer[w] \in Service!Answers

LEMMA RepliedStep == ManagerInv /\ Replied /\ [Next]_vars => Replied'
  <1> SUFFICES ASSUME ManagerInv, Replied, [Next]_vars PROVE Replied'
    OBVIOUS
  <1>0. TypeOK /\ LinkTypes /\ WorkerTypes
    BY TypesParted DEF ManagerInv
  <1>1. ASSUME NEW w \in Workers, NEW at, NEW a \in Service!Answers, Respond(w, at, a)
        PROVE  answer'[w] \in Service!Answers
    BY <1>0, <1>1 DEF Respond, WorkerTypes
  <1>2. ASSUME NEW w \in Workers, Served(w), pc'[w] = "reply"
        PROVE  answer'[w] \in Service!Answers
    <2>1. Failed \in Service!Answers /\ BitrateFailed \in Service!Answers
      BY DEF Service!Answers, Ok, Failed, BitrateFailed
    <2>2. \A e, u \in BOOLEAN : Ok(e, u) \in Service!Answers
      BY DEF Service!Answers, Ok, Failed, BitrateFailed
    <2>3. CASE Query(w)
      <3>1. Ok(links[asked[w].name].index > 0,
               asked[w].op = "is_up" /\ links[asked[w].name].up) \in Service!Answers
        <4>1. /\ (links[asked[w].name].index > 0) \in BOOLEAN
              /\ (asked[w].op = "is_up" /\ links[asked[w].name].up) \in BOOLEAN
          OBVIOUS
        <4> QED  BY Zenon, <2>2, <4>1
      <3> QED  BY <1>1, <2>1, <2>3, <3>1 DEF Query
    <2>4. Ok(FALSE, FALSE) \in Service!Answers
      BY Zenon, <2>2
    <2> USE <1>0, <1>1, <1>2, <2>1, <2>4
    <2>5. CASE Lookup(w)  BY <2>5 DEF Lookup, Goto, WorkerTypes
    <2>6. CASE Add(w)  BY <2>6 DEF Add
    <2>7. CASE Check(w)  BY <2>7 DEF Check, Goto, WorkerTypes
    <2>8. CASE SetRefill(w)  BY <2>8 DEF SetRefill, After, Goto, WorkerTypes
    <2>9. CASE SetChange(w)  BY <2>9 DEF SetChange, Goto, WorkerTypes
    <2>10. CASE SetRefresh(w)  BY <2>10 DEF SetRefresh, After, Goto, WorkerTypes
    <2>11. CASE Bitrate(w)  BY <2>11 DEF Bitrate, Goto, WorkerTypes
    <2> QED
      BY <2>3, <2>5, <2>6, <2>7, <2>8, <2>9, <2>10, <2>11 DEF Served
  <1>3. CASE UNCHANGED vars
    BY <1>3 DEF vars, Replied
  <1>4. ASSUME NEW w \in Workers, Served(w) PROVE Replied'
    BY <1>0, <1>2, <1>4, InsideStep DEF Replied, Inside
  <1>5. ASSUME NEW w \in Workers, Lock(w) PROVE Replied'
    BY <1>0, <1>5 DEF Replied, Lock, Dispatch, Goto, WorkerTypes
  <1>6. ASSUME NEW w \in Workers, Unlock(w) PROVE Replied'
    BY <1>0, <1>6 DEF Replied, Unlock, Goto, WorkerTypes
  <1>7. ASSUME NEW w \in Workers, NEW r \in Service!Requests, Request(w, r) PROVE Replied'
    BY <1>0, <1>7 DEF Replied, Request, Goto, WorkerTypes
  <1>8. ASSUME NEW n \in Names, NEW what, Outside(n, what) PROVE Replied'
    BY <1>8 DEF Replied, Outside
  <1> QED  BY <1>3, <1>4, <1>5, <1>6, <1>7, <1>8 DEF Next, WorkerStep, Served

LEMMA ShownIs ==
  /\ mutex_ = NoWorker => \A n \in Names : Shown[n] = Seen(links[n])
  /\ mutex_ # NoWorker => \A n \in Names : Shown[n] = Seen(before[n])
  BY DEF Shown, View, Seen

LEMMA AskSimulated ==
  ASSUME ManagerInv, NEW w \in Workers, NEW r \in Service!Requests, Request(w, r)
  PROVE  Service!Ask(w, r)
  <1>0. WorkerTypes /\ OnPath(w) /\ pc[w] = "idle"
    BY TypesParted DEF ManagerInv, Request, Goto
  <1>1. Shown' = Shown /\ disturbed' = disturbed
    BY DEF Request, Shown, View
  <1>2. Told' = [Told EXCEPT ![w] = Service!NoAnswer]
    BY <1>0 DEF Request, Goto, WorkerTypes, Told, Service!NoAnswer
  <1>3. asked[w] = Service!NoRequest /\ asked' = [asked EXCEPT ![w] = r]
    BY <1>0 DEF OnPath, NoRequest, Request
  <1> QED  BY <1>1, <1>2, <1>3 DEF Service!Ask, Shown, Told

LEMMA ServeSimulated ==
  ASSUME ManagerInv, Replied, NEW w \in Workers, Unlock(w)
  PROVE  Service!Serve(w)
  <1> DEFINE r == asked[w]
             a == answer[w]
  <1>0. /\ LinkTypes /\ WorkerTypes /\ OnPath(w) /\ pc[w] = "reply"
        /\ mutex_ = w /\ r \in Service!Requests /\ r.name \in Names
    <2>1. LinkTypes /\ WorkerTypes /\ OnPath(w) /\ pc[w] = "reply"
      BY TypesParted DEF ManagerInv, Unlock, Goto
    <2> QED  BY <2>1, HasRequest DEF ManagerInv, WorkerTypes
  <1>1. \A n \in Names : Shown[n] = Seen(before[n]) /\ Shown'[n] = Seen(links[n])
    <2>1. \A n \in Names : Shown[n] = Seen(before[n])
      BY <1>0, ShownIs, NetlinkAssumption
    <2>2. \A n \in Names : Shown'[n] = Seen(links[n])
      BY DEF Unlock, Shown, View, Seen
    <2> QED  BY <2>1, <2>2
  <1>2. Told' = [Told EXCEPT ![w] = a]
    BY <1>0 DEF Unlock, Goto, WorkerTypes, Told
  <1>3. r # Service!NoRequest /\ asked' = [asked EXCEPT ![w] = Service!NoRequest]
    BY <1>0 DEF OnPath, NoRequest, Unlock
  <1>4. \A n \in Names \ (Service!Disturbed \cup {r.name}) : Shown'[n] = Shown[n]
    BY <1>0, <1>1 DEF ManagerInv, Untouched
  <1>5. ASSUME r.name \notin Service!Disturbed
        PROVE  \/ r.op \in {"exists", "is_up"}
                  /\ Service!Query(r, a, Shown[r.name], Shown'[r.name])
               \/ r.op = "create" /\ Service!Create(r, a, Shown[r.name], Shown'[r.name])
               \/ r.op = "set" /\ Service!Set(r, a, Shown[r.name], Shown'[r.name])
    <2>1. Promised(r, a, before[r.name], links[r.name])
      BY <1>0, <1>5 DEF ManagerInv, Progress
    <2> QED  BY <1>0, <1>1, <2>1, RequestParts DEF Promised
  <1>6. a \in Service!Answers /\ disturbed' = {}
    BY <1>0 DEF Replied, Unlock
  <1> QED
    BY <1>2, <1>3, <1>4, <1>5, <1>6 DEF Service!Serve, Shown, Told

LEMMA OutsideSimulated ==
  ASSUME ManagerInv, NEW n \in Names, NEW what \in {"remove", "create", "switch"},
         Outside(n, what)
  PROVE  Service!Outside(n)
  <1>0. LinkTypes /\ WorkerTypes /\ links[n] \in Link
    BY TypesParted DEF ManagerInv, LinkTypes
  <1>1. asked' = asked /\ Told' = Told /\ mutex_' = mutex_ /\ before' = before
    BY DEF Outside, Told
  <1>2. CASE mutex_ = NoWorker
    <2>1. Shown = View(links) /\ Shown' = View(links)' /\ disturbed' = disturbed
      BY <1>1, <1>2 DEF Shown, Outside, ManagerInv, Untouched, View
    <2>2. \A m \in Names : Shown[m] = Seen(links[m]) /\ Shown'[m] = Seen(links'[m])
      BY <2>1 DEF View, Seen
    <2>3. \A m \in Names \ {n} : links'[m] = links[m]
      BY <1>0 DEF Outside, LinkTypes
    <2>4. \/ links'[n].index > 0 /\ ~(links[n].index > 0)
          \/ ~(links'[n].index > 0) /\ links[n].index > 0
          \/ links'[n].up # links[n].up
      <3>1. CASE what = "remove"
        <4>1. links[n].index > 0 /\ links'[n] = Absent
          BY <1>0, <3>1 DEF Outside, LinkTypes
        <4>2. links'[n].index = 0
          BY <4>1 DEF Absent
        <4> QED  BY <4>1, <4>2
      <3>2. CASE what = "switch"
        <4>1. links[n].up \in BOOLEAN  BY <1>0, LinkParts
        <4>2. links' = [links EXCEPT ![n] = [links[n] EXCEPT !.up = ~links[n].up]]
          BY <3>2 DEF Outside
        <4>3. [links[n] EXCEPT !.up = ~links[n].up].up = ~links[n].up
          BY <1>0 DEF Link
        <4> QED  BY <1>0, <4>1, <4>2, <4>3 DEF LinkTypes
      <3>3. CASE what = "create"
        <4>1. PICK k \in {"can", "vcan"} :
                links' = [links EXCEPT ![n] = [Absent EXCEPT !.index = Fresh, !.kind = k]]
          BY <3>3 DEF Outside
        <4>2. Fresh > 0 /\ [Absent EXCEPT !.index = Fresh, !.kind = k].index = Fresh
          BY <1>0 DEF Fresh, LinkTypes, Absent
        <4>3. links[n].index = 0
          BY <3>3 DEF Outside
        <4> QED  BY <1>0, <4>1, <4>2, <4>3 DEF LinkTypes
      <3> QED  BY <3>1, <3>2, <3>3
    <2>5. \/ Shown'[n].exists # Shown[n].exists
          \/ Shown'[n].up # Shown[n].up
      <3>1. /\ Shown[n].up = links[n].up /\ Shown'[n].up = links'[n].up
            /\ Shown[n].exists = (links[n].index > 0)
            /\ Shown'[n].exists = (links'[n].index > 0)
        <4>1. links'[n] \in Link
          BY OutsideKeeps DEF ManagerInv, TypeOK
        <4> QED  BY <1>0, <2>2, <4>1, SeenParts
      <3> QED  BY Zenon, <2>4, <3>1
    <2>6. \A m \in Names \ {n} : Shown'[m] = Shown[m]
      BY <2>2, <2>3
    <2> QED  BY <1>1, <2>1, <2>5, <2>6 DEF Service!Outside, Shown, Told
  <1>3. CASE mutex_ # NoWorker
    <2>1. Shown' = Shown
      BY <1>1, <1>3 DEF Shown, View
    <2>2. disturbed' = disturbed \cup {[name |-> n, what |-> what]}
      BY <1>3 DEF Outside
    <2> QED  BY <1>1, <2>1, <2>2 DEF Service!Outside, Shown, Told
  <1> QED  BY <1>2, <1>3

(* The exchanges of a request, and the taking of the mutex, are not seen. *)
LEMMA Unseen ==
  ASSUME ManagerInv, NEW w \in Workers, Lock(w) \/ Served(w)
  PROVE  Shown' = Shown /\ asked' = asked /\ Told' = Told /\ disturbed' = disturbed
  <1>0. TypeOK /\ WorkerTypes
    BY TypesParted DEF ManagerInv
  <1>1. CASE Served(w)
    <2>1. Inside(w) /\ mutex_ # NoWorker
      BY <1>0, <1>1, InsideStep, NetlinkAssumption DEF Inside, WorkerTypes
    <2>2. Shown' = Shown
      BY <2>1 DEF Inside, Shown, View
    <2>3. Told' = Told
      BY <2>1 DEF Inside, Told
    <2> QED  BY <2>1, <2>2, <2>3 DEF Inside
  <1>2. CASE Lock(w)
    <2>1. /\ mutex_ = NoWorker /\ mutex_' # NoWorker /\ before' = links
          /\ disturbed' = {} /\ asked' = asked /\ answer' = answer
      BY <1>2, NetlinkAssumption DEF Lock, Dispatch
    <2>2. Shown' = Shown /\ disturbed' = disturbed
      BY <2>1 DEF Shown, View, ManagerInv, Untouched
    <2>3. pc[w] = "lock" /\ pc'[w] # "idle" /\ \A v \in Workers \ {w} : pc'[v] = pc[v]
      BY <1>0, <1>2 DEF Lock, Dispatch, Goto, WorkerTypes
    <2>4. Told' = Told
      BY <2>1, <2>3 DEF Told
    <2> QED  BY <2>1, <2>2, <2>4
  <1> QED  BY <1>1, <1>2

LEMMA ServiceInitially == Init => Service!Init
  <1> SUFFICES ASSUME Init PROVE Service!Init
    OBVIOUS
  <1>1. Shown \in [Names -> [exists : BOOLEAN, kind : {"can", "vcan"}, up : BOOLEAN, rate : {0}]]
    <2>1. ASSUME NEW n \in Names
          PROVE  Seen(links[n]) \in
                   [exists : BOOLEAN, kind : {"can", "vcan"}, up : BOOLEAN, rate : {0}]
      <3>1. /\ links[n].kind \in {"can", "vcan"} /\ links[n].up \in BOOLEAN
            /\ links[n].rate = 0
        <4>1. CASE links[n] = Absent
          BY <4>1 DEF Absent
        <4>2. CASE links[n] \in [index : {1}, kind : {"can", "vcan"}, up : BOOLEAN, rate : {0}]
          BY <4>2
        <4> QED  BY <4>1, <4>2 DEF Init
      <3>2. (links[n].index > 0) \in BOOLEAN
        OBVIOUS
      <3> QED  BY <3>1, <3>2 DEF Seen
    <2> QED  BY <2>1 DEF Init, Shown, View, Seen
  <1>2. Told = [w \in Workers |-> Service!NoAnswer]
    BY DEF Init, Told, NoAnswer
  <1> QED  BY <1>1, <1>2 DEF Service!Init, Init, Shown, Told, NoRequest

(* process_request implements LinkService: every request takes effect in the one
   step in which the mutex is released, whatever the other workers ask for and
   other programs do to other links meanwhile. *)
THEOREM ImplementsService == Spec => Implements
  <1>1. ManagerInv /\ Replied /\ [Next]_vars =>
          [Service!Next]_<<View(IF mutex_ = NoWorker THEN links ELSE before), asked,
                           [w \in Workers |-> IF pc[w] = "idle" THEN answer[w]
                              ELSE [code |-> "none", exists |-> FALSE, up |-> FALSE]],
                           disturbed>>
    <2> DEFINE seen == <<Shown, asked, Told, disturbed>>
    <2> SUFFICES ASSUME ManagerInv, Replied, [Next]_vars PROVE Service!Next \/ seen' = seen
      BY DEF Shown, Told
    <2>1. CASE UNCHANGED vars
      BY <2>1 DEF vars, Shown, View, Told
    <2>2. ASSUME NEW w \in Workers, Lock(w) \/ Served(w) PROVE seen' = seen
      BY <2>2, Unseen
    <2>3. ASSUME NEW w \in Workers, Unlock(w) PROVE Service!Next
      BY <2>3, ServeSimulated DEF Service!Next
    <2>4. ASSUME NEW w \in Workers, NEW r \in Service!Requests, Request(w, r)
          PROVE  Service!Next
      BY <2>4, AskSimulated DEF Service!Next
    <2>5. ASSUME NEW n \in Names, NEW what \in {"remove", "create", "switch"},
                 Outside(n, what)
          PROVE  Service!Next
      BY <2>5, OutsideSimulated DEF Service!Next
    <2> HIDE DEF seen
    <2> QED  BY <2>1, <2>2, <2>3, <2>4, <2>5 DEF Next, WorkerStep, Served
  <1>2. Init => Replied
    BY DEF Init, Replied
  <1> QED
    BY <1>1, <1>2, ServiceInitially, RepliedStep, ManagerInvariant, PTL
    DEF Implements, Service!Spec, Spec
=============================================================================
