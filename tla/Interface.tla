------------------------------ MODULE Interface ------------------------------
(***************************************************************************)
(* HyCAN::Interface: up() asks the daemon for the link and then starts the *)
(* Dispatcher, down() asks for the link to be taken down and then stops    *)
(* it.  The Dispatcher is the one of module Dispatcher; here it is driven  *)
(* by the Interface alone, and its socket is bound to a device that other  *)
(* programs take down, remove and create anew.  It never gets the number 0 *)
(* here: somebody else may close that one (CloseZero of Dispatcher).       *)
(*                                                                         *)
(* The daemon (external here, see NetlinkClient and LinkService) answers a *)
(* request with success when it has been carried out.  An error says       *)
(* nothing: the answer may be lost or late.                                *)
(***************************************************************************)
EXTENDS Dispatcher

CONSTANTS
  Kinds,      \* the interfaces: type, the template argument, and named, whether
              \* the name starts with "can"
  MaxIndex    \* bound: how often the device is created

ASSUME InterfaceAssumption ==
  /\ Kinds \subseteq [type : {"CAN", "VCAN"}, named : BOOLEAN]
  /\ MaxIndex \in Nat \ {0}
  /\ 0 \notin Fds       \* a socket numbered 0 is left to Dispatcher

VARIABLES
  kind,    \* which interface it is
  at,      \* where the owner is in up() or down()
  said,    \* how the last call of up() or down() ended; "none" during a call
  link,    \* the device: its index (0: there is none), whether it is up, how
           \* often it was created
  bound,   \* the index the CAN socket is bound to, and whether the socket has
           \* an error to report
  calm     \* history: nobody else has changed the link since the last call
           \* began

ivars == <<vars, kind, at, said, link, bound, calm>>

Unbound == [index |-> 0, err |-> FALSE]

InterfaceInit ==
  /\ Init
  /\ kind \in Kinds
  /\ at = "out" /\ said = "none" /\ calm = FALSE
  /\ link \in {[index |-> 0, up |-> FALSE, created |-> 0],
               [index |-> 1, up |-> FALSE, created |-> 1]}
  /\ bound = Unbound

-----------------------------------------------------------------------------
(***************************************************************************)
(* The device.  A socket learns that its device goes down or is removed: a *)
(* read that waits fails, any other reports the error to the next read.    *)
(***************************************************************************)
Waits == reaper.pc \in {"blocked", "orphan"}

Fall(index) ==
  /\ link' = [link EXCEPT !.index = index, !.up = FALSE]
  /\ \/ ~Waits /\ UNCHANGED vars
     \/ Waits /\ ReadFails
  /\ bound' = IF bound.index = 0 THEN bound
              ELSE [index |-> index,
                    err |-> bound.err \/ (link.up /\ reaper.pc # "blocked") \/ index = 0]

Rise ==
  /\ link' = [link EXCEPT !.up = TRUE]
  /\ UNCHANGED <<vars, bound>>

Appear ==
  /\ link.index = 0 /\ link.created < MaxIndex
  /\ link' = [index |-> link.created + 1, up |-> FALSE, created |-> link.created + 1]
  /\ UNCHANGED <<vars, bound>>

Same == UNCHANGED <<vars, link, bound>>

(* Other programs (external). *)
Outside ==
  /\ \/ link.up /\ Fall(link.index)
     \/ link.index > 0 /\ Fall(0)
     \/ link.index > 0 /\ ~link.up /\ Rise
     \/ Appear
  /\ calm' = FALSE
  /\ UNCHANGED <<kind, at, said>>

-----------------------------------------------------------------------------
(***************************************************************************)
(* up() and down(): requests to the daemon, then the Dispatcher.           *)
(***************************************************************************)
Inside(here, there) == at = here /\ at' = there /\ UNCHANGED said
Answer(here, what)  == at = here /\ at' = "out" /\ said' = what

Begin(there) ==
  /\ At(Owner, "idle") /\ at = "out" /\ at' = there
  /\ said' = "none" /\ calm' = TRUE
  /\ Same /\ UNCHANGED kind

Up   == Begin("exists")
Down == Begin("unset")

\* Mutant of AskExists: a CAN interface that does not exist is created, too.
AskExistsAnyType ==
  /\ \/ link.index > 0 /\ Inside("exists", "set")
     \/ link.index = 0 /\ Inside("exists", "create")
     \/ Answer("exists", "error")
  /\ Same

AskExists ==
  /\ \/ link.index > 0 /\ Inside("exists", "set")
     \/ link.index = 0 /\ kind.type = "VCAN" /\ Inside("exists", "create")
     \/ Answer("exists", "error")
  /\ Same

(* Somebody else may have created the link since. *)
AskCreate ==
  \/ Inside("create", "set") /\ IF link.index > 0 THEN Same ELSE Appear
  \/ Answer("create", "error") /\ (Same \/ Appear)

(* A bitrate is asked for whenever the name says so.  The daemon takes a link that
   is up down for it; an error may also come before that. *)
AskBitrate ==
  /\ kind.named /\ link.up
  /\ Inside("set", "rate") /\ Fall(link.index)

AskSet(here) ==
  \/ /\ link.index > 0 /\ (here = "set" => ~(kind.named /\ link.up))
     /\ Inside(here, "start") /\ IF link.up THEN Same ELSE Rise
  \/ Answer(here, "error") /\ (Same \/ (link.index > 0 /\ ~link.up /\ Rise))

\* Mutant of AskUnset: the Dispatcher is stopped whatever the daemon answers.
AskUnsetIgnored ==
  \/ link.index > 0 /\ Inside("unset", "stop") /\ IF link.up THEN Fall(link.index) ELSE Same
  \/ Inside("unset", "stop") /\ (Same \/ (link.up /\ Fall(link.index)))

AskUnset ==
  \/ link.index > 0 /\ Inside("unset", "stop") /\ IF link.up THEN Fall(link.index) ELSE Same
  \/ Answer("unset", "error") /\ (Same \/ (link.up /\ Fall(link.index)))

Ask ==
  /\ At(Owner, "idle")
  /\ AskExists \/ AskCreate \/ AskBitrate \/ AskSet("set") \/ AskSet("rate") \/ AskUnset
  /\ UNCHANGED <<kind, calm>>

(* dispatcher.start(). *)
Start ==
  /\ Inside("start", "starting") /\ StartClose
  /\ bound' = IF sock'.fd \in Fds THEN bound ELSE Unbound

Bind ==
  /\ StartOpen
  /\ sock'.fd \in Fds => link.index > 0
  /\ bound' = IF sock'.fd \in Fds THEN [index |-> link.index, err |-> ~link.up] ELSE Unbound

(* ENETDOWN ends the flush, ENODEV ends start(). *)
Flush ==
  /\ StartFlush
  /\ \/ /\ bound.err /\ sock' = sock
        /\ (pc'[Owner] = "spawn") <=> (bound.index > 0)
     \/ /\ ~bound.err
        /\ pc'[Owner] = IF sock.rx = <<>> THEN "spawn" ELSE "flush"
  /\ bound' = [bound EXCEPT !.err = FALSE]

Returns(what) ==
  IF pc'[Owner] = "idle" THEN at' = "out" /\ said' = what ELSE UNCHANGED <<at, said>>

Starting ==
  /\ at = "starting"
  /\ \/ Bind
     \/ Flush
     \/ (StartNonblock \/ StartAdd \/ StartSpawn) /\ UNCHANGED bound
  /\ Returns(IF At(Owner, "spawn") THEN "up" ELSE "error")

(* dispatcher.stop(). *)
Stop ==
  /\ UNCHANGED bound
  /\ \/ ~reap_thread.joinable /\ At(Owner, "idle") /\ Answer("stop", "down") /\ UNCHANGED vars
     \/ Inside("stop", "stopping") /\ StopRequest

StopProceeds ==
  /\ at = "stopping" /\ StopStep
  /\ Returns(IF Joining THEN "down" ELSE "error")
  /\ UNCHANGED bound

Drive == (Start \/ Starting \/ Stop \/ StopProceeds) /\ UNCHANGED <<kind, link, calm>>

-----------------------------------------------------------------------------
(* The Dispatcher's own steps, as far as the device lets them happen. *)
Reads == reaper.pc = "read" /\ reaper.cur = sock.fd

Reap ==
  /\ \/ ~(Reads /\ bound.err) /\ Reaper /\ UNCHANGED bound
     \/ Reads /\ bound.err /\ ReadFails /\ bound' = [bound EXCEPT !.err = FALSE]
  /\ UNCHANGED <<kind, at, said, link, calm>>

Receive ==
  /\ link.up /\ \E id \in BusIds : BusFrame(id)
  /\ sock' # sock => bound.index = link.index
  /\ UNCHANGED <<kind, at, said, link, bound, calm>>

Registers(t) ==
  /\ \/ /\ t = Owner => at = "out"
        /\ \E ids \in IdSets, cb \in Callbacks : CallRegister(t, ids, cb)
     \/ Register(t)
  /\ UNCHANGED <<kind, at, said, link, bound, calm>>

Destructs ==
  /\ at = "out" /\ said' = "none"
  /\ Destroy \/ StopStep \/ DestroyStep
  /\ bound' = IF pc'[Owner] = "gone" THEN Unbound ELSE bound
  /\ UNCHANGED <<kind, at, link, calm>>

Dies ==
  /\ Crash \/ EpollInterrupted
  /\ UNCHANGED <<kind, at, said, link, bound, calm>>

InterfaceNext ==
  \/ Up \/ Down \/ Ask \/ Drive
  \/ Reap \/ Receive \/ Dies \/ Destructs
  \/ \E t \in Threads : Registers(t)
  \/ Outside

InterfaceSpec == InterfaceInit /\ [][InterfaceNext]_ivars

(* As in Dispatcher; the daemon answers every request. *)
InterfaceFairness ==
  /\ \A t \in Threads : WF_ivars(Registers(t) /\ pc[t] # "idle")
  /\ WF_ivars(Ask) /\ WF_ivars(Drive) /\ WF_ivars(Reap)
  /\ WF_ivars(Destructs /\ pc[Owner] # "idle")

InterfaceFairSpec == InterfaceSpec /\ InterfaceFairness

-----------------------------------------------------------------------------
(***************************************************************************)
(* Properties.                                                             *)
(***************************************************************************)

(* The Interface's own variables have their types; a socket is bound to the
   device that is there or to none, and up() takes the steps of its type and its
   name. *)
InterfaceTypeOK ==
  /\ TypeOK
  /\ kind \in Kinds
  /\ at \in {"out", "exists", "create", "set", "rate", "start", "starting", "unset",
             "stop", "stopping"}
  /\ said \in {"none", "up", "down", "error"}
  /\ link \in [index : 0..MaxIndex, up : BOOLEAN, created : 0..MaxIndex]
  /\ bound \in [index : {0, link.index}, err : BOOLEAN]
  /\ calm \in BOOLEAN
  /\ (at = "create" => kind.type = "VCAN") /\ (at = "rate" => kind.named)

Serving == said = "up" /\ calm /\ ~reap_thread.stop /\ pc[Owner] # "dead"

(* What up() promises: when it has answered success, and as long as nobody else
   touches the link, the link is up and a reaper polls a socket that is bound to
   it, whatever happened to the device and to earlier sockets before.  The
   exception is a reaper that a stop() with ReaperStopError has told to exit. *)
UpMeansReceiving ==
  Serving => /\ link.up
             /\ sock.polled /\ bound.index = link.index
             /\ reaper.pc \notin {"none", "exited"}

(* What down() promises: the link is down, and no callback runs any more. *)
DownMeansQuiet ==
  said = "down" => reaper.pc = "none" /\ (calm => ~link.up)

(* While the Interface serves, every frame that the socket has received gets
   through the reaper and past the lock: the queue is empty again and again. *)
Drained ==
  <>[](Serving /\ NoRegistration)
    => []<>(sock.rx = <<>> /\ reaper.pc \notin {"lock", "cs"})
=============================================================================
