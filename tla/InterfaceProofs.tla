--------------------------- MODULE InterfaceProofs ---------------------------
(***************************************************************************)
(* Proofs about module Interface, which drives the Dispatcher and puts a   *)
(* device under its socket.  The composition is shown to implement the     *)
(* Dispatcher first, so that the invariants of DispatcherProofs hold in    *)
(* it; then what up() and down() promise follows from one invariant that   *)
(* is inductive given those.                                               *)
(***************************************************************************)
EXTENDS Interface, DispatcherServiceProofs

(* The device takes the Dispatcher through no step it does not have: a read
   that fails, or none. *)
LEMMA FallIsDispatcher ==
  ASSUME NEW index, Fall(index)
  PROVE  [Next]_vars
BY DEF Fall, Next

(* A request to the daemon moves the device alone. *)
LEMMA AskIsDispatcher == Ask => [Next]_vars
<1> SUFFICES ASSUME Ask PROVE [Next]_vars OBVIOUS
<1>1. CASE AskExists BY <1>1 DEF AskExists, Same
<1>2. CASE AskCreate BY <1>2 DEF AskCreate, Same, Appear
<1>3. CASE AskBitrate BY <1>3, FallIsDispatcher DEF AskBitrate
<1>4. CASE AskSet("set") BY <1>4 DEF AskSet, Same, Rise
<1>5. CASE AskSet("rate") BY <1>5 DEF AskSet, Same, Rise
<1>6. CASE AskUnset BY <1>6, FallIsDispatcher DEF AskUnset, Same
<1> QED BY <1>1, <1>2, <1>3, <1>4, <1>5, <1>6 DEF Ask

(* up(), down() and the destructor use start() and stop() as they are. *)
LEMMA DriveIsDispatcher == Drive => [Next]_vars
<1> SUFFICES ASSUME Drive PROVE [Next]_vars OBVIOUS
<1>1. CASE Start BY <1>1 DEF Start, Next
<1>2. CASE Starting BY <1>2 DEF Starting, Bind, Flush, Next, StartStep
<1>3. CASE Stop BY <1>3 DEF Stop, Next
<1>4. CASE StopProceeds BY <1>4 DEF StopProceeds, Next
<1> QED BY <1>1, <1>2, <1>3, <1>4 DEF Drive

(* Every step of the composition is a step of the Dispatcher or leaves it
   alone. *)
LEMMA StepIsDispatcher == [InterfaceNext]_ivars => [Next]_vars
<1> SUFFICES ASSUME [InterfaceNext]_ivars PROVE [Next]_vars OBVIOUS
<1>1. CASE Up \/ Down BY <1>1 DEF Up, Down, Begin, Same
<1>2. CASE Ask BY <1>2, AskIsDispatcher
<1>3. CASE Drive BY <1>3, DriveIsDispatcher
<1>4. CASE Reap BY <1>4 DEF Reap, Next
<1>5. CASE Receive BY <1>5 DEF Receive, Next
<1>6. CASE Dies BY <1>6 DEF Dies, Next
<1>7. CASE Destructs BY <1>7 DEF Destructs, Next
<1>8. ASSUME NEW t \in Threads, Registers(t) PROVE [Next]_vars
  BY <1>8 DEF Registers, Next
<1>9. CASE Outside BY <1>9, FallIsDispatcher DEF Outside, Rise, Appear
<1>10. CASE UNCHANGED ivars BY <1>10 DEF ivars
<1> QED BY <1>1, <1>2, <1>3, <1>4, <1>5, <1>6, <1>7, <1>8, <1>9, <1>10 DEF InterfaceNext

(* The composition implements the Dispatcher: Interface::up() and down(), their
   requests and the device underneath drive it through behaviours of its own
   specification only. *)
THEOREM UsesDispatcher == InterfaceSpec => Spec
<1>1. InterfaceInit => Init BY DEF InterfaceInit
<1> QED BY <1>1, StepIsDispatcher, PTL DEF InterfaceSpec, Spec

(* So what is proved of the Dispatcher holds inside an Interface, whatever the
   daemon answers and whoever removes or re-creates the device: the table is
   never used while it is written, after a stop() no callback runs, no stop() is
   lost without a stale notification and each of those comes to its end, and frames
   are dispatched in bus order. *)
THEOREM InterfaceInherits ==
  InterfaceSpec => /\ [](MutualExclusion /\ QuietAfterStop /\ StopNotLost)
                   /\ InOrder /\ StopAdvances
BY UsesDispatcher, LockCorrect, StopCorrect, OrderCorrect, StopAdvancesCorrect, PTL

(* Only a start() that finds its socket numbered 0 leaves two sockets open. *)
LEMMA DoublesAtZero ==
  ASSUME [Next]_vars, ghost' # ghost, ~ghost.doubled, ghost'.doubled,
         ghost \in [last : Nat, left : BOOLEAN, reads : Nat, clean : BOOLEAN,
                   doubled : BOOLEAN]
  PROVE  sock.fd = 0
<1> USE DEF thread, kernel, Noted
<1>1. ASSUME NEW t \in Threads, NEW ids \in IdSets, NEW cb \in Callbacks,
             CallRegister(t, ids, cb)
      PROVE  FALSE
  BY <1>1 DEF CallRegister
<1>2. ASSUME NEW t \in Threads, Register(t) PROVE FALSE
  BY <1>2 DEF Register, RegisterLock, RegisterStore, RegisterUnlock
<1>3. CASE StartClose BY <1>3 DEF StartClose
<1>4. CASE StartStep
  BY <1>4 DEF StartStep, StartOpen, StartNonblock, StartAdd, StartFlush, StartSpawn
<1>5. CASE StopRequest \/ StopStep
  BY <1>5 DEF StopRequest, StopStep, StopWrite, StopJoin
<1>6. CASE Destroy \/ DestroyStep
  BY <1>6 DEF Destroy, DestroyStep, DestroyClose, DestroyReap
<1>7. CASE EpollWait \/ ReadSocket \/ ReadResumes \/ DispatchLock
  BY <1>7 DEF EpollWait, ReadSocket, ReadResumes, DispatchLock
<1>8. ASSUME NEW fd \in reaper.events, CheckEvent(fd) PROVE FALSE
  BY <1>8 DEF CheckEvent
<1>9. CASE ReadEventFd BY <1>9 DEF ReadEventFd
<1>10. CASE Dispatch BY <1>10 DEF Dispatch, LookedUp
<1>11. CASE EpollInterrupted \/ ReadFails \/ Crash \/ CloseZero
  BY <1>11 DEF EpollInterrupted, ReadFails, Crash, CloseZero
<1>12. ASSUME NEW id \in BusIds, BusFrame(id) PROVE FALSE
  BY <1>12 DEF BusFrame
<1> QED
  BY <1>1, <1>2, <1>3, <1>4, <1>5, <1>6, <1>7, <1>8, <1>9, <1>10, <1>11, <1>12
  DEF Next, Reaper, vars

(* With sockets of positive numbers the exception of InOrder never applies: the
   callbacks of an Interface get the frames in the order of the bus, however often
   up() and down() are called and whatever happens to the device. *)
THEOREM InterfaceOrder == InterfaceSpec => [][ghost'.last >= ghost.last]_ghost
<1> DEFINE OneSocket == ~ghost.doubled
<1>1. InterfaceInit => OneSocket BY DEF InterfaceInit, Init
<1>2. TypeOK /\ OneSocket /\ [InterfaceNext]_ivars => OneSocket'
  <2> SUFFICES ASSUME TypeOK, OneSocket, [Next]_vars PROVE OneSocket'
    BY StepIsDispatcher
  <2>1. sock.fd # 0
    BY InterfaceAssumption DEF TypeOK, KernelOK, Sockets
  <2> QED BY <2>1, DoublesAtZero DEF TypeOK, ThreadOK
<1>3. OneSocket /\ [ghost.doubled \/ ghost'.last >= ghost.last]_ghost
        => [ghost'.last >= ghost.last]_ghost
  OBVIOUS
<1> HIDE DEF OneSocket
<1> QED
  BY <1>1, <1>2, <1>3, UsesDispatcher, TypeCorrect, OrderCorrect, PTL
  DEF InterfaceSpec, InOrder

(* And an Interface's register_callback(), up(), down() and traffic are, to the
   application, those of a DispatcherService. *)
THEOREM InterfaceServes == InterfaceSpec => Implements
BY UsesDispatcher, ImplementsService, PTL

-----------------------------------------------------------------------------
(* The Interface's own part of InterfaceTypeOK. *)
DeviceOK ==
  /\ kind \in Kinds
  /\ at \in {"out", "exists", "create", "set", "rate", "start", "starting", "unset",
             "stop", "stopping"}
  /\ said \in {"none", "up", "down", "error"}
  /\ link \in [index : 0..MaxIndex, up : BOOLEAN, created : 0..MaxIndex]
  /\ bound \in [index : {0, link.index}, err : BOOLEAN]
  /\ calm \in BOOLEAN
  /\ (at = "create" => kind.type = "VCAN") /\ (at = "rate" => kind.named)

(* The link is in the state the daemon was asked for when the Dispatcher is
   started or stopped ... *)
LinkInv ==
  /\ at # "out" => said = "none"
  /\ at \in {"start", "starting"} /\ calm => link.up
  /\ at \in {"stop", "stopping"} /\ calm => ~link.up

(* ... and start() binds the socket to it before it adds the socket to epoll. *)
StartInv ==
  at = "starting" =>
    /\ pc[Owner] \in {"flush", "spawn"} => sock.polled
    /\ pc[Owner] \in {"nonblock", "add", "flush", "spawn"} /\ calm => bound.index = link.index

(* What a call has achieved lasts until the next one, or until the process dies. *)
UpInv ==
  said = "up" =>
    /\ pc[Owner] # "dead" => reap_thread.joinable /\ sock.polled
    /\ calm => link.up /\ bound.index = link.index

DownInv == said = "down" => reaper.pc = "none" /\ (calm => ~link.up)

InterfaceInv == DeviceOK /\ LinkInv /\ StartInv /\ UpInv /\ DownInv

-----------------------------------------------------------------------------
(* What the proofs use of the Dispatcher, before and after a step. *)
DispatcherFacts == TypeInv /\ QuietAfterStop /\ ReaperLives

LEMMA InterfaceFacts == InterfaceSpec => []DispatcherFacts
BY UsesDispatcher, TypeInvariant, StopCorrect, ReaperStays, PTL DEF DispatcherFacts

Opened == {"nonblock", "add", "flush", "spawn"}

(* A step of the Dispatcher that the Interface does not take itself: it starts no
   reaper, takes a socket out of epoll only when the process dies, and leaves
   start() where it is. *)
Aside ==
  /\ UNCHANGED reap_thread
  /\ reaper.pc = "none" => reaper'.pc = "none"
  /\ pc'[Owner] # "dead" => pc[Owner] # "dead" /\ sock'.polled = sock.polled
  /\ pc'[Owner] \in Opened => pc'[Owner] = pc[Owner]

LEMMA UnchangedIsAside == UNCHANGED vars => Aside
BY DEF vars, app, thread, kernel, Aside

LEMMA ReadFailsIsAside == ReadFails => Aside
BY DEF ReadFails, app, kernel, Aside, Loop, ReaperAt

LEMMA ReaperIsAside ==
  ASSUME TypeInv, Reaper \/ ReadFails
  PROVE  Aside
<1>a. ReaperOK /\ KernelOK
  BY DEF TypeInv, TypeOK
<1>r. ReadFrame => sock'.polled = sock.polled /\ reaper'.pc = "lock"
  BY <1>a DEF ReadFrame, ReadFrom, KernelOK, Sockets, Got, ReaperAt
<1>1. CASE EpollWait \/ DispatchLock \/ Dispatch
  BY <1>1, <1>a DEF EpollWait, DispatchLock, Dispatch, app, kernel, ReaperOK, Aside
<1>2. ASSUME NEW fd \in reaper.events, CheckEvent(fd) PROVE Aside
  BY <1>2 DEF CheckEvent, app, kernel, Aside
<1>3. CASE ReadEventFd
  BY <1>3 DEF ReadEventFd, app, Aside
<1>4. CASE ReadSocket
  BY <1>4, <1>r DEF ReadSocket, app, Aside
<1>5. CASE ReadResumes
  BY <1>5, <1>r DEF ReadResumes, app, Aside
<1> QED BY <1>1, <1>2, <1>3, <1>4, <1>5, ReadFailsIsAside DEF Reaper

LEMMA DiesIsAside ==
  ASSUME Crash \/ EpollInterrupted
  PROVE  Aside
<1> USE DispatcherAssumption
<1>1. CASE Crash BY <1>1 DEF Crash, Aside, Opened
<1>2. CASE EpollInterrupted BY <1>2 DEF EpollInterrupted, app, kernel, Aside
<1> QED BY <1>1, <1>2

LEMMA BusIsAside ==
  ASSUME TypeInv, NEW id \in BusIds, BusFrame(id)
  PROVE  Aside
<1>1. sock \in Sockets
  BY DEF TypeInv, TypeOK, KernelOK
<1>2. sock'.polled = sock.polled
  BY <1>1 DEF BusFrame, With, Sockets
<1> QED BY <1>2 DEF BusFrame, app, Aside

LEMMA RegistersIsAside ==
  ASSUME TypeInv, NEW t \in Threads, Registers(t)
  PROVE  Aside
<1> USE DispatcherAssumption
<1>a. pc \in [Threads -> AppPcs]
  BY DEF TypeInv, TypeOK, AppOK
<1>1. ASSUME NEW to \in {"spin", "store", "idle"}, pc[t] \in {"spin", "store", "idle"},
             Goto(t, to), UNCHANGED <<thread, kernel>>
      PROVE Aside
  BY <1>a, <1>1 DEF Goto, thread, kernel, Aside, Opened
<1>2. ASSUME UNCHANGED <<pc, thread, kernel>> PROVE Aside
  BY <1>2 DEF thread, kernel, Aside
<1>3. ASSUME NEW ids \in IdSets, NEW cb \in Callbacks, CallRegister(t, ids, cb) PROVE Aside
  BY <1>1, <1>3 DEF CallRegister, At
<1>4. CASE Register(t)
  BY <1>1, <1>2, <1>4
  DEF Register, RegisterLock, RegisterStore, RegisterUnlock, Leave, Return, At
<1> QED BY <1>3, <1>4 DEF Registers

-----------------------------------------------------------------------------
(* The link and the binding of the socket, under the steps of the device. *)
Links == [index : 0..MaxIndex, up : BOOLEAN, created : 0..MaxIndex]

Binding(index) == [index : {0, index}, err : BOOLEAN]

LEMMA FallDevice ==
  ASSUME DeviceOK, TypeInv, NEW index \in {0, link.index}, Fall(index)
  PROVE  link' \in Links /\ ~link'.up /\ bound' \in Binding(link'.index) /\ Aside
<1> USE InterfaceAssumption
<1>1. link \in Links /\ bound \in Binding(link.index)
  BY DEF DeviceOK, Links, Binding
<1>2. index \in 0..MaxIndex
  BY <1>1 DEF Links
<1>3. link' \in Links /\ ~link'.up /\ link'.index = index
  BY <1>1, <1>2 DEF Fall, Links
<1>4. bound' \in Binding(index)
  <2> DEFINE fails == bound.err \/ (link.up /\ reaper.pc # "blocked") \/ index = 0
  <2>1. PICK e \in BOOLEAN : e = fails
    OBVIOUS
  <2>2. bound' = IF bound.index = 0 THEN bound ELSE [index |-> index, err |-> fails]
    BY DEF Fall
  <2> HIDE DEF fails
  <2>3. [index |-> index, err |-> e] \in Binding(index)
    BY DEF Binding
  <2>4. bound.index = 0 => bound \in Binding(index)
    BY <1>1 DEF Binding
  <2>5. QED BY <2>1, <2>2, <2>3, <2>4
<1>5. Aside
  BY UnchangedIsAside, ReadFailsIsAside DEF Fall
<1> QED BY <1>3, <1>4, <1>5

LEMMA RiseDevice ==
  ASSUME DeviceOK, Rise
  PROVE  link' \in Links /\ link'.up /\ bound' \in Binding(link'.index) /\ Aside
<1>1. link \in Links /\ bound \in Binding(link.index)
  BY DEF DeviceOK, Links, Binding
<1>2. link' \in Links /\ link'.up /\ link'.index = link.index
  BY <1>1 DEF Rise, Links
<1> QED BY <1>1, <1>2, UnchangedIsAside DEF Rise

LEMMA AppearDevice ==
  ASSUME DeviceOK, Appear
  PROVE  link' \in Links /\ bound' \in Binding(link'.index) /\ Aside
<1> USE InterfaceAssumption
<1>1. link \in Links /\ bound \in Binding(link.index)
  BY DEF DeviceOK, Links, Binding
<1>2. PICK e \in BOOLEAN : e = FALSE
  OBVIOUS
<1>3. PICK n \in 0..MaxIndex : n = link.created + 1
  BY <1>1 DEF Appear, Links
<1>4. link' = [index |-> n, up |-> e, created |-> n]
  BY <1>2, <1>3, Zenon DEF Appear
<1>5. link' \in Links
  BY <1>4 DEF Links
<1>6. bound' \in Binding(n)
  BY <1>1 DEF Appear, Binding
<1>7. link'.index = n
  BY <1>4
<1> QED BY <1>5, <1>6, <1>7, UnchangedIsAside DEF Appear

LEMMA SameDevice ==
  ASSUME DeviceOK, Same
  PROVE  link' \in Links /\ link'.up = link.up /\ bound' \in Binding(link'.index) /\ Aside
BY UnchangedIsAside DEF DeviceOK, Same, Links, Binding

-----------------------------------------------------------------------------
(* A step in which neither the Interface nor another program does anything to
   the link: what a call has achieved is kept. *)
LEMMA AsideKeeps ==
  ASSUME InterfaceInv, Aside, UNCHANGED <<kind, at, said, link, calm>>,
         bound' \in Binding(link.index), bound'.index = bound.index
  PROVE  InterfaceInv'
<1>1. DeviceOK'
  BY DEF InterfaceInv, DeviceOK, Binding
<1>2. LinkInv' /\ UpInv' /\ DownInv'
  BY DEF InterfaceInv, LinkInv, UpInv, DownInv, Aside
<1>3. StartInv'
  BY DEF InterfaceInv, StartInv, Aside, Opened
<1> QED BY <1>1, <1>2, <1>3 DEF InterfaceInv

(* While a request is under way nothing has been said, and only the steps that
   reach start() or stop() have to leave the link as they need it. *)
LEMMA AskProceeds ==
  ASSUME InterfaceInv, NEW here, NEW there, here # "out", Inside(here, there),
         there \in {"create", "set", "rate", "start", "stop"},
         there = "create" => kind.type = "VCAN", there = "rate" => kind.named,
         UNCHANGED <<kind, calm>>,
         link' \in Links, bound' \in Binding(link'.index),
         there = "start" => link'.up, there = "stop" => ~link'.up
  PROVE  InterfaceInv'
<1>1. said = "none"
  BY DEF InterfaceInv, LinkInv, Inside
<1>2. DeviceOK'
  BY DEF InterfaceInv, DeviceOK, Inside, Links, Binding
<1>3. LinkInv' /\ UpInv' /\ DownInv' /\ StartInv'
  BY <1>1 DEF Inside, LinkInv, UpInv, DownInv, StartInv
<1> QED BY <1>2, <1>3 DEF InterfaceInv

LEMMA AskFails ==
  ASSUME InterfaceInv, NEW here, Answer(here, "error"), UNCHANGED <<kind, calm>>,
         link' \in Links, bound' \in Binding(link'.index)
  PROVE  InterfaceInv'
<1>1. DeviceOK'
  BY DEF InterfaceInv, DeviceOK, Answer, Links, Binding
<1>2. LinkInv' /\ UpInv' /\ DownInv' /\ StartInv'
  BY DEF Answer, LinkInv, UpInv, DownInv, StartInv
<1> QED BY <1>1, <1>2 DEF InterfaceInv

(* The steps of the Dispatcher that up() and down() take: where they lead, and
   what start() has done to the socket by then. *)
LEMMA DriveControl ==
  ASSUME InterfaceInv, UNCHANGED <<kind, link, calm>>,
         bound' \in Binding(link.index),
         at' \in {"out", "starting", "stopping"},
         said' \in {"none", "up", "down", "error"},
         at' # "out" => said' = "none",
         at' # "out" => \/ at' = "starting" /\ at \in {"start", "starting"}
                        \/ at' = "stopping" /\ at \in {"stop", "stopping"},
         StartInv', UpInv', DownInv'
  PROVE  InterfaceInv'
<1>1. DeviceOK'
  BY DEF InterfaceInv, DeviceOK, Binding
<1>2. LinkInv'
  BY DEF InterfaceInv, LinkInv
<1> QED BY <1>1, <1>2 DEF InterfaceInv

LEMMA BeginKeeps ==
  ASSUME InterfaceInv, Up \/ Down
  PROVE  InterfaceInv'
<1>1. /\ at' \in {"exists", "unset"} /\ said' = "none" /\ calm' = TRUE
      /\ UNCHANGED <<kind, link, bound>>
  BY DEF Up, Down, Begin, Same
<1>2. DeviceOK'
  BY <1>1 DEF InterfaceInv, DeviceOK
<1>3. LinkInv' /\ UpInv' /\ DownInv' /\ StartInv'
  BY <1>1 DEF LinkInv, UpInv, DownInv, StartInv
<1> QED BY <1>2, <1>3 DEF InterfaceInv

LEMMA AskStep ==
  ASSUME InterfaceInv, TypeInv, Ask
  PROVE  InterfaceInv'
<1>d. DeviceOK
  BY DEF InterfaceInv
<1>u. UNCHANGED <<kind, calm>>
  BY DEF Ask
<1>i. link.index \in {0, link.index} /\ 0 \in {0, link.index}
  OBVIOUS
<1>s. Same => link' \in Links /\ bound' \in Binding(link'.index) /\ link'.up = link.up
  BY <1>d, SameDevice
<1>r. Rise => link' \in Links /\ bound' \in Binding(link'.index) /\ link'.up
  BY <1>d, RiseDevice
<1>p. Appear => link' \in Links /\ bound' \in Binding(link'.index)
  BY <1>d, AppearDevice
<1>f. Fall(link.index) => link' \in Links /\ bound' \in Binding(link'.index) /\ ~link'.up
  BY <1>d, <1>i, FallDevice
<1>1. CASE AskExists
  <2>1. Same
    BY <1>1 DEF AskExists
  <2>2. CASE Inside("exists", "set")
    BY <1>u, <1>s, <2>1, <2>2, AskProceeds
  <2>3. CASE kind.type = "VCAN" /\ Inside("exists", "create")
    BY <1>u, <1>s, <2>1, <2>3, AskProceeds
  <2>4. CASE Answer("exists", "error")
    BY <1>u, <1>s, <2>1, <2>4, AskFails
  <2> QED BY <1>1, <2>2, <2>3, <2>4 DEF AskExists
<1>2. CASE AskCreate
  <2>1. Same \/ Appear
    BY <1>2 DEF AskCreate
  <2>2. CASE Inside("create", "set")
    BY <1>u, <1>s, <1>p, <2>1, <2>2, AskProceeds
  <2>3. CASE Answer("create", "error")
    BY <1>u, <1>s, <1>p, <2>1, <2>3, AskFails
  <2> QED BY <1>2, <2>2, <2>3 DEF AskCreate
<1>3. CASE AskBitrate
  BY <1>3, <1>u, <1>f, AskProceeds DEF AskBitrate
<1>4. ASSUME NEW here \in {"set", "rate"}, AskSet(here) PROVE InterfaceInv'
  <2>1. CASE Inside(here, "start") /\ IF link.up THEN Same ELSE Rise
    BY <1>u, <1>s, <1>r, <2>1, AskProceeds
  <2>2. CASE Answer(here, "error") /\ (Same \/ Rise)
    BY <1>u, <1>s, <1>r, <2>2, AskFails
  <2> QED BY <1>4, <2>1, <2>2 DEF AskSet
<1>5. CASE AskUnset
  <2>1. CASE Inside("unset", "stop") /\ IF link.up THEN Fall(link.index) ELSE Same
    BY <1>u, <1>s, <1>f, <2>1, <1>d, AskProceeds DEF DeviceOK
  <2>2. CASE Answer("unset", "error") /\ (Same \/ Fall(link.index))
    BY <1>u, <1>s, <1>f, <2>2, AskFails
  <2> QED BY <1>5, <2>1, <2>2 DEF AskUnset
<1> QED BY <1>1, <1>2, <1>3, <1>4, <1>5 DEF Ask

(* dispatcher.start(). *)
LEMMA StartStepKeeps ==
  ASSUME InterfaceInv, TypeInv, (Start \/ Starting) /\ UNCHANGED <<kind, link, calm>>
  PROVE  InterfaceInv'
<1> USE DispatcherAssumption
<1>a. /\ pc \in [Threads -> AppPcs] /\ sock \in Sockets
      /\ bound \in Binding(link.index) /\ link \in Links
      /\ said \in {"none", "up", "down", "error"}
  BY DEF TypeInv, TypeOK, AppOK, KernelOK, InterfaceInv, DeviceOK, Binding, Links
<1>n. Unbound \in Binding(link.index)
  BY DEF Unbound, Binding
<1>q. at # "out" => said = "none"
  BY DEF InterfaceInv, LinkInv
<1>1. CASE Start
  <2>1. pc'[Owner] = "open"
    BY <1>1, <1>a DEF Start, StartClose, Goto
  <2>2. at = "start" /\ at' = "starting" /\ said' = said
    BY <1>1 DEF Start, Inside
  <2>3. bound' \in Binding(link.index)
    BY <1>1, <1>a, <1>n DEF Start
  <2>4. StartInv' /\ UpInv' /\ DownInv'
    BY <1>q, <2>1, <2>2 DEF StartInv, UpInv, DownInv
  <2> QED BY <1>a, <1>q, <2>2, <2>3, <2>4, DriveControl
<1>2. CASE Starting
  <2>1. at = "starting" /\ said = "none"
    BY <1>2, <1>q DEF Starting
  <2>2. LinkInv /\ StartInv
    BY DEF InterfaceInv
  <2>c. ASSUME bound' \in Binding(link.index),
               \/ at' = "starting" /\ said' = "none" /\ StartInv'
               \/ at' = "out" /\ said' = "error"
        PROVE InterfaceInv'
    <3>1. UpInv' /\ DownInv' /\ StartInv'
      BY <2>c DEF UpInv, DownInv, StartInv
    <3> QED BY <2>1, <2>c, <3>1, DriveControl
  <2>3. CASE Bind /\ Returns("error")
    <3>1. bound' \in Binding(link.index)
      <4>1. CASE sock'.fd \in Fds
        <5>1. PICK e \in BOOLEAN : e = ~link.up
          BY <1>a DEF Links
        <5>2. bound' = [index |-> link.index, err |-> e]
          BY <2>3, <4>1, <5>1, Zenon DEF Bind
        <5> QED BY <5>2 DEF Binding
      <4>2. CASE sock'.fd \notin Fds
        BY <2>3, <4>2, <1>n DEF Bind
      <4> QED BY <4>1, <4>2
    <3>2. CASE pc'[Owner] = "nonblock"
      <4>1. sock'.fd \in Fds
        BY <2>3, <3>2, <1>a DEF Bind, StartOpen, Goto, Return, NewSock
      <4>2. bound'.index = link.index
        BY <2>3, <4>1 DEF Bind
      <4>3. at' = "starting" /\ said' = "none"
        BY <2>1, <2>3, <3>2 DEF Returns
      <4>4. StartInv'
        BY <3>2, <4>2 DEF StartInv
      <4> QED BY <2>c, <3>1, <4>3, <4>4
    <3>3. CASE pc'[Owner] = "idle"
      BY <2>c, <2>3, <3>1, <3>3 DEF Returns
    <3> QED BY <2>3, <3>2, <3>3, <1>a DEF Bind, StartOpen, Goto, Return
  <2>4. CASE (((StartNonblock \/ StartAdd) /\ UNCHANGED bound) \/ Flush) /\ Returns("error")
    <3>1. bound' \in Binding(link.index) /\ bound'.index = bound.index
      <4>1. CASE Flush
        BY <2>4, <4>1, <1>a DEF Flush, Binding
      <4>2. CASE bound' = bound
        BY <4>2, <1>a
      <4> QED BY <2>4, <4>1, <4>2
    <3>2. pc[Owner] \in {"nonblock", "add", "flush"}
      BY <2>4 DEF StartNonblock, StartAdd, Flush, StartFlush, At
    <3>3. \/ pc'[Owner] = "idle"
          \/ pc'[Owner] = "add"
          \/ pc'[Owner] \in {"flush", "spawn"} /\ sock'.polled
      <4>1. CASE StartNonblock
        BY <4>1, <1>a DEF StartNonblock, Goto
      <4>2. CASE StartAdd
        BY <4>2, <1>a DEF StartAdd, Goto, Return, Sockets
      <4>3. CASE StartFlush
        <5>1. sock.polled
          BY <2>1, <2>2, <4>3 DEF StartFlush, StartInv, At
        <5>2. sock'.polled
          BY <4>3, <5>1, <1>a DEF StartFlush, Sockets
        <5>3. pc'[Owner] \in {"idle", "flush", "spawn"}
          BY <4>3, <1>a DEF StartFlush, Goto, Return, At
        <5> QED BY <5>2, <5>3
      <4> QED BY <2>4, <4>1, <4>2, <4>3 DEF Flush
    <3>4. CASE pc'[Owner] = "idle"
      BY <2>c, <2>4, <3>1, <3>4 DEF Returns
    <3>5. CASE pc'[Owner] # "idle"
      <4>1. at' = "starting" /\ said' = "none"
        BY <2>1, <2>4, <3>5 DEF Returns
      <4>2. StartInv'
        BY <2>1, <2>2, <3>1, <3>2, <3>3, <3>5 DEF StartInv
      <4> QED BY <2>c, <3>1, <4>1, <4>2
    <3> QED BY <3>4, <3>5
  <2>5. CASE StartSpawn /\ Returns("up") /\ UNCHANGED bound
    <3>1. pc[Owner] = "spawn" /\ pc'[Owner] = "idle" /\ sock' = sock
      BY <2>5, <1>a DEF StartSpawn, Return, Goto, At, kernel
    <3>2. at' = "out" /\ said' = "up"
      BY <2>5, <3>1 DEF Returns
    <3>3. reap_thread'.joinable
      BY <2>5 DEF StartSpawn, thread
    <3>4. sock.polled /\ (calm => bound.index = link.index /\ link.up)
      BY <2>1, <2>2, <3>1 DEF StartInv, LinkInv
    <3>5. StartInv' /\ UpInv' /\ DownInv'
      BY <2>5, <3>1, <3>2, <3>3, <3>4 DEF StartInv, UpInv, DownInv
    <3>6. bound' \in Binding(link.index)
      BY <2>5, <1>a
    <3> QED BY <3>2, <3>5, <3>6, DriveControl
  <2> QED
    BY <1>2, <2>3, <2>4, <2>5
    DEF Starting, Bind, StartOpen, Flush, StartFlush, StartNonblock, StartAdd, StartSpawn, At
<1> QED BY <1>1, <1>2

(* dispatcher.stop(). *)
LEMMA StopStepKeeps ==
  ASSUME InterfaceInv, TypeInv, QuietAfterStop,
         (Stop \/ StopProceeds) /\ UNCHANGED <<kind, link, calm>>
  PROVE  InterfaceInv'
<1> USE DispatcherAssumption
<1>a. pc \in [Threads -> AppPcs] /\ ReaperOK /\ bound \in Binding(link.index)
  BY DEF TypeInv, TypeOK, AppOK, InterfaceInv, DeviceOK, Binding
<1>q. /\ at # "out" => said = "none"
      /\ at \in {"stop", "stopping"} /\ calm => ~link.up
  BY DEF InterfaceInv, LinkInv
<1>b. bound' \in Binding(link.index)
  BY <1>a DEF Stop, StopProceeds
<1>c. ASSUME at \in {"stop", "stopping"},
             \/ at' = "stopping" /\ said' = "none"
             \/ at' = "out" /\ said' = "error"
             \/ at' = "out" /\ said' = "down" /\ reaper'.pc = "none"
      PROVE InterfaceInv'
  <2>1. StartInv' /\ UpInv' /\ DownInv'
    BY <1>c, <1>q DEF StartInv, UpInv, DownInv
  <2> QED BY <1>b, <1>c, <2>1, DriveControl
<1>1. CASE Stop
  <2>1. CASE ~reap_thread.joinable /\ Answer("stop", "down") /\ UNCHANGED vars
    <3>1. reaper'.pc = "none"
      BY <2>1 DEF QuietAfterStop, vars, thread
    <3> QED BY <1>c, <2>1, <3>1 DEF Answer
  <2>2. CASE Inside("stop", "stopping")
    BY <1>c, <1>q, <2>2 DEF Inside
  <2> QED BY <1>1, <2>1, <2>2 DEF Stop
<1>2. CASE StopProceeds
  <2>1. at = "stopping" /\ said = "none"
    BY <1>2, <1>q DEF StopProceeds
  <2>2. CASE pc'[Owner] # "idle"
    BY <1>2, <1>c, <2>1, <2>2 DEF StopProceeds, Returns
  <2>3. CASE pc'[Owner] = "idle" /\ Joining
    <3>1. StopJoin
      BY <1>2, <2>3 DEF StopProceeds, StopStep, StopWrite, Joining
    <3>2. reaper'.pc = "none"
      BY <3>1, <1>a DEF StopJoin, ReaperOK
    <3> QED BY <1>2, <1>c, <2>1, <2>3, <3>2 DEF StopProceeds, Returns
  <2>4. CASE pc'[Owner] = "idle" /\ ~Joining
    BY <1>2, <1>c, <2>1, <2>4 DEF StopProceeds, Returns
  <2> QED BY <2>2, <2>3, <2>4
<1> QED BY <1>1, <1>2

(* Steps of other programs. *)
LEMMA OutsideKeeps ==
  ASSUME InterfaceInv, TypeInv, Outside
  PROVE  InterfaceInv'
<1>d. DeviceOK
  BY DEF InterfaceInv
<1>1. link' \in Links /\ bound' \in Binding(link'.index) /\ Aside
  <2>1. CASE Fall(link.index) \/ Fall(0)
    BY <1>d, <2>1, FallDevice
  <2>2. CASE Rise BY <1>d, <2>2, RiseDevice
  <2>3. CASE Appear BY <1>d, <2>3, AppearDevice
  <2> QED BY <2>1, <2>2, <2>3 DEF Outside
<1>2. calm' = FALSE /\ UNCHANGED <<kind, at, said>>
  BY DEF Outside
<1>3. DeviceOK'
  BY <1>1, <1>2, <1>d DEF DeviceOK, Links, Binding
<1>4. LinkInv' /\ UpInv' /\ DownInv'
  BY <1>1, <1>2 DEF InterfaceInv, LinkInv, UpInv, DownInv, Aside
<1>5. StartInv'
  BY <1>1, <1>2 DEF InterfaceInv, StartInv, Aside, Opened
<1> QED BY <1>3, <1>4, <1>5 DEF InterfaceInv

(* The destructor runs when no call is under way, and withdraws what was said. *)
LEMMA DestructsKeeps ==
  ASSUME InterfaceInv, Destructs
  PROVE  InterfaceInv'
<1>1. at' = "out" /\ said' = "none" /\ UNCHANGED <<kind, link, calm>>
  BY DEF Destructs
<1>2. DeviceOK'
  BY <1>1 DEF Destructs, InterfaceInv, DeviceOK, Unbound
<1>3. LinkInv' /\ UpInv' /\ DownInv' /\ StartInv'
  BY <1>1 DEF LinkInv, UpInv, DownInv, StartInv
<1> QED BY <1>2, <1>3 DEF InterfaceInv

(* The inductive invariant: what is true of the link, the socket and the reaper
   at every point of up() and down(), and what is left of it between calls. *)
THEOREM InterfaceInvariant == InterfaceSpec => []InterfaceInv
<1>1. InterfaceInit => InterfaceInv
  <2> SUFFICES ASSUME InterfaceInit PROVE InterfaceInv
    OBVIOUS
  <2>1. link \in Links
    <3>1. PICK e \in BOOLEAN : e = FALSE
      OBVIOUS
    <3>2. \/ link = [index |-> 0, up |-> e, created |-> 0]
          \/ link = [index |-> 1, up |-> e, created |-> 1]
      BY <3>1, Zenon DEF InterfaceInit
    <3> QED BY <3>2, InterfaceAssumption DEF Links
  <2>2. bound \in Binding(link.index)
    BY DEF InterfaceInit, Unbound, Binding
  <2>3. DeviceOK
    BY <2>1, <2>2 DEF InterfaceInit, DeviceOK, Links, Binding
  <2>4. LinkInv /\ StartInv /\ UpInv /\ DownInv
    BY DEF InterfaceInit, LinkInv, StartInv, UpInv, DownInv
  <2> QED BY <2>3, <2>4 DEF InterfaceInv
<1>2. InterfaceInv /\ DispatcherFacts /\ [InterfaceNext]_ivars => InterfaceInv'
  <2> SUFFICES ASSUME InterfaceInv, DispatcherFacts, [InterfaceNext]_ivars PROVE InterfaceInv'
    OBVIOUS
  <2>a. TypeInv /\ QuietAfterStop
    BY DEF DispatcherFacts
  <2>b. bound \in Binding(link.index)
    BY DEF InterfaceInv, DeviceOK, Binding
  <2>k. ASSUME Aside, UNCHANGED <<kind, at, said, link, bound, calm>> PROVE InterfaceInv'
    BY <2>b, <2>k, AsideKeeps
  <2>1. CASE Up \/ Down BY <2>1, BeginKeeps
  <2>2. CASE Ask BY <2>2, <2>a, AskStep
  <2>3. CASE Drive BY <2>3, <2>a, StartStepKeeps, StopStepKeeps DEF Drive
  <2>4. CASE Reap
    <3>1. Aside
      BY <2>4, <2>a, ReaperIsAside DEF Reap
    <3>2. bound' \in Binding(link.index) /\ bound'.index = bound.index
      BY <2>4, <2>b DEF Reap, Binding
    <3> QED BY <2>4, <3>1, <3>2, AsideKeeps DEF Reap
  <2>5. CASE Receive BY <2>5, <2>a, <2>k, BusIsAside DEF Receive
  <2>6. CASE Dies BY <2>6, <2>k, DiesIsAside DEF Dies
  <2>7. CASE Destructs BY <2>7, DestructsKeeps
  <2>8. ASSUME NEW t \in Threads, Registers(t) PROVE InterfaceInv'
    BY <2>8, <2>a, <2>k, RegistersIsAside DEF Registers
  <2>9. CASE Outside BY <2>9, <2>a, OutsideKeeps
  <2>10. CASE UNCHANGED ivars BY <2>10, <2>k, UnchangedIsAside DEF ivars
  <2> QED BY <2>1, <2>2, <2>3, <2>4, <2>5, <2>6, <2>7, <2>8, <2>9, <2>10 DEF InterfaceNext
<1> QED BY <1>1, <1>2, InterfaceFacts, PTL DEF InterfaceSpec

(* Type correctness: the socket is bound to the device that is there or to none,
   whoever removes and creates it, and only a VCAN link is created by up(). *)
THEOREM InterfaceTypeCorrect == InterfaceSpec => []InterfaceTypeOK
<1>1. InterfaceInv /\ DispatcherFacts => InterfaceTypeOK
  BY DEF InterfaceInv, DeviceOK, DispatcherFacts, TypeInv, InterfaceTypeOK
<1> QED BY <1>1, InterfaceInvariant, InterfaceFacts, PTL

(* What Interface::up() promises: after it has answered success, and as long as
   nobody else touches the link, the link is up and a reaper that nobody has
   told to exit polls a socket bound to that link. *)
THEOREM UpCorrect == InterfaceSpec => []UpMeansReceiving
<1>1. InterfaceInv /\ DispatcherFacts => UpMeansReceiving
  BY DEF InterfaceInv, UpInv, DispatcherFacts, ReaperLives, UpMeansReceiving, Serving
<1> QED BY <1>1, InterfaceInvariant, InterfaceFacts, PTL

(* What Interface::down() promises: after it has answered success no callback
   runs, and the link is down unless another program has put it up again. *)
THEOREM DownCorrect == InterfaceSpec => []DownMeansQuiet
<1>1. InterfaceInv => DownMeansQuiet
  BY DEF InterfaceInv, DownInv, DownMeansQuiet
<1> QED BY <1>1, InterfaceInvariant, PTL
=============================================================================
