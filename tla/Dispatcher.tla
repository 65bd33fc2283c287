----------------------------- MODULE Dispatcher -----------------------------
(***************************************************************************)
(* HyCAN::Dispatcher: the object that owns the reaper thread of a CAN      *)
(* interface.  Application threads register callbacks in a table guarded   *)
(* by a spin lock; one of them, the owner, starts and stops the reaper.    *)
(* The reaper waits in epoll on two descriptors, the CAN socket and the    *)
(* eventfd that stop() writes, reads what is ready as a can_frame and runs *)
(* the callback registered for its can_id.                                 *)
(*                                                                         *)
(* Every step is one system call or one access to shared memory.  The CAN  *)
(* socket (Socket.cpp) is part of the state, because start() replaces it   *)
(* while a reaper that is already running may be reading it.               *)
(***************************************************************************)
EXTENDS Integers, Sequences

CONSTANTS
  Threads,     \* application threads
  Owner,       \* the thread that calls start() and stop()
  Callbacks,   \* the functions that can be registered
  NoFunc,      \* an empty std::function
  MaxId,       \* HC_MAX_STD_CAN_ID, the length of funcs
  IdSets,      \* the arguments can_ids of register_func
  BusIds,      \* the can_id of the frames other nodes put on the bus
  Fds,         \* the descriptors socket() may return; 0 is one of them when
               \* ~Socket has closed it
  EventFd,     \* thread_event_fd
  MaxFrames,   \* bound: frames on the bus in one behaviour
  MaxWakeups   \* bound: unread stop() notifications in the eventfd

ASSUME DispatcherAssumption ==
  /\ Owner \in Threads
  /\ MaxId \in Nat \ {0}
  /\ IdSets \subseteq SUBSET Nat
  /\ BusIds \subseteq Nat
  /\ Fds \subseteq Nat
  /\ EventFd \in Nat \ (Fds \cup {0})

VARIABLES
  lock_,        \* the spin lock's flag
  funcs,        \* the callback table
  pc,           \* where each application thread is
  call,         \* the arguments of the register_func it is in: ids not stored
                \* yet, the callback
  reap_thread,  \* the jthread: joinable(), stop_requested()
  reaper,       \* its body: where it is, the ready descriptors not looked at
                \* yet, the one being read, the frame read
  wakeups,      \* the eventfd's counter
  sock,         \* the CAN socket: its number, O_NONBLOCK not set yet, in epoll,
                \* receive queue
  twin,         \* an earlier one that start() did not close, because its number
                \* is 0
  sent,         \* frames put on the bus so far
  ghost         \* history: the last bus frame looked up in the table; of this
                \* reaper, whether it found the eventfd non-zero when it was
                \* started, how often it has read it, and whether no stale
                \* notification was left when stop() was called; whether start()
                \* has ever left a twin

table  == <<lock_, funcs>>
app    == <<pc, call>>
thread == <<reap_thread, reaper, ghost>>
kernel == <<wakeups, sock, twin, sent>>
vars   == <<table, app, thread, kernel>>

Ids == 0..(MaxId - 1)

(* seq numbers the frames of the bus from 1; what the reaper reads from the
   eventfd has seq 0. *)
Frames  == [id : Nat, seq : Nat]
NoFrame == [id |-> 0, seq |-> 0]

NewSock(fd, blocking) ==
  [fd |-> fd, blocking |-> blocking, polled |-> FALSE, rx |-> <<>>]
NoSock == NewSock(-1, FALSE)

(* The open sockets of that number, none or one. *)
Open(fd) == {s \in {sock, twin} : s.fd = fd}

NoCall == [ids |-> {}, cb |-> NoFunc]

Init ==
  /\ lock_ = FALSE
  /\ funcs = [i \in Ids |-> NoFunc]
  /\ pc = [t \in Threads |-> "idle"]
  /\ call = [t \in Threads |-> NoCall]
  /\ reap_thread = [joinable |-> FALSE, stop |-> FALSE]
  /\ reaper = [pc |-> "none", events |-> {}, cur |-> EventFd, frame |-> NoFrame]
  /\ wakeups = 0
  /\ sock = NoSock /\ twin = NoSock
  /\ sent = 0
  /\ ghost = [last |-> 0, left |-> FALSE, reads |-> 0, clean |-> TRUE, doubled |-> FALSE]

At(t, at)   == pc[t] = at
Goto(t, to) == pc' = [pc EXCEPT ![t] = to]
Return(t)   == Goto(t, "idle")

Noted(left, reads, clean) ==
  [ghost EXCEPT !.left = left, !.reads = reads, !.clean = clean]

-----------------------------------------------------------------------------
(***************************************************************************)
(* register_func, called by any application thread.                        *)
(***************************************************************************)
CallRegister(t, ids, cb) ==
  /\ At(t, "idle") /\ Goto(t, "spin")
  /\ call' = [call EXCEPT ![t] = [ids |-> ids, cb |-> cb]]
  /\ UNCHANGED <<table, thread, kernel>>

Leave(t) == Return(t) /\ call' = [call EXCEPT ![t] = NoCall]

\* Mutant of RegisterLock: the flag is set without testing it.
RegisterNoLock(t) ==
  /\ At(t, "spin") /\ Goto(t, "store")
  /\ lock_' = TRUE
  /\ UNCHANGED <<call, funcs, thread, kernel>>

RegisterLock(t) ==
  /\ At(t, "spin") /\ Goto(t, "store")
  /\ ~lock_
  /\ lock_' = TRUE
  /\ UNCHANGED <<call, funcs, thread, kernel>>

\* Mutant of RegisterStore: the lock is taken for each id, not for all of them.
RegisterStoreEach(t) ==
  /\ At(t, "store") /\ Goto(t, "spin")
  /\ \E id \in call[t].ids :
       /\ \A other \in call[t].ids : id <= other
       /\ id < MaxId
       /\ funcs' = [funcs EXCEPT ![id] = call[t].cb]
       /\ call' = [call EXCEPT ![t].ids = @ \ {id}]
  /\ lock_' = FALSE
  /\ UNCHANGED <<thread, kernel>>

(* The ids are visited in increasing order; the first one that is too large
   ends the call, and the lock is not released on that path. *)
RegisterStore(t) ==
  /\ At(t, "store")
  /\ \E id \in call[t].ids :
       /\ \A other \in call[t].ids : id <= other
       /\ \/ id >= MaxId /\ Leave(t) /\ UNCHANGED funcs
          \/ /\ id < MaxId
             /\ funcs' = [funcs EXCEPT ![id] = call[t].cb]
             /\ call' = [call EXCEPT ![t].ids = @ \ {id}]
             /\ UNCHANGED pc
  /\ UNCHANGED <<lock_, thread, kernel>>

RegisterUnlock(t) ==
  /\ At(t, "store") /\ Leave(t)
  /\ call[t].ids = {}
  /\ lock_' = FALSE
  /\ UNCHANGED <<funcs, thread, kernel>>

-----------------------------------------------------------------------------
(***************************************************************************)
(* start(): a new CAN socket, bound, made non-blocking, added to epoll and *)
(* flushed; then the reaper, unless there is one already.                  *)
(***************************************************************************)
ReaperAt(at, events, cur, frame) ==
  [pc |-> at, events |-> events, cur |-> cur, frame |-> frame]

Got(f) == ReaperAt("lock", reaper.events, EventFd, f)
Orphan == ReaperAt("orphan", reaper.events, EventFd, NoFrame)

Blocked(fd) == reaper.pc = "blocked" /\ reaper.cur = fd

(* close() of a socket.  epoll forgets it; a read that waits in it keeps it alive
   and returns with its next frame. *)
Cut(s) ==
  reaper' = IF ~Blocked(s.fd) THEN reaper
            ELSE IF s.rx = <<>> THEN Orphan ELSE Got(Head(s.rx))

\* Mutant of StartClose: the old socket is closed by its destructor later on,
\* so it stays in the epoll set.
StartForget ==
  /\ At(Owner, "idle") /\ Goto(Owner, "open")
  /\ sock' = [sock EXCEPT !.fd = -1]
  /\ UNCHANGED <<call, table, thread, wakeups, twin, sent>>

\* Mutant of StartClose: a socket that is connected is kept.
StartKeep ==
  /\ At(Owner, "idle")
  /\ Goto(Owner, IF sock.fd > 0 THEN "flush" ELSE "open")
  /\ UNCHANGED <<call, table, thread, kernel>>

\* Mutant of StartClose: a socket is left open whatever its number.
StartLeave ==
  /\ At(Owner, "idle") /\ Goto(Owner, "open")
  /\ sock' = NoSock /\ twin' = IF sock.fd = -1 THEN twin ELSE sock
  /\ ghost' = [ghost EXCEPT !.doubled = @ \/ sock.fd = 0]
  /\ UNCHANGED <<call, table, reap_thread, reaper, wakeups, sent>>

(* ensure_connected closes the socket it has, unless its number is 0: then the
   socket stays open and in the epoll set. *)
StartClose ==
  /\ At(Owner, "idle") /\ Goto(Owner, "open")
  /\ sock' = NoSock
  /\ \/ sock.fd # 0 /\ Cut(sock) /\ UNCHANGED <<twin, ghost>>
     \/ /\ sock.fd = 0
        /\ twin' = sock
        /\ ghost' = [ghost EXCEPT !.doubled = TRUE]
        /\ UNCHANGED reaper
  /\ UNCHANGED <<call, table, reap_thread, wakeups, sent>>

(* ~Socket of another object that has never been connected closes number 0,
   whatever it is: here, a socket of this Dispatcher. *)
CloseZero ==
  /\ \/ sock.fd = 0 /\ sock' = NoSock /\ Cut(sock) /\ UNCHANGED twin
     \/ twin.fd = 0 /\ twin' = NoSock /\ Cut(twin) /\ UNCHANGED sock
  /\ UNCHANGED <<table, app, reap_thread, ghost, wakeups, sent>>

(* socket(), ioctl(SIOCGIFINDEX) and bind(); a failure of any of them leaves
   no socket. *)
StartOpen ==
  /\ At(Owner, "open")
  /\ \/ /\ \E fd \in Fds \ {twin.fd} : sock' = NewSock(fd, TRUE)
        /\ Goto(Owner, "nonblock")
     \/ sock' = NoSock /\ Return(Owner)
  /\ UNCHANGED <<call, table, thread, wakeups, twin, sent>>

StartNonblock ==
  /\ At(Owner, "nonblock") /\ Goto(Owner, "add")
  /\ sock' = [sock EXCEPT !.blocking = FALSE]
  /\ UNCHANGED <<call, table, thread, wakeups, twin, sent>>

StartAdd ==
  /\ At(Owner, "add")
  /\ \/ /\ sock.fd # -1
        /\ sock' = [sock EXCEPT !.polled = TRUE] /\ Goto(Owner, "flush")
     \/ UNCHANGED sock /\ Return(Owner)                        \* EpollError
  /\ UNCHANGED <<call, table, thread, wakeups, twin, sent>>

(* One read of Socket::flush: a frame to drop; EAGAIN or, whatever is queued,
   ENETDOWN, which end it; any other error, which ends start(), as EBADF does
   when somebody has closed the socket. *)
StartFlush ==
  /\ At(Owner, "flush")
  /\ \/ /\ sock.rx # <<>>
        /\ sock' = [sock EXCEPT !.rx = Tail(@)]
        /\ UNCHANGED pc
     \/ sock.fd # -1 /\ UNCHANGED sock /\ Goto(Owner, "spawn")
     \/ UNCHANGED sock /\ Return(Owner)
  /\ UNCHANGED <<call, table, thread, wakeups, twin, sent>>

StartSpawn ==
  /\ At(Owner, "spawn") /\ Return(Owner)
  /\ \/ /\ ~reap_thread.joinable
        /\ reap_thread' = [joinable |-> TRUE, stop |-> FALSE]
        /\ reaper' = [reaper EXCEPT !.pc = "loop"]
        /\ ghost' = Noted(wakeups > 0, 0, wakeups = 0)
     \/ reap_thread.joinable /\ UNCHANGED thread
  /\ UNCHANGED <<call, table, kernel>>

-----------------------------------------------------------------------------
(***************************************************************************)
(* stop(): request_stop(), one write to the eventfd, join().  When there   *)
(* is no thread to stop the call returns at once.  The destructor calls it *)
(* too, and goes on whatever it answers.                                   *)
(***************************************************************************)
\* Mutant of StopRequest: the thread is woken, but the stop token is not set.
StopNoRequest ==
  /\ At(Owner, "idle") /\ Goto(Owner, "write")
  /\ reap_thread.joinable /\ wakeups < MaxWakeups
  /\ UNCHANGED <<call, table, thread, kernel>>

StopRequest ==
  /\ At(Owner, "idle") /\ Goto(Owner, "write")
  /\ reap_thread.joinable /\ wakeups < MaxWakeups
  /\ reap_thread' = [reap_thread EXCEPT !.stop = TRUE]
  /\ UNCHANGED <<call, table, reaper, ghost, kernel>>

Joining     == pc[Owner] \in {"join", "dtor_join"}
StopReturn  == Goto(Owner, IF pc[Owner] \in {"write", "join"} THEN "idle" ELSE "dtor_close")
AwaitReaper == Goto(Owner, IF At(Owner, "write") THEN "join" ELSE "dtor_join")

\* Mutant of StopWrite: the stop token is set, but the thread is not woken.
StopNoWrite ==
  /\ pc[Owner] \in {"write", "dtor_write"} /\ AwaitReaper
  /\ UNCHANGED <<call, table, thread, kernel>>

StopWrite ==
  /\ pc[Owner] \in {"write", "dtor_write"}
  /\ \/ wakeups' = wakeups + 1 /\ AwaitReaper
     \/ UNCHANGED wakeups /\ StopReturn                   \* ReaperStopError
  /\ UNCHANGED <<call, table, thread, sock, twin, sent>>

\* Mutant of StopJoin: detach() instead of join().
StopDetach ==
  /\ Joining /\ StopReturn
  /\ reap_thread' = [reap_thread EXCEPT !.joinable = FALSE]
  /\ UNCHANGED <<call, table, reaper, ghost, kernel>>

StopJoin ==
  /\ Joining /\ StopReturn
  /\ reaper.pc = "exited"
  /\ reap_thread' = [reap_thread EXCEPT !.joinable = FALSE]
  /\ reaper' = [reaper EXCEPT !.pc = "none"]
  /\ UNCHANGED <<call, table, ghost, kernel>>

-----------------------------------------------------------------------------
(***************************************************************************)
(* ~Dispatcher(): stop(), close() of epoll_fd and of thread_event_fd, then *)
(* the members: the jthread joins what stop() left running, and the socket *)
(* is closed.  Nobody else uses the object by then.                        *)
(***************************************************************************)
Destroy ==
  /\ \A t \in Threads : At(t, "idle")
  /\ wakeups < MaxWakeups
  /\ pc' = [t \in Threads |-> IF t # Owner THEN "gone"
                             ELSE IF reap_thread.joinable THEN "dtor_write" ELSE "dtor_close"]
  /\ reap_thread' = [reap_thread EXCEPT !.stop = @ \/ reap_thread.joinable]
  /\ UNCHANGED <<call, table, reaper, ghost, kernel>>

DestroyClose ==
  /\ At(Owner, "dtor_close") /\ Goto(Owner, "dtor_reap")
  /\ UNCHANGED <<call, table, thread, kernel>>

Closed == pc[Owner] \in {"dtor_reap", "gone"}

DestroyReap ==
  /\ At(Owner, "dtor_reap") /\ Goto(Owner, "gone")
  /\ reap_thread.joinable => reaper.pc = "exited"
  /\ reap_thread' = [reap_thread EXCEPT !.joinable = FALSE]
  /\ reaper' = [reaper EXCEPT !.pc = "none"]
  /\ sock' = NoSock
  /\ UNCHANGED <<call, table, ghost, wakeups, twin, sent>>

-----------------------------------------------------------------------------
(***************************************************************************)
(* reap_process.                                                           *)
(***************************************************************************)
Loop     == ReaperAt("loop", reaper.events, EventFd, NoFrame)
Exit     == ReaperAt("exited", {}, EventFd, NoFrame)
Take(fd) == ReaperAt("read", reaper.events \ {fd}, fd, NoFrame)

(* What epoll_wait reports with EPOLLIN.  An event without it changes nothing. *)
Ready ==
  {fd \in {EventFd, sock.fd, twin.fd} :
     \/ fd = EventFd /\ wakeups > 0 /\ ~Closed
     \/ \E s \in Open(fd) : s.polled /\ s.rx # <<>>}

EpollWait ==
  /\ reaper.pc = "loop" /\ reaper.events = {}
  /\ Ready # {}
  /\ reaper' = [reaper EXCEPT !.events = Ready]
  /\ UNCHANGED <<table, app, reap_thread, ghost, kernel>>

(* epoll_wait fails: with EINTR, and without a stop request the loop goes on; or
   with EBADF, unless the reaper was inside when epoll_fd was closed. *)
EpollInterrupted ==
  /\ reaper.pc = "loop" /\ reaper.events = {}
  /\ reap_thread.stop
  /\ reaper' = Exit
  /\ UNCHANGED <<table, app, reap_thread, ghost, kernel>>

\* Mutant of CheckEvent: the stop token is not consulted.
CheckEventNoStop(fd) ==
  /\ reaper.pc = "loop"
  /\ reaper' = Take(fd)
  /\ UNCHANGED <<table, app, reap_thread, ghost, kernel>>

CheckEvent(fd) ==
  /\ reaper.pc = "loop"
  /\ reaper' = IF fd = EventFd /\ reap_thread.stop THEN Exit ELSE Take(fd)
  /\ UNCHANGED <<table, app, reap_thread, ghost, kernel>>

(* read() fills a can_frame from the 8-byte counter: the count becomes its
   can_id, and the counter is reset. *)
ReadEventFd ==
  /\ reaper.pc = "read" /\ reaper.cur = EventFd
  /\ \/ /\ ~Closed
        /\ reaper' = Got([id |-> wakeups, seq |-> 0])
        /\ wakeups' = 0
        /\ ghost' = Noted(ghost.left, ghost.reads + 1, ghost.clean \/ ~reap_thread.stop)
     \/ Closed /\ reaper' = Loop /\ UNCHANGED <<wakeups, ghost>>     \* EBADF
  /\ UNCHANGED <<table, app, reap_thread, sock, twin, sent>>

ReadFrom(s) == s.fd = reaper.cur /\ s.rx # <<>> /\ reaper' = Got(Head(s.rx))

ReadFrame ==
  \/ ReadFrom(sock) /\ sock' = [sock EXCEPT !.rx = Tail(@)] /\ UNCHANGED twin
  \/ ReadFrom(twin) /\ twin' = [twin EXCEPT !.rx = Tail(@)] /\ UNCHANGED sock

(* The event may be older than the socket: start() may have closed that
   descriptor, and the number may be in use again by a socket that has nothing
   to read. *)
ReadSocket ==
  /\ reaper.pc = "read" /\ reaper.cur # EventFd
  /\ \/ ReadFrame
     \/ /\ \A s \in Open(reaper.cur) : s.rx = <<>>
        /\ reaper' = IF \E s \in Open(reaper.cur) : s.blocking
                     THEN [reaper EXCEPT !.pc = "blocked"] ELSE Loop  \* EBADF, EAGAIN
        /\ UNCHANGED <<sock, twin>>
  /\ UNCHANGED <<table, app, reap_thread, ghost, wakeups, sent>>

(* A read that found the socket still blocking returns with the next frame,
   whatever fcntl sets later. *)
ReadResumes ==
  /\ reaper.pc = "blocked" /\ ReadFrame
  /\ UNCHANGED <<table, app, reap_thread, ghost, wakeups, sent>>

(* The device went down or was removed: the read fails. *)
ReadFails ==
  /\ \/ reaper.pc = "read" /\ reaper.cur # EventFd
     \/ reaper.pc \in {"blocked", "orphan"}
  /\ reaper' = Loop
  /\ UNCHANGED <<table, app, reap_thread, ghost, kernel>>

DispatchLock ==
  /\ reaper.pc = "lock"
  /\ ~lock_
  /\ lock_' = TRUE
  /\ reaper' = [reaper EXCEPT !.pc = "cs"]
  /\ UNCHANGED <<funcs, app, reap_thread, ghost, kernel>>

LookedUp ==
  ghost' = IF reaper.frame.seq = 0 THEN ghost
           ELSE [ghost EXCEPT !.last = reaper.frame.seq]

\* Mutant of Dispatch: the lock is kept after the callback.
DispatchNoUnlock ==
  /\ reaper.pc = "cs"
  /\ LookedUp
  /\ reaper' = Loop
  /\ UNCHANGED <<table, app, reap_thread, kernel>>

(* The callback, if there is one, runs under the lock, which is then released.
   An index outside funcs is undefined: what lies there passes for an empty
   function, or the process dies. *)
Dispatch ==
  /\ reaper.pc = "cs"
  /\ LookedUp
  /\ reaper' = Loop
  /\ lock_' = FALSE
  /\ UNCHANGED <<funcs, app, reap_thread, kernel>>

Crash ==
  /\ reaper.pc = "cs" /\ reaper.frame.id \notin Ids
  /\ reaper' = ReaperAt("crashed", {}, EventFd, NoFrame)
  /\ pc' = [t \in Threads |-> "dead"]
  /\ sock' = NoSock /\ twin' = NoSock
  /\ UNCHANGED <<table, call, reap_thread, ghost, wakeups, sent>>

-----------------------------------------------------------------------------
(* The bus (external).  The device drops a frame, or every socket bound to it
   gets it: the current one, and the closed one that a read still holds.  The twin
   may be bound to a device that is gone. *)
With(s, f) == IF s.fd \in Fds THEN [s EXCEPT !.rx = Append(@, f)] ELSE s

BusFrame(id) ==
  LET f == [id |-> id, seq |-> sent + 1] IN
  /\ sent < MaxFrames
  /\ sent' = sent + 1
  /\ \/ /\ sock' = With(sock, f)
        /\ reaper' = IF reaper.pc = "orphan" THEN Got(f) ELSE reaper
        /\ twin' \in {twin, With(twin, f)}
     \/ UNCHANGED <<sock, twin, reaper>>
  /\ UNCHANGED <<table, app, reap_thread, ghost, wakeups>>

-----------------------------------------------------------------------------
Register(t) == RegisterLock(t) \/ RegisterStore(t) \/ RegisterUnlock(t)

StartStep == StartOpen \/ StartNonblock \/ StartAdd \/ StartFlush \/ StartSpawn

StopStep == StopWrite \/ StopJoin

DestroyStep == DestroyClose \/ DestroyReap

Reaper ==
  \/ EpollWait
  \/ \E fd \in reaper.events : CheckEvent(fd)
  \/ ReadEventFd \/ ReadSocket \/ ReadResumes
  \/ DispatchLock \/ Dispatch

Next ==
  \/ \E t \in Threads, ids \in IdSets, cb \in Callbacks : CallRegister(t, ids, cb)
  \/ \E t \in Threads : Register(t)
  \/ StartClose \/ StartStep
  \/ StopRequest \/ StopStep
  \/ Destroy \/ DestroyStep
  \/ Reaper \/ EpollInterrupted \/ ReadFails \/ Crash
  \/ \E id \in BusIds : BusFrame(id)
  \/ CloseZero

(* Every thread that can take a step takes one: the callers finish the calls
   they have begun, but nobody has to call anything, no signal has to arrive,
   no read has to fail and the bus may stay silent.  The spin lock is not fair:
   no thread is promised that it gets it. *)
Fairness ==
  /\ \A t \in Threads : WF_vars(Register(t))
  /\ WF_vars(StartStep) /\ WF_vars(StopStep) /\ WF_vars(DestroyStep)
  /\ WF_vars(Reaper)

Spec     == Init /\ [][Next]_vars
FairSpec == Spec /\ Fairness

-----------------------------------------------------------------------------
(***************************************************************************)
(* Properties.                                                             *)
(***************************************************************************)
AppPcs == {"idle", "spin", "store", "open", "nonblock", "add", "flush", "spawn",
           "write", "join", "dtor_write", "dtor_join", "dtor_close", "dtor_reap",
           "gone", "dead"}

TableOK ==
  /\ lock_ \in BOOLEAN
  /\ funcs \in [Ids -> Callbacks \cup {NoFunc}]

AppOK ==
  /\ pc \in [Threads -> AppPcs]
  /\ call \in [Threads -> [ids : SUBSET Nat, cb : Callbacks \cup {NoFunc}]]

ReaperOK ==
  reaper \in [pc : {"none", "loop", "read", "blocked", "orphan", "lock", "cs",
                   "exited", "crashed"},
              events : SUBSET (Fds \cup {EventFd}),
              cur : Fds \cup {EventFd}, frame : Frames]

ThreadOK ==
  /\ reap_thread \in [joinable : BOOLEAN, stop : BOOLEAN]
  /\ ghost \in [last : Nat, left : BOOLEAN, reads : Nat, clean : BOOLEAN,
                doubled : BOOLEAN]

Sockets ==
  [fd : Fds \cup {-1}, blocking : BOOLEAN, polled : BOOLEAN, rx : Seq(Frames)]

KernelOK ==
  /\ wakeups \in Nat
  /\ sock \in Sockets /\ twin \in Sockets
  /\ sent \in Nat

(* The variables keep their types; in particular epoll only ever reports the
   eventfd or the descriptor of a CAN socket (reap_process). *)
TypeOK == TableOK /\ AppOK /\ ReaperOK /\ ThreadOK /\ KernelOK

(* No callback runs while register_func writes the table, and no two threads
   write it at once: what lock_ is for. *)
MutualExclusion ==
  /\ \A t, u \in Threads : At(t, "store") /\ At(u, "store") => t = u
  /\ \A t \in Threads : ~(At(t, "store") /\ reaper.pc = "cs")

(* When stop() has joined the thread there is no reaper any more, so no callback
   runs until the next start(); no two reapers ever serve one Dispatcher, and
   none outlives the members it uses, also when the destructor's stop() failed. *)
QuietAfterStop ==
  ~reap_thread.joinable \/ At(Owner, "gone") => reaper.pc = "none"

(* stop() cannot be missed by a reaper that has no stale notification in front
   of it: while the caller waits in join(), the new one is still in the eventfd
   or the reaper has left its loop. *)
StopNotLost ==
  ghost.clean /\ Joining => wakeups > 0 \/ reaper.pc = "exited"

(* A reaper takes the eventfd's counter for a frame at most once, and only if it
   was started with a notification that its predecessor had left unread. *)
AtMostOnePhantom == ghost.reads <= (IF ghost.left THEN 1 ELSE 0)

(* Frames reach the callbacks in the order of the bus, also across start() calls
   that replace the socket under a running reaper, whether or not the new one gets
   the number of the old one.  The exception is a start() that has found its socket
   numbered 0, which ensure_connected does not close: two sockets are read from
   then on. *)
InOrder == [][ghost.doubled \/ ghost'.last >= ghost.last]_ghost

(* How many more steps the reaper takes at most until it has left its loop, when
   the eventfd is non-zero and the stop token set: it may be inside a read or a
   callback, and a frame of each socket, the one numbered 0 and another, may be
   among the events it has been told of. *)
LoopRank(events) ==
  (IF EventFd \in events THEN 1 ELSE 14) + (IF 0 \in events THEN 6 ELSE 0)
    + (IF events \subseteq {EventFd, 0} THEN 0 ELSE 6)

ReaperRank(r) ==
  CASE r.pc = "loop" -> LoopRank(r.events)
    [] r.pc = "read" -> LoopRank(r.events) + 5
    [] r.pc = "blocked" -> LoopRank(r.events) + 4
    [] r.pc = "orphan" -> LoopRank(r.events) + 3
    [] r.pc = "lock" -> LoopRank(r.events) + 2
    [] r.pc = "cs" -> LoopRank(r.events) + 1
    [] OTHER -> 0

(* While stop() waits in join(), every step of a reaper that has no stale
   notification in front of it brings it nearer to the end of its loop: frames that
   keep arriving, failing reads and a socket that start() replaced cannot make it
   go round for ever.  With StopNotLost this is why such a stop() returns. *)
StopAdvances ==
  [][Joining /\ Joining' /\ ghost.clean /\ reaper' # reaper
       => ReaperRank(reaper') < ReaperRank(reaper)]_vars

(* What the application sees of all this.  A registration counts from the moment in
   which it has the lock: no one else looks at the table before it is done.  The lock
   is lost when it is taken by a registration that will fail, or by nobody. *)
Storing(t, i) == At(t, "store") /\ i \in call[t].ids

Entries ==
  [i \in Ids |-> IF \E t \in Threads : Storing(t, i)
                THEN call[CHOOSE t \in Threads : Storing(t, i)].cb ELSE funcs[i]]

Jammed ==
  /\ lock_ /\ reaper.pc # "cs"
  /\ \A t \in Threads : At(t, "store") => \E i \in call[t].ids : i >= MaxId

Phantom ==
  /\ reap_thread.joinable
  /\ \/ ghost.left /\ ghost.reads = 0
     \/ reaper.pc = "lock" /\ reaper.frame.seq = 0

Lookup ==
  IF reaper.pc = "cs"
  THEN [id |-> reaper.frame.id, seq |-> reaper.frame.seq,
        cb |-> IF reaper.frame.id \in Ids THEN funcs[reaper.frame.id] ELSE NoFunc,
        running |-> TRUE]
  ELSE [id |-> 0, seq |-> 0, cb |-> NoFunc, running |-> FALSE]

Service == INSTANCE DispatcherService WITH
  entries <- Entries, jammed <- Jammed, active <- reap_thread.joinable,
  phantom <- Phantom, current <- Lookup, last <- ghost.last, doubled <- ghost.doubled

(* The Dispatcher implements DispatcherService: a registration of several ids, which
   stores them one by one, and a look-up, which another thread and a replacement of
   the socket may precede, both happen at one moment. *)
Implements == Service!Spec

NoRegistration == \A t \in Threads : pc[t] \notin {"spin", "store"}

(* Once registrations cease, a frame the reaper has read gets past the lock: the
   callback registered for its id runs (reap_process). *)
DispatchProgress ==
  <>[]NoRegistration => (reaper.pc = "lock" ~> reaper.pc # "lock")

(* Once registrations cease, stop() returns, to its caller or to the destructor, if
   the reaper has no stale notification in front of it and is not stuck in a read of
   a socket that start() opened under it. *)
CleanStopCompletes ==
  <>[]NoRegistration =>
    (ghost.clean /\ Joining /\ reaper.pc \notin {"blocked", "orphan"}
       ~> ~Joining)

(* Callbacks run for frames of the bus only (reap_process). *)
NoPhantomCallback ==
  reaper.pc = "cs" /\ reaper.frame.id \in Ids
    => funcs[reaper.frame.id] = NoFunc \/ reaper.frame.seq > 0

(* Once registrations cease, every stop() returns. *)
StopReturns == <>[]NoRegistration => (Joining ~> ~Joining)
=============================================================================
