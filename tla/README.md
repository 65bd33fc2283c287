# HyCAN: a TLA+ verification project

HyCAN is a C++ library for CAN bus communication on Linux and a root daemon
that manages the CAN and VCAN network interfaces for it. This directory holds
TLA+ models of its concurrent parts, the TLC configurations that check them on
small instances, and TLAPS proofs that every safety property those runs check
holds for all values of the constants. `PROJECT.json` maps every definition that models
code to its lines, and lists the runs, the mutants that show each property can
fail, the findings, the hazards and the theorems.
Paths below are relative to the repository's root.

Run a configuration with `tlc -config dispatcher_safety.cfg MCDispatcher`, a
proof module with `tlapm DispatcherProofs.tla`.

## 1. Inventory

| Component | State | Operations | Talks to |
|---|---|---|---|
| `Dispatcher` (src/Interface/Dispatcher.cpp, .hpp) | callback table `funcs`, spin lock, reaper `jthread`, epoll set, eventfd, CAN socket | `register_func`, `start`, `stop`, the destructor, the thread `reap_process` | the kernel (epoll, eventfd, CAN_RAW), application callbacks, which run on its thread |
| `Socket` | one descriptor | `ensure_connected`, `flush`, destructor | kernel |
| `SpinLock` | one flag | `lock`, `unlock` | |
| `Sender` | a `Socket` | `send` with one reconnect | kernel |
| `Interface` | a `Dispatcher`, a `Sender` | `up`, `down`, `exists`, `is_up`, `send`, `register_callback` | `IPCManager`, then the `Dispatcher` |
| `IPCManager` | process-wide singleton, `client_` | `set`, `exists`, `is_up`, `create_vcan` | `NetlinkClient` |
| `NetlinkClient` | `registered_`, channel name | `ensure_registered`, `send_request`, the four operations, `fallback_system_call` | the daemon over Unix sockets; `sudo ip` |
| `UnixSocket` | descriptor, path | `initialize`, `accept`, `send`, `recv`, `close` | kernel |
| `Daemon` (src/Daemon/Daemon.cpp, main.cpp) | `running_`, `client_sessions_` under `sessions_mutex_`, cleanup thread, one worker thread per session | `run`, `stop` (from a signal handler), `handle_client_registration`, `client_session_worker`, `session_cleanup_worker`, `cleanup_sessions` | clients, `NetlinkManager` |
| `NetlinkManager`, `VCAN` | netlink socket, link cache, `mutex_` | `process_request` and what it calls | kernel (rtnetlink) |

What is hard to test here, and what makes each part correct:

* **Dispatcher.** The reaper, the caller of `start`/`stop` and threads that
  register run at once. Correct: the table is never used while it is written;
  frames reach callbacks in order and only frames do; `stop()` returns, and
  then no callback runs. Hard: a stop between the reaper's test and its read;
  what a stopped reaper leaves in the eventfd; `start()` twice; a socket
  numbered 0, which the next `start()` does not close; error paths that return
  with the lock held.
* **Interface.** Two authorities, the daemon and the kernel, and a device that
  other programs change. Correct: after a successful `up()` frames of the device
  that is there are received, after a successful `down()` nothing runs. Hard: a
  call that fails halfway, `up()` on a running or re-created device.
* **Sender, Socket.** Descriptors are process-wide numbers that are reused at
  once. Correct: a Sender writes to and closes only its own socket, leaks none,
  and sends a frame once or reports an error; one reconnection is enough. Hard:
  a device that changes between connection and write, error paths between two
  system calls, and number 0, which stands for "none" and is a descriptor.
* **Daemon.** Main thread, cleanup thread, workers and a signal. Correct: the
  map is used under its mutex, a session outlives its worker, shutdown ends and
  leaves no thread, dead clients are cleaned up. Hard: the signal handler runs
  on a thread that may hold the mutex it needs others to get.
* **NetlinkClient, IPCManager.** Timeouts race late answers; the daemon forgets
  sessions and restarts; threads race for the process' client; process ids are
  reused. Correct: calls return, a response belongs to its request, a
  request is processed once, a client finds a restarted daemon again.
* **NetlinkManager.** Several exchanges with the kernel per request, one cache
  for all workers, other programs on the same links. Correct: reported success
  is true, a failed bitrate leaves the link down, requests do not mix.

## 2. Modules

| Module | Models | Extends / composes |
|---|---|---|
| `DispatcherService` | abstract: a table, at most one reaper, registrations and look-ups in one step each | |
| `Dispatcher` | Dispatcher, SpinLock, Socket as `start()` uses it, eventfd, epoll, bus | implements `DispatcherService` |
| `DispatcherProofs` | its theorems | `Dispatcher`, `TLAPS` |
| `DispatcherServiceProofs` | that it implements `DispatcherService` | `DispatcherProofs` |
| `Interface` | Interface, the daemon's answers, the CAN device | composed with `Dispatcher` by extending it |
| `InterfaceProofs` | that the composition implements the Dispatcher, and what `up()` and `down()` promise | `Interface`, `DispatcherServiceProofs` |
| `Sender` | Sender, Socket, the process' descriptor table, the CAN device | |
| `Daemon` | Daemon, signal handler, UnixSocket queues, arbitrary clients | |
| `NetlinkClient` | NetlinkClient, IPCManager | composed with `Daemon` by extending it |
| `LinkService` | abstract: each request handled in one step | |
| `NetlinkManager` | NetlinkManager, VCAN, kernel links | implements `LinkService` |
| `SenderProofs`, `DaemonProofs`, `NetlinkManagerProofs` | theorems about those modules | the module, `TLAPS` |
| `NetlinkClientProofs` | that the clients are ones `Daemon` allows, and what becomes of their requests | `NetlinkClient`, `DaemonProofs` |
| `MCDispatcher`, `MCInterface`, `MCSender`, `MCDaemon`, `MCNetlinkClient`, `MCNetlinkManager` | TLC instances | |

**Dispatcher.** A step is one system call or one access to shared memory. `pc`
says where an application thread is inside `register_func`, `start` or `stop`;
`reaper` is the body of `reap_process`: the ready descriptors it still has to
look at, the one it reads, the frame it holds. `sock` is the CAN socket with
its receive queue; it is replaced by `start()` while the reaper may hold an
event of the old one. `ensure_connected` takes number 0 for no socket and does
not close it, so the next `start()` leaves such a socket (`twin`) open and in the
epoll set beside the new one; `ghost.doubled` records that this has happened. The
destructor of any other Socket that never connected may close number 0
(`CloseZero`), after which `socket()` may return it. Number -1 also stands for the
initial `sock_fd` of 0, which is no socket of this object: `start()` closes
neither. An eventfd read yields a frame whose id is the counter
(`seq` 0 marks it). A frame with an id outside the table either does nothing or
ends the process, the two outcomes of the undefined access. An uplink that goes
down appears as a read or a system call that fails. Loops that change nothing
(an interrupted `epoll_wait` without a stop request, an event without EPOLLIN)
are stuttering. Only one thread calls `start` and `stop`; the class has no
synchronisation for more. The destructor is `stop()`, the closing of `epoll_fd`
and of the eventfd (one step; from then on the reaper sees neither) and the
destruction of the members, where the jthread joins a reaper that a failed
`stop()` left behind.

**DispatcherService** has no lock, no second thread, no socket and no event. A
registration replaces the callbacks of all its ids at once, `Begin` looks one up
and `End` is the return from it; in between nothing changes the table. A frame of
the bus may be missed, and the last one may be looked up again after a
replacement of the socket, but none is looked up after a later one. The two
faults of the table are part of the promise: a registration with an id outside
jams it for good, and a look-up of such an id may end the process. So is the
phantom: one look-up without a frame between a start and a stop, if the start found
a notification. `Double` is the start that leaves two sockets open: from then on
frames may come in any order. The mapping (`Entries`, `Jammed`, `Phantom`, `Lookup` in
`Dispatcher`) shows a registration from the moment it has the lock.

**Interface.** `at` is the owner's place in `up()` or `down()`: the requests
`exists`, `create`, `set` and `unset`, then `start` or `stop`, whose steps are the
Dispatcher's own actions. A request answered with success has been carried out; an
error says nothing: it may come before the change, and the answer may be lost after
it. `kind` holds the template type, which decides whether `up()` creates a missing
link, and whether the name starts with "can", which decides whether NetlinkClient
asks for a bitrate; for that the daemon takes a link that is up down first. No socket
is numbered 0 in this module (`InterfaceAssumption`): what becomes of one is the
Dispatcher's matter, and somebody else may close it. The device has an index, so that
a device created anew is not the one a socket was bound to; `bound` is what the
socket is bound to and whether it has an error to report, which decides when the
Dispatcher's read or flush fails. `Outside` is every other program. `calm` records
that nobody else has changed the link since the call began.

**Sender.** A step is one system call. `fds` is the process' descriptor table,
in which `socket()` takes the lowest free number; the rest of the program opens
and closes files in it. An entry says whose socket it is, to which device it is
bound and whether it has an error to report. `ConnectBind` includes the
`fcntl()` calls, which nobody else can observe here. ENOBUFS and EAGAIN are one
outcome; EPIPE and ENODEV do not differ from the fatal errors that occur. A
second Sender stands for the Dispatcher's socket, too. `out` and `calm` are
histories: frames this `send()` has put on the bus, and whether the link was up
throughout it.

**Daemon.** `main`, `cleaner` and `worker[p]` are the program counters of the
threads. A connection is `<<client, number>>` and its request has been sent:
a request that comes too late is a `recv` that times out. Clients are
arbitrary: they connect, hang up, die. `idle` stands for the five minutes
without activity; a scan compares with the time at which it started, so a
session does not become idle during one. The signal is a step that diverts the
main thread into `stop()` from any place in `SignalPcs`; Linux gives a process'
signal to its main thread when that thread does not block it. A second signal
after the handler has returned finds nothing to join. `Kill` is a crash, `Start`
a start by systemd. `Reuse` gives the id of a process that ended to a new one:
sessions are keyed by it.

**NetlinkClient** replaces the arbitrary clients by the code: a thread's call
registers if `registered_` is false, connects, waits, and falls back when the
call is a `set`. `registered_` is shared by the threads of a process.
`ensure_initialized` tests `initialized_` in one step and assigns `client_` in
another: the second of two threads that passed the test destroys the client the
first one is inside (`stale`). What such a thread writes is lost; the channel
name it reads is intact, useless (`ConnectGarbled`), or fatal (`ProcessExit`,
which may happen at any time). The
history variables `processed` and `refused` record what the daemon processed
and whether a thread's last call was refused by a running daemon.

**NetlinkManager.** Each exchange with the kernel is a step; other programs act
between any two (`Outside`). The kernel refuses a change by an interface index
that is gone and a bitrate on a link that is up, and may refuse anything else.
Requests are those NetlinkClient sends: a bitrate goes with every `up` of a
`can*` name, so the early return of `set_can_bitrate_libnl` for other names is
never taken. `disturbed` records, for every link, what other programs did to it
while the mutex was held; the abstract service promises nothing about a link
that was disturbed during a request. The refinement mapping shows the links as they were when the mutex
was taken, until it is released: nobody but the holder sees the interface down
between two bitrates.

## 3. Runs

| Run | Question | Bounds | Result |
|---|---|---|---|
| `dispatcher_safety` | Types, mutual exclusion, quiet after stop, bus order; each step of a stop brings it nearer to its end; registrations and look-ups are atomic (`DispatcherService`) | 2 threads, id sets {0, 1} and {1, 3} in a table of 2, descriptors 0 and 5, 2 frames of an id outside the table, 1 unread notification, whose count is an id inside | holds |
| `dispatcher_phantom` | Do callbacks run for frames only? | 1 frame | violated |
| `dispatcher_stop_hang` | Does every stop return? | 2 notifications | violated |
| `dispatcher_lock_leak` | Is a frame dispatched after a rejected registration? | an id outside the table | violated |
| `interface` | What `up()` and `down()` promise; at most one phantom; no clean stop is missed, and it returns; received frames are dispatched | a CAN interface whose name does not start with "can" and a VCAN interface whose name does, one thread, a table of 3, 1 frame whose id may be outside, 2 unread notifications, a device that is created twice | holds |
| `sender_safety` | Descriptors are owned and not leaked, frames sent once, one reconnection is enough | 2 Senders, descriptors 0 to 3, a device that is created twice | holds |
| `daemon_safety` | Map under its mutex, sessions outlive workers, nothing left at the end; each step of a shutdown brings it nearer to its end, and threads wait for each other in one way only | 2 processes, 2 connections each, crash and restart, reused ids, signal anywhere | holds |
| `daemon_signal_deadlock` | Shutdown, wherever the signal arrives | 1 connection | violated |
| `client_safety` | Responses match requests, each processed once | 2 threads of one process that race for its client, 3 connections each, crash and restart, reused ids | holds |
| `client_liveness` | Calls return, shutdown ends, dead clients are cleaned up | 1 thread, 4 connections, a backlog of one, 2 starts, signal outside the lock | holds |
| `client_stale_channel` | Does a client recover when its session is gone? | one start | violated |
| `netlink_safety` | Success is true, failed bitrate is down, a created link is there; requests are atomic (`LinkService`) | 2 workers, 2 links, 2 bitrates, 1 outside change | holds |

Why the bounds are enough: the Dispatcher's faults need two starts and two
notifications; an order, also across a replaced socket, takes two frames; a
registration in progress is seen with a set of two ids, a failing one with a
second id outside the table; descriptors 0 and 5 let a new socket reuse the old
number or not, and leave a socket numbered 0 open beside the new one. The frames of that
run have an id outside the table, so that a look-up may end the process, and the look-up that
meets a registration of several ids is that of a notification: what is looked up is
the same expression for both, and frames with a callback are those of `interface`. One unread
notification suffices where the properties are about the table, the frames and the
rank of a stop; `AtMostOnePhantom`, `StopNotLost` and the findings, which are about
a second one, are checked with two. Two
processes make the cleanup thread join one worker while another works; two
connections of each give a registration and a request, or a second registration
after the first session was erased; two starts give a restart. Two workers are
enough for a conflict under one mutex; one outside change can fall between any
two steps of a request. A second creation of the device tells a socket bound to
the old one from the current one. Four descriptors are one more than two Senders
and one file, so that the table can be full and can have a hole below them;
two creations of the device as in `interface`. Two bitrates tell a set that took effect
from one that did not. Deadlock is checked in the netlink and the sender run, where a worker
can always ask again and a Sender can always send; the others may stop, because
the bus, the clients and the bounded calls may.

Fairness. Dispatcher: weak fairness for the steps of every thread that has
begun a call and of the reaper; nobody has to call anything, the bus may be
silent, reads need not fail, and the spin lock promises nobody a turn, so the
progress properties are stated for registrations that cease. Interface: the
same, and the daemon answers every request, with success or not, because every
call of the client returns (`CallReturns`). Daemon: weak
fairness for every thread; strong fairness for the main thread's lock, because
the cleanup thread sleeps 30 seconds without it in each round, and for
`accept()` on a queue that stays non-empty. Nothing is assumed of clients,
signals, crashes, reused ids or time. Client: a thread goes on with its call and `select()`
ends after its timeout.

The five violated runs are findings: the behaviour contradicts what the
repository says, quoted in `PROJECT.json`.

* The eventfd is not drained by `stop()`: the next reaper takes the count for a
  frame and runs the callback of the id that equals it (`dispatcher_phantom`);
  and if the reaper is just reading it when the next `stop()` writes, it
  swallows that notification and `join()` never returns
  (`dispatcher_stop_hang`).
* `register_func` returns its error for an id of 2048 or more with the lock
  held (`dispatcher_lock_leak`).
* SIGTERM during a registration deadlocks the daemon (`daemon_signal_deadlock`).
* `registered_` is never reset (`client_stale_channel`).

## 4. Proofs

The theorems hold for all values of the constants that satisfy the assumption of
their module, and for behaviours of any length. The assumptions say what the
constants are (naturals, an owner among the threads, an eventfd whose number is
neither 0 nor a CAN socket's, a process for every client thread) and nothing about
how many there are. CAN sockets may be numbered 0 in `Dispatcher` and in `Sender`;
`Interface` assumes that they are not. The bounds of the runs (`MaxFrames`,
`MaxDials`, `MaxStarts`, `MaxOutside`, `MaxIndex`) are constants like the others: the
proofs use no value of them.

| Module | Theorem | What it states | Inductive invariant |
|---|---|---|---|
| `DispatcherProofs` | `TypeCorrect` | `Spec => []TypeOK` | and: a socket that is not there (number -1) is not in the epoll set, without which `epoll_wait` might report -1; a `twin` has number 0 or is not there |
| | `LockCorrect` | `[]MutualExclusion` | whoever is in a critical section has set the flag, and there is one of them. The flag may also be set with nobody inside: the error path of `register_func` |
| | `StopCorrect`, `PhantomCorrect` | `[]QuietAfterStop`, `[]AtMostOnePhantom`, `[]StopNotLost` | the joinable flag tells whether a reaper exists; while a reaper that found the eventfd empty is not asked to stop, it stays empty; a stale notification is consumed once |
| | `OrderCorrect` | `InOrder` | `OrderInv`: no frame is later than `sent` (`SentInv`), and unless `doubled`, there is no `twin`, and the frame in the reaper's hand and those in the queue are in increasing order and not older than the last one dispatched (`Ordered`) |
| | `StopAdvancesCorrect` | `StopAdvances` | the ones before, and: epoll has told of one socket at most besides the one numbered 0 |
| `DispatcherServiceProofs` | `ImplementsService` | `Spec => Implements`: `Dispatcher` implements `DispatcherService` | the ones before, and `ServiceInv` |
| `InterfaceProofs` | `UsesDispatcher`, `InterfaceInherits`, `InterfaceServes` | `InterfaceSpec => Spec`, and with it the Dispatcher's properties and its refinement | none: the mapping is the identity on the Dispatcher's variables |
| | `InterfaceOrder` | `InOrder` without its exception | `~ghost.doubled` |
| | `InterfaceInvariant`, `InterfaceTypeCorrect`, `UpCorrect`, `DownCorrect` | `[]InterfaceTypeOK`, `[]UpMeansReceiving`, `[]DownMeansQuiet` | `InterfaceInv` |
| `SenderProofs` | `SenderInvariant`, `TypeCorrect`, `DescriptorCorrect`, `LeakCorrect`, `SentCorrect`, `RecoveryCorrect` | `[]TypeOK`, `[]OwnsDescriptor`, `[]NoLeak`, `[]SentOnce`, `[]SendRecovers` | `SenderInv` |
| `DaemonProofs` | `DaemonInvariant`, `TypeCorrect`, `GuardCorrect`, `PointerCorrect`, `ShutdownCorrect` | `[]TypeOK`, `[]SessionsGuarded`, `[]NoUseAfterFree`, `[]ShutdownClean` | `DaemonInv` |
| | `DeadlockCorrect`, `ShutdownAdvancesCorrect` | `[]OneDeadlock`, `ShutdownAdvances` | `DaemonInv` |
| `NetlinkClientProofs` | `UsesDaemon`, `ClientInherits` | `ClientSpec => Spec`, and with it the daemon's properties | none |
| | `ClientInvariant`, `ClientTypeCorrect`, `ResponseCorrect`, `OnceCorrect` | `[]ClientTypeOK`, `[]ResponseMeansProcessed`, `[]ProcessedOnce` | `ClientInv` |
| `NetlinkManagerProofs` | `ManagerInvariant`, `TypeCorrect`, `CreateCorrect`, `SuccessCorrect`, `FailedBitrateCorrect` | `[]TypeOK`, `[]CreateIsThere`, `[]SuccessIsTrue`, `[]FailedBitrateIsDown` | `ManagerInv` |
| | `ImplementsService` | `Spec => Implements`: `NetlinkManager` implements `LinkService` | `ManagerInv` and `Replied` |

Each invariant was checked with TLC on its run's instance before it was proved.
A proof that a step preserves one has a case per action, and lemmas for what
many actions share. Why the properties alone are not inductive:

* **Interface.** `UpMeansReceiving` speaks of the state after the call and
  depends on all of it: the daemon has put the link up before `start()`
  (`LinkInv`), `start()` binds the new socket to the device that is there before
  it adds it to epoll (`StartInv`), and nothing the reaper, the bus or another
  thread does takes a socket out of epoll or ends a reaper that was not told to
  exit (`Aside`, `ReaperLives`). Other programs end `calm`. The Dispatcher's
  invariants are used in both states of a step; `UsesDispatcher` supplies them.
  `DownMeansQuiet` rests on `QuietAfterStop` for a `down()` that finds no reaper.
* **Sender.** That a positive number is the Sender's own socket has to be known
  at each of the system calls of `ensure_connected`, together with what a Sender
  that is not in a call owns, because any thread's `close()` frees a number that
  any `socket()` may take. `SendRecovers` needs to follow a second attempt: its
  socket is new, the index it asked for is the device's, so its write succeeds.
* **Daemon.** `SessionsGuarded` needs to know which thread holds the mutex at
  each place, with the signal handler diverting the main thread from any of
  them; `NoUseAfterFree` that a session being registered or erased is still in
  the map, behind the iterator; `ShutdownClean` the order in which
  `running_`, the handler's join and the sweep come.
* **NetlinkClient.** A connection is in at most one of: the main socket's queue,
  a session's queue, a worker's hands, the set of processed ones; a new
  connection is in none, because its number is larger than any made. A response
  is then of the connection the worker has processed. Reused process ids need
  that a session's queue only holds connections of its process.
* **NetlinkManager.** `ManagerInv` compares a worker's link with the link as it
  was when the worker took the mutex: after each exchange it is known how far
  the request has got, unless another program has disturbed it. `SuccessIsTrue`
  and the refinement are read off its last line.
* **Progress without fairness.** What a liveness property says is split into what
  fairness is needed for and what it is not. For a shutdown: in no state but one
  do the daemon's threads all wait for each other (`OneDeadlock`; the exception is the
  finding `daemon_signal_deadlock`, so there is no second one), and once `stop()` has
  been called every step of a thread lowers what that thread has left to do
  (`ShutdownAdvances`). For a `stop()` without a stale notification: while it waits,
  its notification is there or the reaper has ended (`StopNotLost`), and every
  step of the reaper lowers a rank of at most 26 (`StopAdvances`), whatever
  arrives, fails or is replaced. That threads which can take a step
  take one is then all that is left to assume. `DaemonInv` needed two facts
  for this: a session whose worker is about to be created has none, and the scan
  waits for a worker only between its test and its erase.
* **Refinement to `DispatcherService`.** A registration is the abstract one when it
  gets the lock, a look-up when the reaper gets it, a start when the thread is
  created, a stop when it has been joined; every other step shows nothing
  (`Unseen` and the lemmas after it), except the first start that leaves a second
  socket open, which is `Double` (`DoubleSimulated`). `MutualExclusion` makes the table that is being
  written look as it will be (`ShownStoring`); `OrderInv` gives `Begin` its order
  and shows that its frame has been on the bus,
  `StopInv` and `ServiceInv` tell the one phantom from a frame. An Interface
  implements the same service through `UsesDispatcher`.
* **Refinement to `LinkService`.** `Request` is the abstract `Ask`; the release of the mutex is the
  abstract `Serve`, with the answer and the link that `Promised` allows; a
  change by another program is the abstract `Outside`, while the mutex is held one
  that is only remembered; taking the mutex and each exchange are no step,
  because the mapping shows the links as they were when the mutex was taken. It needs one more
  invariant, `Replied`: nobody is answered before the release.

What the attempts showed about the models: with `MaxIndex = 0`
`InterfaceTypeOK` was false in an initial state in which the device is there, so
`InterfaceAssumption` asks for a positive bound. `AtMostOnePhantom` and
`StopNotLost` say what holds in spite of the findings `dispatcher_phantom` and
`dispatcher_stop_hang`: they delimit them.

Only model-checked: the temporal properties (`CleanStopCompletes`, `Drained`,
`CallReturns`, `ShutdownCompletes`, `DeadClientCleaned`), because they rest on
fairness, which the prover does not handle; the absence of deadlock in the netlink
and the sender run, which is a matter of ENABLED (`OneDeadlock` spells out when a
thread of the daemon can move); and the five violations, which are
counterexamples. Every invariant and every action property of a passing run and
both refinements are proved.

## 5. Not modelled

Several threads on one Sender, several owners of one Interface, and a Sender
together with its Interface's Dispatcher (they share the device and the
descriptor table, each of which is in both models); in `Dispatcher`, an eventfd or
an `epoll_fd` numbered 0 that another Socket's destructor closes, and a number that
another file of the process takes over between two steps of `start()`; a reaper that
spins on an event without EPOLLIN (no state changes, it costs time); callbacks that call back
into the Dispatcher; the moves of `Socket` and `UnixSocket` and `recv_vector`,
which nothing calls; socket paths on disk (a daemon that ends removes the path a
newer one may have bound); the fixed-size copies of interface names (15
characters to the daemon, all of them to the fallback); memory orders; errors of
the daemon's and the client's `socket()` and of `fcntl()`; `select()` on
descriptors beyond `FD_SETSIZE`; a signal inside the signal handler; scheduling
class, CPU affinity and memory locking of the reaper; the latency statistics of
the test build. Examples, tests and packaging are no part of the system.

## 6. Plan

1. `SpinLock` with its exchange and its relaxed loads as a refinement of the
   atomic lock.
2. Two daemons that overlap at a restart, with socket paths.
3. Several owners of one Interface: `up()` and `down()` from two threads.
