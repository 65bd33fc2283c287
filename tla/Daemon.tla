------------------------------- MODULE Daemon -------------------------------
(***************************************************************************)
(* HyCAN::Daemon: the sessions of the daemon's clients.  The main thread   *)
(* accepts registrations and gives every client process a session of its   *)
(* own: a listening socket and a worker thread that serves the requests    *)
(* sent to it.  A cleanup thread erases the sessions of processes that     *)
(* died or were silent too long.  SIGTERM runs Daemon::stop() on the main  *)
(* thread, wherever that thread happens to be (Linux hands a signal sent   *)
(* to a process to its main thread when that thread accepts it).           *)
(*                                                                         *)
(* A connection is a pair <<c, n>>, the n-th connection of client thread   *)
(* c, with its one request already sent; what a request does to a network  *)
(* interface is in module NetlinkManager.  The clients are an arbitrary    *)
(* environment here; module NetlinkClient has their code.                  *)
(***************************************************************************)
EXTENDS Naturals, Sequences

CONSTANTS
  Pids,          \* client processes
  NoPid,         \* not a process
  Clients,       \* their threads
  PidOf,         \* the process of each thread
  Backlog,       \* listen()'s backlog: one more connection than this may wait
  SignalPcs,     \* where the main thread may be when SIGTERM arrives
  SpawnFails,    \* whether std::thread's constructor may throw
  MaxDials,      \* bound: connections of one thread
  MaxStarts      \* bound: starts of the daemon

ASSUME DaemonAssumption ==
  /\ NoPid \notin Pids
  /\ PidOf \in [Clients -> Pids]
  /\ Backlog \in Nat
  /\ SpawnFails \in BOOLEAN
  /\ MaxDials \in Nat /\ MaxStarts \in Nat

VARIABLES
  running_,   \* Daemon::running_
  mutex,      \* who holds sessions_mutex_
  main,       \* where the main thread is; "done" when no daemon runs
  request,    \* the connection whose registration it handles
  handler,    \* whether it is in the signal handler, joining the cleanup thread
  cleaner,    \* where the cleanup thread is
  todo,       \* sessions its scan has not visited yet
  victim,     \* the session it is erasing
  sessions,   \* keys of client_sessions_
  stopping,   \* sessions whose running flag is false
  idle,       \* sessions whose last activity is more than 5 minutes ago
  worker,     \* where the worker thread of each process' session is
  serving,    \* the connection it is serving
  regq,       \* connections waiting at the main socket
  chanq,      \* connections waiting at each session's socket
  dial,       \* each client thread's last connection: its number and state
  alive,      \* client processes that exist
  starts      \* daemon starts so far

mainVars   == <<main, request, handler>>
cleanVars  == <<cleaner, todo, victim>>
workVars   == <<worker, serving>>
table      == <<mutex, sessions, stopping, idle>>
sockets    == <<regq, chanq, dial>>
daemonVars == <<running_, mainVars, cleanVars, workVars, table, sockets, alive, starts>>

Conns  == Clients \X (1..MaxDials)
Locked == {"lookup", "spawn", "reply", "sweeping"}   \* main inside a lock_guard

Init ==
  /\ running_ = TRUE /\ mutex = "none" /\ starts = 1
  /\ main = "check" /\ request = <<>> /\ handler = FALSE
  /\ cleaner = "check" /\ todo = {} /\ victim = NoPid
  /\ sessions = {} /\ stopping = {} /\ idle = {}
  /\ worker = [p \in Pids |-> "none"] /\ serving = [p \in Pids |-> <<>>]
  /\ regq = <<>> /\ chanq = [p \in Pids |-> <<>>]
  /\ dial = [c \in Clients |-> [n |-> 0, state |-> "closed"]]
  /\ alive = Pids

(* The connections in the set are answered, or closed by the daemon; nobody
   sees it when the client has given the connection up. *)
Tell(conns, what) ==
  dial' = [c \in Clients |->
            IF dial[c].state = "waiting" /\ <<c, dial[c].n>> \in conns
            THEN [dial[c] EXCEPT !.state = what] ELSE dial[c]]

-----------------------------------------------------------------------------
(***************************************************************************)
(* run() and handle_client_registration.                                   *)
(***************************************************************************)
Main(at, to) == main = at /\ ~handler /\ main' = to

(* The registration's connection is answered or not, and destroyed. *)
Finish(what) == Tell({request}, what) /\ request' = <<>>

MainCheck ==
  /\ Main("check", IF running_ THEN "accept" ELSE "sweep")
  /\ UNCHANGED <<running_, request, handler, cleanVars, workVars, table, sockets,
                 alive, starts>>

(* A connection; or none within a second, an interrupted select(), an error. *)
MainAccept ==
  /\ \/ /\ regq # <<>> /\ Main("accept", "recv")
        /\ request' = Head(regq) /\ regq' = Tail(regq)
     \/ Main("accept", "check") /\ UNCHANGED <<request, regq>>
  /\ UNCHANGED <<running_, handler, cleanVars, workVars, table, chanq, dial, alive,
                 starts>>

(* The request; or a timeout or a short read, and the connection is closed. *)
MainRecv ==
  /\ \/ Main("recv", "lock") /\ UNCHANGED <<request, dial>>
     \/ Main("recv", "check") /\ Finish("eof")
  /\ UNCHANGED <<running_, handler, cleanVars, workVars, table, regq, chanq, alive,
                 starts>>

EnterRegistration ==
  /\ Main("lock", "lookup") /\ mutex' = "main"
  /\ UNCHANGED <<running_, request, handler, cleanVars, workVars, sessions, stopping,
                 idle, sockets, alive, starts>>

\* Mutant of RegisterLock: no lock_guard in handle_client_registration.
RegisterNoLock == EnterRegistration

RegisterLock == mutex = "none" /\ EnterRegistration

(* A known client is told its channel again; a new one gets a session and a
   listening socket, unless that socket cannot be created. *)
RegisterLookup ==
  LET p == PidOf[request[1]] IN
  /\ \/ /\ Main("lookup", "reply") /\ p \in sessions
        /\ idle' = idle \ {p}
        /\ UNCHANGED <<mutex, sessions, request, dial>>
     \/ /\ Main("lookup", "spawn") /\ p \notin sessions
        /\ sessions' = sessions \cup {p}
        /\ UNCHANGED <<mutex, idle, request, dial>>
     \/ /\ Main("lookup", "check") /\ p \notin sessions
        /\ mutex' = "none" /\ Finish("eof")
        /\ UNCHANGED <<sessions, idle>>
  /\ UNCHANGED <<running_, handler, cleanVars, workVars, stopping, regq, chanq, alive,
                 starts>>

(* The worker thread; when it cannot be created the exception is caught and the
   session, already in the map, stays without one. *)
RegisterSpawn ==
  /\ \/ /\ Main("spawn", "reply")
        /\ worker' = [worker EXCEPT ![PidOf[request[1]]] = "check"]
        /\ UNCHANGED <<mutex, request, dial>>
     \/ /\ SpawnFails /\ Main("spawn", "check")
        /\ mutex' = "none" /\ Finish("eof")
        /\ UNCHANGED worker
  /\ UNCHANGED <<running_, handler, cleanVars, serving, sessions, stopping,
                 idle, regq, chanq, alive, starts>>

RegisterReply ==
  /\ Main("reply", "check")
  /\ mutex' = "none" /\ Finish("ok")
  /\ UNCHANGED <<running_, handler, cleanVars, workVars, sessions, stopping,
                 idle, regq, chanq, alive, starts>>

(* The process ends and the kernel closes its sockets. *)
Gone ==
  /\ mutex' = "none" /\ sessions' = {} /\ stopping' = {} /\ idle' = {}
  /\ Tell(Conns, "eof")
  /\ regq' = <<>> /\ chanq' = [p \in Pids |-> <<>>]

(* cleanup_sessions, where each worker is told to stop and joined in turn; then
   run() and main() return. *)
SweepLock ==
  /\ Main("sweep", "sweeping")
  /\ mutex = "none" /\ mutex' = "main"
  /\ UNCHANGED <<running_, request, handler, cleanVars, workVars, sessions, stopping,
                 idle, sockets, alive, starts>>

SweepStop(p) ==
  /\ Main("sweeping", "sweeping")
  /\ p \in sessions \ stopping
  /\ \A q \in stopping : worker[q] \in {"none", "exited"}
  /\ stopping' = stopping \cup {p}
  /\ UNCHANGED <<running_, request, handler, cleanVars, workVars, mutex, sessions,
                 idle, sockets, alive, starts>>

SweepClear ==
  /\ Main("sweeping", "done")
  /\ stopping = sessions
  /\ \A p \in sessions : worker[p] \in {"none", "exited"}
  /\ worker' = [p \in Pids |-> IF p \in sessions THEN "none" ELSE worker[p]]
  /\ Gone
  /\ UNCHANGED <<running_, request, handler, cleanVars, serving, alive, starts>>

-----------------------------------------------------------------------------
(***************************************************************************)
(* signal_handler and stop(), on the main thread.                          *)
(***************************************************************************)
Signal ==
  /\ main \in SignalPcs \ {"done"} /\ running_
  /\ running_' = FALSE /\ handler' = TRUE
  /\ UNCHANGED <<main, request, cleanVars, workVars, table, sockets, alive, starts>>

HandlerReturns ==
  /\ handler /\ handler' = FALSE
  /\ UNCHANGED <<running_, main, request, cleanVars, workVars, table, sockets, alive,
                 starts>>

\* Mutant of StopJoined: stop() does not wait for the cleanup thread.
StopNoJoin == HandlerReturns

StopJoined == cleaner = "done" /\ HandlerReturns

-----------------------------------------------------------------------------
(***************************************************************************)
(* client_session_worker, one thread per session.                          *)
(***************************************************************************)
Worker(p, at, to) == worker[p] = at /\ worker' = [worker EXCEPT ![p] = to]

(* The connection is answered or not, and destroyed. *)
Served(p, what) ==
  Tell({serving[p]}, what) /\ serving' = [serving EXCEPT ![p] = <<>>]

WorkerCheck(p) ==
  /\ Worker(p, "check", IF running_ /\ p \notin stopping THEN "accept" ELSE "exited")
  /\ UNCHANGED <<running_, mainVars, cleanVars, serving, table, sockets, alive, starts>>

WorkerAccept(p) ==
  /\ \/ /\ chanq[p] # <<>> /\ Worker(p, "accept", "recv")
        /\ serving' = [serving EXCEPT ![p] = Head(chanq[p])]
        /\ chanq' = [chanq EXCEPT ![p] = Tail(@)]
     \/ Worker(p, "accept", "check") /\ UNCHANGED <<serving, chanq>>
  /\ UNCHANGED <<running_, mainVars, cleanVars, table, regq, dial, alive, starts>>

\* Mutant of WorkerRecv: a timeout is answered like a request.
WorkerRecvNoCheck(p) ==
  /\ Worker(p, "recv", "process") \/ Worker(p, "recv", "send")
  /\ UNCHANGED <<running_, mainVars, cleanVars, serving, table, sockets, alive, starts>>

WorkerRecv(p) ==
  /\ \/ /\ Worker(p, "recv", "process")
        /\ idle' = idle \ {p} /\ UNCHANGED <<serving, dial>>
     \/ /\ Worker(p, "recv", "check")
        /\ Served(p, "eof") /\ UNCHANGED idle
  /\ UNCHANGED <<running_, mainVars, cleanVars, mutex, sessions, stopping, regq,
                 chanq, alive, starts>>

(* process_request, then the response; after an exception, no response. *)
WorkerProcess(p) ==
  /\ \/ Worker(p, "process", "send") /\ UNCHANGED <<serving, dial>>
     \/ Worker(p, "process", "check") /\ Served(p, "eof")
  /\ UNCHANGED <<running_, mainVars, cleanVars, table, regq, chanq, alive, starts>>

\* Mutant of WorkerSend: when the client is gone the request is tried again.
WorkerSendRetry(p) ==
  /\ Worker(p, "send", "process")
  /\ UNCHANGED <<running_, mainVars, cleanVars, serving, table, sockets, alive, starts>>

WorkerSend(p) ==
  /\ Worker(p, "send", "check") /\ Served(p, "ok")
  /\ UNCHANGED <<running_, mainVars, cleanVars, table, regq, chanq, alive, starts>>

-----------------------------------------------------------------------------
(***************************************************************************)
(* session_cleanup_worker.                                                 *)
(***************************************************************************)
Cleaner(at, to) == cleaner = at /\ cleaner' = to

\* Mutant of CleanCheck: for (;;) instead of while (running_).
CleanForever ==
  /\ Cleaner("check", "sleep")
  /\ UNCHANGED <<running_, mainVars, todo, victim, workVars, table, sockets, alive,
                 starts>>

CleanCheck ==
  /\ Cleaner("check", IF running_ THEN "sleep" ELSE "done")
  /\ UNCHANGED <<running_, mainVars, todo, victim, workVars, table, sockets, alive,
                 starts>>

CleanLock ==
  /\ Cleaner("sleep", "scan")
  /\ mutex = "none" /\ mutex' = "cleanup"
  /\ todo' = sessions
  /\ UNCHANGED <<running_, mainVars, victim, workVars, sessions, stopping, idle,
                 sockets, alive, starts>>

(* One session of the scan, to be erased when the condition holds. *)
Visit(p, expired) ==
  /\ p \in todo /\ todo' = todo \ {p}
  /\ \/ /\ expired /\ Cleaner("scan", "join")
        /\ stopping' = stopping \cup {p} /\ victim' = p
     \/ /\ ~expired /\ Cleaner("scan", "scan")
        /\ UNCHANGED <<stopping, victim>>
  /\ UNCHANGED <<running_, mainVars, workVars, mutex, sessions, idle, sockets, alive,
                 starts>>

\* Mutant of CleanVisit: only the session timeout counts.
CleanVisitIdleOnly(p) == Visit(p, p \in idle)

\* Mutant of CleanVisit: erase() without taking the iterator it returns.
CleanVisitStays(p) ==
  /\ p \in todo /\ (p \notin alive \/ p \in idle)
  /\ Cleaner("scan", "join") /\ stopping' = stopping \cup {p} /\ victim' = p
  /\ UNCHANGED <<running_, mainVars, todo, workVars, mutex, sessions, idle, sockets,
                 alive, starts>>

CleanVisit(p) == Visit(p, p \notin alive \/ p \in idle)

EraseVictim ==
  /\ Cleaner("join", "scan")
  /\ sessions' = sessions \ {victim}
  /\ stopping' = stopping \ {victim} /\ idle' = idle \ {victim}
  /\ Tell({chanq[victim][i] : i \in DOMAIN chanq[victim]}, "eof")
  /\ chanq' = [chanq EXCEPT ![victim] = <<>>]
  /\ victim' = NoPid
  /\ UNCHANGED <<running_, mainVars, todo, serving, mutex, regq, alive, starts>>

\* Mutant of CleanErase: the session is erased without joining its worker.
CleanNoJoin == EraseVictim /\ UNCHANGED worker

(* join() and erase(), which closes the session's socket. *)
CleanErase ==
  /\ EraseVictim
  /\ worker[victim] \in {"none", "exited"}
  /\ worker' = [worker EXCEPT ![victim] = "none"]

EndScan ==
  /\ Cleaner("scan", "check") /\ todo = {}
  /\ UNCHANGED <<running_, mainVars, todo, victim, workVars, sessions, stopping, idle,
                 sockets, alive, starts>>

\* Mutant of CleanUnlock: the scan ends with the mutex locked.
CleanNoUnlock == EndScan /\ UNCHANGED mutex

CleanUnlock == EndScan /\ mutex' = "none"

-----------------------------------------------------------------------------
(***************************************************************************)
(* The environment: clients, time, the service manager.                    *)
(***************************************************************************)

(* connect() and send() on the main socket, or on the thread's channel. *)
NewDial(c) ==
  /\ PidOf[c] \in alive
  /\ dial[c].n < MaxDials /\ dial[c].state = "closed"
  /\ dial' = [dial EXCEPT ![c] = [n |-> @.n + 1, state |-> "waiting"]]
  /\ UNCHANGED <<running_, mainVars, cleanVars, workVars, table, alive, starts>>

Dial(c) ==
  /\ main # "done" /\ Len(regq) <= Backlog
  /\ NewDial(c)
  /\ regq' = Append(regq, <<c, dial[c].n + 1>>) /\ UNCHANGED chanq

DialChannel(c) ==
  LET p == PidOf[c] IN
  /\ p \in sessions /\ Len(chanq[p]) <= Backlog
  /\ NewDial(c)
  /\ chanq' = [chanq EXCEPT ![p] = Append(@, <<c, dial[c].n + 1>>)] /\ UNCHANGED regq

(* close(), with or without an answer. *)
HangUp(c) ==
  /\ dial[c].state # "closed"
  /\ dial' = [dial EXCEPT ![c].state = "closed"]
  /\ UNCHANGED <<running_, mainVars, cleanVars, workVars, table, regq, chanq, alive,
                 starts>>

(* The end of a client process. *)
Exit(p) ==
  /\ p \in alive /\ alive' = alive \ {p}
  /\ dial' = [c \in Clients |->
               IF PidOf[c] = p THEN [dial[c] EXCEPT !.state = "closed"] ELSE dial[c]]
  /\ UNCHANGED <<running_, mainVars, cleanVars, workVars, table, regq, chanq, starts>>

(* A new process gets the number of one that is gone. *)
Reuse(p) ==
  /\ p \notin alive /\ alive' = alive \cup {p}
  /\ UNCHANGED <<running_, mainVars, cleanVars, workVars, table, sockets, starts>>

(* Five minutes without activity; a scan compares with the time it started. *)
Expire(p) ==
  /\ p \in sessions \ idle /\ mutex # "cleanup"
  /\ idle' = idle \cup {p}
  /\ UNCHANGED <<running_, mainVars, cleanVars, workVars, mutex, sessions, stopping,
                 sockets, alive, starts>>

(* SIGKILL or a crash: every thread and every socket is gone. *)
Kill ==
  /\ main # "done"
  /\ main' = "done" /\ running_' = FALSE /\ handler' = FALSE /\ cleaner' = "done"
  /\ todo' = {} /\ victim' = NoPid /\ worker' = [p \in Pids |-> "none"]
  /\ request' = <<>> /\ serving' = [p \in Pids |-> <<>>]
  /\ Gone
  /\ UNCHANGED <<alive, starts>>

(* systemd starts the daemon again. *)
Start ==
  /\ main = "done" /\ starts < MaxStarts
  /\ starts' = starts + 1
  /\ running_' = TRUE /\ main' = "check" /\ cleaner' = "check"
  /\ UNCHANGED <<request, handler, todo, victim, workVars, table, sockets, alive>>

-----------------------------------------------------------------------------
MainStep ==
  \/ MainCheck \/ MainAccept \/ MainRecv
  \/ RegisterLock \/ RegisterLookup \/ RegisterSpawn \/ RegisterReply
  \/ SweepLock \/ (\E p \in Pids : SweepStop(p)) \/ SweepClear
  \/ StopJoined

WorkerStep(p) ==
  WorkerCheck(p) \/ WorkerAccept(p) \/ WorkerRecv(p) \/ WorkerProcess(p) \/ WorkerSend(p)

CleanStep ==
  \/ CleanCheck \/ CleanLock \/ (\E p \in Pids : CleanVisit(p)) \/ CleanErase
  \/ CleanUnlock

DaemonStep == MainStep \/ CleanStep \/ \E p \in Pids : WorkerStep(p)
Weather    == Signal \/ Kill \/ Start \/ \E p \in Pids : Exit(p) \/ Reuse(p) \/ Expire(p)

Next ==
  \/ DaemonStep
  \/ Weather
  \/ \E c \in Clients : Dial(c) \/ DialChannel(c) \/ HangUp(c)

Spec == Init /\ [][Next]_daemonVars

(* Every thread of the daemon keeps running.  The main thread gets the mutex
   because the cleanup thread sleeps for 30 seconds without it in every round;
   the cleanup thread gets it because registrations are bounded.  accept()
   takes a connection that waits, although its timeout leads back to it. *)
DaemonFairness ==
  /\ WF_daemonVars(MainStep) /\ WF_daemonVars(CleanStep)
  /\ SF_daemonVars(RegisterLock)
  /\ SF_daemonVars(MainAccept /\ regq' # regq)
  /\ \A p \in Pids : /\ WF_daemonVars(WorkerStep(p))
                     /\ SF_daemonVars(WorkerAccept(p) /\ chanq' # chanq)

FairSpec == Spec /\ DaemonFairness

-----------------------------------------------------------------------------
(* Every variable has a value of its type. *)
TypeOK ==
  /\ running_ \in BOOLEAN /\ mutex \in {"none", "main", "cleanup"}
  /\ main \in {"check", "accept", "recv", "lock", "sweep", "done"} \cup Locked
  /\ request \in Conns \cup {<<>>} /\ handler \in BOOLEAN
  /\ cleaner \in {"check", "sleep", "scan", "join", "done"}
  /\ todo \subseteq sessions /\ victim \in Pids \cup {NoPid}
  /\ sessions \subseteq Pids /\ stopping \subseteq sessions /\ idle \subseteq sessions
  /\ worker \in [Pids -> {"none", "check", "accept", "recv", "process", "send", "exited"}]
  /\ serving \in [Pids -> Conns \cup {<<>>}]
  /\ regq \in Seq(Conns) /\ chanq \in [Pids -> Seq(Conns)]
  /\ dial \in [Clients -> [n : 0..MaxDials, state : {"closed", "waiting", "ok", "eof"}]]
  /\ alive \subseteq Pids /\ starts \in 0..MaxStarts + 1

(* client_sessions_ is read and written by the main thread and the cleanup
   thread only while they hold sessions_mutex_, one at a time. *)
SessionsGuarded ==
  /\ main \in Locked => mutex = "main"
  /\ cleaner \in {"scan", "join"} => mutex = "cleanup"

(* A worker thread holds a raw pointer to its session: as long as it runs, no
   erase(), clear() or later registration has destroyed that session. *)
NoUseAfterFree ==
  \A p \in Pids : worker[p] \notin {"none", "exited"} => p \in sessions

(* When the daemon's process is over no thread of it still runs and no session
   is left, however the signal, the cleanup and the registrations interleave
   (a std::thread destroyed while it runs would abort the daemon). *)
ShutdownClean ==
  main = "done" =>
    /\ sessions = {} /\ cleaner = "done"
    /\ \A p \in Pids : worker[p] = "none"

(* A step of the scan: to a later phase, to fewer sessions not yet visited, or on
   from the erased one. *)
CleanPhase(at) ==
  CASE at = "sleep" -> 3 [] at \in {"scan", "join"} -> 2 [] at = "check" -> 1
    [] OTHER -> 0

ScanAdvances ==
  \/ CleanPhase(cleaner') < CleanPhase(cleaner)
  \/ CleanPhase(cleaner') = CleanPhase(cleaner) /\ todo' \subseteq todo /\ todo' # todo
  \/ cleaner = "join" /\ cleaner' = "scan" /\ todo' = todo

(* How many more steps the main thread and a worker take at most, waiting aside,
   when stop() has been called; the worker that a registration under way may
   still start counts from then on. *)
MainRank(at) ==
  CASE at = "accept" -> 9 [] at = "recv" -> 8 [] at = "lock" -> 7 [] at = "lookup" -> 6
    [] at = "spawn" -> 5 [] at = "reply" -> 4 [] at = "check" -> 3 [] at = "sweep" -> 2
    [] at = "sweeping" -> 1 [] OTHER -> 0

WorkerRank(at) ==
  CASE at = "accept" -> 6 [] at = "recv" -> 5 [] at = "process" -> 4 [] at = "send" -> 3
    [] at = "check" -> 2 [] at = "exited" -> 1 [] OTHER -> 0

WorkLeft(m, at) == WorkerRank(at) + (IF MainRank(m) > 4 THEN 3 ELSE 0)

(* Once stop() has been called, every step of a thread of the daemon brings it
   nearer to its end: the main thread finishes the registration it is at and
   accepts no other, a worker finishes the request it is at and accepts no other,
   the scan under way ends and no other begins, and the sweep only ever stops
   more of the sessions.  With OneDeadlock this is why the daemon ends. *)
ShutdownAdvances ==
  [][~running_ /\ ~running_' =>
       /\ main' # main => MainRank(main') < MainRank(main)
       /\ cleanVars' # cleanVars => ScanAdvances
       /\ \A p \in Pids : /\ WorkLeft(main', worker'[p]) <= WorkLeft(main, worker[p])
                         /\ worker'[p] # worker[p] =>
                              WorkLeft(main', worker'[p]) < WorkLeft(main, worker[p])
       /\ main = "sweeping" /\ main' = main => stopping \subseteq stopping'
    ]_daemonVars

Ended(p) == worker[p] \in {"none", "exited"}

(* What each thread can do without waiting for another. *)
MainMoves ==
  \/ handler /\ cleaner = "done"
  \/ /\ ~handler
     /\ \/ main \in {"check", "accept", "recv", "lookup", "spawn", "reply"}
        \/ main \in {"lock", "sweep"} /\ mutex = "none"
        \/ main = "sweeping" /\ \A p \in stopping : Ended(p)

CleanMoves ==
  \/ cleaner \in {"check", "scan"}
  \/ cleaner = "sleep" /\ mutex = "none"
  \/ cleaner = "join" /\ Ended(victim)

WorkerMoves(p) == ~Ended(p)

(* The signal handler that joins a cleanup thread while the main thread it has
   interrupted holds the mutex is the only way in which the daemon's threads can
   wait for each other: in any other state one of them can go on. *)
OneDeadlock ==
  \/ main = "done"
  \/ handler /\ mutex = "main" /\ cleaner = "sleep"
  \/ MainMoves \/ CleanMoves \/ \E p \in Pids : WorkerMoves(p)

(* stop() asked for, the daemon ends. *)
ShutdownCompletes == (~running_) ~> (main = "done")

(* The session of a process that died is erased, unless a new process with the
   same number takes it over. *)
DeadClientCleaned ==
  \A p \in Pids : (p \in sessions /\ p \notin alive) ~> (p \notin sessions \/ p \in alive)
=============================================================================
