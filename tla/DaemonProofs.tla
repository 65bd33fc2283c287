---------------------------- MODULE DaemonProofs ----------------------------
(***************************************************************************)
(* What Daemon's runs check, proved for every number of client processes,  *)
(* every backlog and every place in which the signal may arrive.           *)
(***************************************************************************)
EXTENDS Daemon, TLAPS

(* sessions_mutex_ is held by exactly the thread that is inside a lock_guard. *)
Guarded ==
  /\ main \in Locked <=> mutex = "main"
  /\ cleaner \in {"scan", "join"} <=> mutex = "cleanup"

(* The scan's iterator: nothing is left of it between two scans, and the session
   that is being erased, if there is one, is in the map, behind the iterator. *)
Scanning ==
  /\ cleaner \notin {"scan", "join"} => todo = {}
  /\ IF cleaner = "join" THEN victim \in sessions \ todo ELSE victim = NoPid

(* A registration has a connection, and from the look-up on its session is in the
   map before the thread is, and has no thread yet. *)
Registering ==
  /\ main \in {"recv", "lock", "lookup", "spawn", "reply"} => request \in Conns
  /\ main = "spawn" => /\ PidOf[request[1]] \in sessions
                       /\ worker[PidOf[request[1]]] = "none"

(* The order of a shutdown: running_ is cleared, the handler joins the cleanup
   thread, and only then does the main thread leave its loop. *)
StopOrder ==
  /\ main \in {"sweep", "sweeping", "done"} => ~running_ /\ ~handler
  /\ ~running_ /\ ~handler => cleaner = "done"
  /\ main = "done" => sessions = {}

(* Without a session there is no worker thread, not even one to be joined. *)
Owned == \A p \in Pids : p \notin sessions => worker[p] = "none"

DaemonInv ==
  TypeOK /\ Guarded /\ Scanning /\ Registering /\ StopOrder /\ Owned

-----------------------------------------------------------------------------
(* TypeOK has two parts: what the threads and the map are about, and what the
   connections are about. *)
Control ==
  /\ running_ \in BOOLEAN /\ mutex \in {"none", "main", "cleanup"}
  /\ main \in {"check", "accept", "recv", "lock", "sweep", "done"} \cup Locked
  /\ handler \in BOOLEAN
  /\ cleaner \in {"check", "sleep", "scan", "join", "done"}
  /\ todo \subseteq sessions /\ victim \in Pids \cup {NoPid}
  /\ sessions \subseteq Pids /\ stopping \subseteq sessions /\ idle \subseteq sessions
  /\ worker \in [Pids -> {"none", "check", "accept", "recv", "process", "send", "exited"}]
  /\ alive \subseteq Pids /\ starts \in 0..MaxStarts + 1

Dialled ==
  dial \in [Clients -> [n : 0..MaxDials, state : {"closed", "waiting", "ok", "eof"}]]

Traffic ==
  /\ request \in Conns \cup {<<>>}
  /\ serving \in [Pids -> Conns \cup {<<>>}]
  /\ regq \in Seq(Conns) /\ chanq \in [Pids -> Seq(Conns)]
  /\ Dialled

LEMMA TypeParts == TypeOK <=> Control /\ Traffic
  BY DEF TypeOK, Control, Traffic, Dialled

(* An answer or an end of file is a state a connection may have. *)
LEMMA TellDialled ==
  ASSUME Dialled, NEW conns, NEW what \in {"ok", "eof"}, Tell(conns, what)
  PROVE  Dialled'
  BY DEF Dialled, Tell

(* The process of a connection's client. *)
LEMMA ConnPid == ASSUME NEW x \in Conns PROVE PidOf[x[1]] \in Pids
  BY DaemonAssumption DEF Conns

(* Taking a connection from a queue. *)
LEMMA Dequeue ==
  ASSUME NEW q \in Seq(Conns), q # <<>>
  PROVE  Head(q) \in Conns /\ Tail(q) \in Seq(Conns)
  OBVIOUS

(* Adding one to it. *)
LEMMA Enqueue ==
  ASSUME NEW q \in Seq(Conns), NEW x \in Conns
  PROVE  Append(q, x) \in Seq(Conns)
  OBVIOUS

(* Every step keeps what the connections are about. *)
LEMMA TrafficStep ==
  ASSUME Traffic, Control, Scanning, Registering, Next
  PROVE  Traffic'
  <1> USE DEF Traffic, Dialled, mainVars, cleanVars, workVars, table, sockets
  <1>1. CASE MainCheck
    BY <1>1 DEF MainCheck, Main
  <1>2. CASE MainAccept
    BY <1>2, Dequeue DEF MainAccept, Main
  <1>3. CASE MainRecv
    BY <1>3, TellDialled DEF MainRecv, Main, Finish
  <1>4. CASE RegisterLock
    BY <1>4 DEF RegisterLock, EnterRegistration, Main
  <1>5. CASE RegisterLookup
    BY <1>5, TellDialled DEF RegisterLookup, Main, Finish
  <1>6. CASE RegisterSpawn
    BY <1>6, TellDialled DEF RegisterSpawn, Main, Finish
  <1>7. CASE RegisterReply
    BY <1>7, TellDialled DEF RegisterReply, Main, Finish
  <1>8. CASE SweepLock
    BY <1>8 DEF SweepLock, Main
  <1>9. CASE SweepClear
    BY <1>9, TellDialled DEF SweepClear, Main, Gone
  <1>10. CASE StopJoined
    BY <1>10 DEF StopJoined, HandlerReturns
  <1>11. CASE CleanCheck
    BY <1>11 DEF CleanCheck, Cleaner
  <1>12. CASE CleanLock
    BY <1>12 DEF CleanLock, Cleaner
  <1>13. CASE CleanErase
    BY <1>13, TellDialled DEF CleanErase, Cleaner, EraseVictim, Control, Scanning
  <1>14. CASE CleanUnlock
    BY <1>14 DEF CleanUnlock, Cleaner, EndScan
  <1>15. CASE Signal
    BY <1>15 DEF Signal
  <1>16. CASE Kill
    BY <1>16, TellDialled DEF Kill, Gone
  <1>17. CASE Start
    BY <1>17 DEF Start
  <1>18. ASSUME NEW p \in Pids, SweepStop(p) PROVE Traffic'
    BY <1>18 DEF SweepStop, Main
  <1>19. ASSUME NEW p \in Pids, CleanVisit(p) PROVE Traffic'
    BY <1>19 DEF CleanVisit, Visit, Cleaner
  <1>20. ASSUME NEW p \in Pids, WorkerCheck(p) PROVE Traffic'
    BY <1>20 DEF WorkerCheck, Worker
  <1>21. ASSUME NEW p \in Pids, WorkerAccept(p) PROVE Traffic'
    <2>1. CASE chanq[p] # <<>> /\ Worker(p, "accept", "recv")
               /\ serving' = [serving EXCEPT ![p] = Head(chanq[p])]
               /\ chanq' = [chanq EXCEPT ![p] = Tail(@)]
      <3>1. Head(chanq[p]) \in Conns /\ Tail(chanq[p]) \in Seq(Conns)
        BY <2>1, Dequeue
      <3>2. serving' \in [Pids -> Conns \cup {<<>>}] /\ chanq' \in [Pids -> Seq(Conns)]
        BY <2>1, <3>1
      <3> QED  BY <1>21, <3>2 DEF WorkerAccept
    <2>2. CASE UNCHANGED <<serving, chanq>>
      BY <1>21, <2>2 DEF WorkerAccept
    <2> QED  BY <1>21, <2>1, <2>2 DEF WorkerAccept
  <1>22. ASSUME NEW p \in Pids, WorkerRecv(p) PROVE Traffic'
    BY <1>22, TellDialled DEF WorkerRecv, Worker, Served
  <1>23. ASSUME NEW p \in Pids, WorkerProcess(p) PROVE Traffic'
    BY <1>23, TellDialled DEF WorkerProcess, Worker, Served
  <1>24. ASSUME NEW p \in Pids, WorkerSend(p) PROVE Traffic'
    BY <1>24, TellDialled DEF WorkerSend, Worker, Served
  <1>25. ASSUME NEW p \in Pids, Exit(p) PROVE Traffic'
    BY <1>25 DEF Exit
  <1>26. ASSUME NEW p \in Pids, Reuse(p) PROVE Traffic'
    BY <1>26 DEF Reuse
  <1>27. ASSUME NEW p \in Pids, Expire(p) PROVE Traffic'
    BY <1>27 DEF Expire
  <1>28. ASSUME NEW c \in Clients, Dial(c) PROVE Traffic'
    BY <1>28, DaemonAssumption DEF Dial, NewDial, Conns
  <1>29. ASSUME NEW c \in Clients, DialChannel(c) PROVE Traffic'
    <2>1. PidOf[c] \in Pids /\ <<c, dial[c].n + 1>> \in Conns
      <3>1. PidOf[c] \in Pids /\ dial[c].n < MaxDials
        BY <1>29, DaemonAssumption DEF DialChannel, NewDial
      <3>2. dial[c].n + 1 \in 1..MaxDials
        BY <3>1, DaemonAssumption
      <3> QED  BY <3>1, <3>2 DEF Conns
    <2>2. Append(chanq[PidOf[c]], <<c, dial[c].n + 1>>) \in Seq(Conns)
      <3>1. chanq[PidOf[c]] \in Seq(Conns)  BY <2>1
      <3> QED  BY <2>1, <3>1, Enqueue
    <2>3. chanq' \in [Pids -> Seq(Conns)]
      BY <1>29, <2>1, <2>2 DEF DialChannel
    <2>4. Dialled'
      BY <1>29, DaemonAssumption DEF DialChannel, NewDial
    <2> QED  BY <1>29, <2>3, <2>4 DEF DialChannel, NewDial
  <1>30. ASSUME NEW c \in Clients, HangUp(c) PROVE Traffic'
    BY <1>30 DEF HangUp
  <1> QED
    BY <1>1, <1>2, <1>3, <1>4, <1>5, <1>6, <1>7, <1>8, <1>9, <1>10, <1>11,
       <1>12, <1>13, <1>14, <1>15, <1>16, <1>17, <1>18, <1>19, <1>20, <1>21,
       <1>22, <1>23, <1>24, <1>25, <1>26, <1>27, <1>28, <1>29, <1>30
       DEF Next, DaemonStep, MainStep, CleanStep, WorkerStep, Weather

(* Every step of a thread of the daemon, of a client, of the signal and of the
   service manager keeps the rest of the invariant. *)
LEMMA ControlStep ==
  ASSUME DaemonInv, Next
  PROVE  (Control /\ Guarded /\ Scanning /\ Registering /\ StopOrder /\ Owned)'
  <1> DEFINE Parts == Control /\ Guarded /\ Scanning /\ Registering /\ StopOrder /\ Owned
  <1> Parts /\ Traffic  BY TypeParts DEF DaemonInv
  <1> USE DEF Control, Guarded, Scanning, Registering, StopOrder, Owned, Locked,
              mainVars, cleanVars, workVars, table, sockets
  <1>1. CASE MainCheck
    BY <1>1 DEF MainCheck, Main
  <1>2. CASE MainAccept
    BY <1>2, Dequeue DEF MainAccept, Main, Traffic
  <1>3. CASE MainRecv
    BY <1>3 DEF MainRecv, Main, Finish, Traffic
  <1>4. CASE RegisterLock
    BY <1>4 DEF RegisterLock, EnterRegistration, Main
  <1>5. CASE RegisterLookup
    BY <1>5, ConnPid DEF RegisterLookup, Main, Finish
  <1>6. CASE RegisterSpawn
    BY <1>6 DEF RegisterSpawn, Main, Finish
  <1>7. CASE RegisterReply
    BY <1>7 DEF RegisterReply, Main, Finish
  <1>8. CASE SweepLock
    BY <1>8 DEF SweepLock, Main
  <1>9. CASE SweepClear
    BY <1>9 DEF SweepClear, Main, Gone
  <1>10. CASE StopJoined
    BY <1>10 DEF StopJoined, HandlerReturns
  <1>11. CASE CleanCheck
    BY <1>11 DEF CleanCheck, Cleaner
  <1>12. CASE CleanLock
    BY <1>12 DEF CleanLock, Cleaner
  <1>13. CASE CleanErase
    BY <1>13 DEF CleanErase, Cleaner, EraseVictim
  <1>14. CASE CleanUnlock
    BY <1>14 DEF CleanUnlock, Cleaner, EndScan
  <1>15. CASE Signal
    BY <1>15 DEF Signal
  <1>16. CASE Kill
    BY <1>16 DEF Kill, Gone
  <1>17. CASE Start
    BY <1>17, DaemonAssumption DEF Start
  <1>18. ASSUME NEW p \in Pids, SweepStop(p) PROVE Parts'
    BY <1>18 DEF SweepStop, Main
  <1>19. ASSUME NEW p \in Pids, CleanVisit(p) PROVE Parts'
    BY <1>19 DEF CleanVisit, Visit, Cleaner
  <1>20. ASSUME NEW p \in Pids, WorkerCheck(p) PROVE Parts'
    BY <1>20 DEF WorkerCheck, Worker
  <1>21. ASSUME NEW p \in Pids, WorkerAccept(p) PROVE Parts'
    BY <1>21 DEF WorkerAccept, Worker
  <1>22. ASSUME NEW p \in Pids, WorkerRecv(p) PROVE Parts'
    BY <1>22 DEF WorkerRecv, Worker, Served
  <1>23. ASSUME NEW p \in Pids, WorkerProcess(p) PROVE Parts'
    BY <1>23 DEF WorkerProcess, Worker, Served
  <1>24. ASSUME NEW p \in Pids, WorkerSend(p) PROVE Parts'
    BY <1>24 DEF WorkerSend, Worker, Served
  <1>25. ASSUME NEW p \in Pids, Exit(p) PROVE Parts'
    BY <1>25 DEF Exit
  <1>26. ASSUME NEW p \in Pids, Reuse(p) PROVE Parts'
    BY <1>26 DEF Reuse
  <1>27. ASSUME NEW p \in Pids, Expire(p) PROVE Parts'
    BY <1>27 DEF Expire
  <1>28. ASSUME NEW c \in Clients, Dial(c) PROVE Parts'
    BY <1>28 DEF Dial, NewDial
  <1>29. ASSUME NEW c \in Clients, DialChannel(c) PROVE Parts'
    BY <1>29 DEF DialChannel, NewDial
  <1>30. ASSUME NEW c \in Clients, HangUp(c) PROVE Parts'
    BY <1>30 DEF HangUp
  <1> QED
    BY <1>1, <1>2, <1>3, <1>4, <1>5, <1>6, <1>7, <1>8, <1>9, <1>10, <1>11,
       <1>12, <1>13, <1>14, <1>15, <1>16, <1>17, <1>18, <1>19, <1>20, <1>21,
       <1>22, <1>23, <1>24, <1>25, <1>26, <1>27, <1>28, <1>29, <1>30
       DEF Next, DaemonStep, MainStep, CleanStep, WorkerStep, Weather

-----------------------------------------------------------------------------
(* The daemon starts with no session and no client. *)
LEMMA DaemonInitially == ASSUME Init PROVE DaemonInv
  <1>1. Control
    <2>1. starts \in 0..MaxStarts + 1  BY DaemonAssumption DEF Init
    <2>2. running_ \in BOOLEAN /\ handler \in BOOLEAN  BY Zenon DEF Init
    <2> QED  BY <2>1, <2>2 DEF Init, Control, Locked
  <1>2. Traffic  BY DaemonAssumption DEF Init, Traffic, Dialled
  <1>3. Guarded /\ Scanning /\ Registering /\ StopOrder /\ Owned
    BY DEF Init, Guarded, Scanning, Registering, StopOrder, Owned, Locked
  <1> QED  BY <1>1, <1>2, <1>3, TypeParts DEF DaemonInv

(* DaemonInv holds in every reachable state. *)
THEOREM DaemonInvariant == Spec => []DaemonInv
  <1>1. Init => DaemonInv  BY DaemonInitially
  <1>2. ASSUME DaemonInv, [Next]_daemonVars PROVE DaemonInv'
    <2>1. CASE Next
      <3>1. Traffic'
        BY <1>2, <2>1, TypeParts, TrafficStep DEF DaemonInv
      <3>2. TypeOK'
        BY <1>2, <2>1, <3>1, ControlStep DEF TypeOK, Control, Traffic, Dialled
      <3> QED  BY <1>2, <2>1, <3>2, ControlStep DEF DaemonInv
    <2>2. CASE UNCHANGED daemonVars
      BY <1>2, <2>2
         DEF DaemonInv, TypeOK, Guarded, Scanning, Registering, StopOrder, Owned, Locked,
             daemonVars, mainVars, cleanVars, workVars, table, sockets
    <2> QED  BY <1>2, <2>1, <2>2
  <1> QED  BY <1>1, <1>2, PTL DEF Spec

(* Every variable keeps a value of its type. *)
THEOREM TypeCorrect == Spec => []TypeOK
  <1>1. DaemonInv => TypeOK  BY DEF DaemonInv
  <1> QED  BY <1>1, DaemonInvariant, PTL

(* client_sessions_ is touched only under sessions_mutex_, whatever the signal
   interrupts. *)
THEOREM GuardCorrect == Spec => []SessionsGuarded
  <1>1. DaemonInv => SessionsGuarded  BY DEF DaemonInv, Guarded, SessionsGuarded
  <1> QED  BY <1>1, DaemonInvariant, PTL

(* No worker thread outlives the session its raw pointer refers to. *)
THEOREM PointerCorrect == Spec => []NoUseAfterFree
  <1>1. DaemonInv => NoUseAfterFree  BY DEF DaemonInv, Owned, NoUseAfterFree
  <1> QED  BY <1>1, DaemonInvariant, PTL

(* A daemon that is over has left no thread and no session behind. *)
THEOREM ShutdownCorrect == Spec => []ShutdownClean
  <1>1. DaemonInv => ShutdownClean
    BY DEF DaemonInv, StopOrder, Owned, ShutdownClean
  <1> QED  BY <1>1, DaemonInvariant, PTL

-----------------------------------------------------------------------------
(***************************************************************************)
(* Why the daemon ends: somebody can always go on, and who goes on gets    *)
(* nearer to the end.                                                      *)
(***************************************************************************)
(* The threads of the daemon cannot wait for each other, but for the signal handler
   that joins the cleanup thread while the main thread holds sessions_mutex_. *)
THEOREM DeadlockCorrect == Spec => []OneDeadlock
  <1>1. ASSUME DaemonInv PROVE OneDeadlock
    <2> SUFFICES ASSUME main # "done", ~(handler /\ mutex = "main" /\ cleaner = "sleep"),
                        \A p \in Pids : Ended(p)
                 PROVE  MainMoves \/ CleanMoves
      BY DEF OneDeadlock, WorkerMoves
    <2>0. Control /\ Guarded /\ Scanning  BY <1>1, TypeParts DEF DaemonInv
    <2>1. CASE cleaner \in {"check", "scan"}
      BY <2>1 DEF CleanMoves
    <2>2. CASE cleaner = "join"
      BY <2>0, <2>2 DEF CleanMoves, Scanning, Control
    <2>3. CASE cleaner = "sleep" /\ mutex # "none"
      <3>1. main \in Locked /\ ~handler  BY <2>0, <2>3 DEF Control, Guarded
      <3> QED  BY <2>0, <3>1 DEF MainMoves, Locked, Control
    <2>4. CASE cleaner = "sleep" /\ mutex = "none"
      BY <2>4 DEF CleanMoves
    <2>5. CASE cleaner = "done" /\ ~handler
      <3>1. main \in {"lock", "sweep"} => mutex = "none"
        BY <2>0, <2>5 DEF Control, Guarded, Locked
      <3> QED  BY <2>0, <2>5, <3>1 DEF MainMoves, Locked, Control
    <2>6. CASE cleaner = "done" /\ handler
      BY <2>6 DEF MainMoves
    <2> QED
      BY <2>0, <2>1, <2>2, <2>3, <2>4, <2>5, <2>6 DEF Control
  <1> QED  BY <1>1, DaemonInvariant, PTL

(* What a step after stop() does, for the rest of this section. *)
Nearer ==
  /\ main' # main => MainRank(main') < MainRank(main)
  /\ cleanVars' # cleanVars => ScanAdvances
  /\ \A p \in Pids : /\ WorkLeft(main', worker'[p]) <= WorkLeft(main, worker[p])
                    /\ worker'[p] # worker[p] =>
                         WorkLeft(main', worker'[p]) < WorkLeft(main, worker[p])
  /\ main = "sweeping" /\ main' = main => stopping \subseteq stopping'

MainPcs   == {"check", "accept", "recv", "lock", "lookup", "spawn", "reply", "sweep",
              "sweeping", "done"}
WorkerPcs == {"none", "check", "accept", "recv", "process", "send", "exited"}

(* The ranks are numbers, in the order in which the threads pass through the
   places, and when a worker is started its own has been paid for. *)
LEMMA Ranks ==
  /\ MainRank("check") = 3 /\ MainRank("accept") = 9 /\ MainRank("recv") = 8
  /\ MainRank("lock") = 7 /\ MainRank("lookup") = 6 /\ MainRank("spawn") = 5
  /\ MainRank("reply") = 4 /\ MainRank("sweep") = 2 /\ MainRank("sweeping") = 1
  /\ MainRank("done") = 0
  /\ WorkerRank("none") = 0 /\ WorkerRank("check") = 2 /\ WorkerRank("accept") = 6
  /\ WorkerRank("recv") = 5 /\ WorkerRank("process") = 4 /\ WorkerRank("send") = 3
  /\ WorkerRank("exited") = 1
  BY DEF MainRank, WorkerRank

(* The main thread moves on, the workers do not move. *)
LEMMA MainNearer ==
  ASSUME NEW from \in MainPcs, NEW to \in MainPcs, main = from, main' = to,
         to = from \/ MainRank(to) < MainRank(from), worker \in [Pids -> WorkerPcs],
         UNCHANGED <<worker, cleanVars>>, main = "sweeping" => stopping \subseteq stopping'
  PROVE  Nearer
  BY Ranks DEF Nearer, WorkLeft, MainPcs, WorkerPcs

(* One worker moves on. *)
LEMMA WorkerNearer ==
  ASSUME NEW p \in Pids, NEW from \in WorkerPcs, NEW to \in WorkerPcs, Worker(p, from, to),
         WorkerRank(to) < WorkerRank(from), main \in MainPcs,
         worker \in [Pids -> WorkerPcs],
         UNCHANGED <<main, cleanVars, stopping>>
  PROVE  Nearer
  BY Ranks DEF Nearer, WorkLeft, MainPcs, WorkerPcs, Worker

(* Neither moves. *)
LEMMA ThreadsStay ==
  ASSUME UNCHANGED <<main, worker>>, main \in MainPcs, worker \in [Pids -> WorkerPcs],
         cleanVars' # cleanVars => ScanAdvances,
         main = "sweeping" => stopping \subseteq stopping'
  PROVE  Nearer
  BY Ranks DEF Nearer, WorkLeft, MainPcs, WorkerPcs

(* Once stop() has been called, every step of a thread brings it nearer to its
   end. *)
THEOREM ShutdownAdvancesCorrect == Spec => ShutdownAdvances
  <1>1. ASSUME DaemonInv, Next, ~running_, ~running_' PROVE Nearer
    <2>0. Control /\ Guarded /\ Scanning /\ Registering /\ StopOrder /\ Owned
      BY <1>1, TypeParts DEF DaemonInv
    <2>t. main \in MainPcs /\ worker \in [Pids -> WorkerPcs]
      BY <2>0 DEF Control, Locked, MainPcs, WorkerPcs
    <2> USE DEF mainVars, cleanVars, workVars, table, sockets
    <2>1. CASE MainCheck
      BY <1>1, <2>1, <2>t, Ranks, MainNearer DEF MainCheck, Main, MainPcs
    <2>2. CASE MainAccept
      BY <2>2, <2>t, Ranks, MainNearer DEF MainAccept, Main, MainPcs
    <2>3. CASE MainRecv
      BY <2>3, <2>t, Ranks, MainNearer DEF MainRecv, Main, MainPcs
    <2>4. CASE RegisterLock
      BY <2>4, <2>t, Ranks, MainNearer DEF RegisterLock, EnterRegistration, Main, MainPcs
    <2>5. CASE RegisterLookup
      BY <2>5, <2>t, Ranks, MainNearer DEF RegisterLookup, Main, MainPcs
    <2>6. CASE RegisterSpawn
      <3>1. CASE main' = "check" /\ UNCHANGED worker
        BY <2>6, <3>1, <2>t, Ranks, MainNearer DEF RegisterSpawn, Main, MainPcs
      <3>2. CASE main' = "reply"
                 /\ worker' = [worker EXCEPT ![PidOf[request[1]]] = "check"]
        <4>1. main = "spawn" /\ worker[PidOf[request[1]]] = "none"
              /\ UNCHANGED cleanVars
          BY <2>0, <2>6 DEF RegisterSpawn, Main, Registering
        <4> QED  BY <2>t, <3>2, <4>1, Ranks DEF Nearer, WorkLeft, WorkerPcs
      <3> QED  BY <2>6, <3>1, <3>2 DEF RegisterSpawn, Main
    <2>7. CASE RegisterReply
      BY <2>7, <2>t, Ranks, MainNearer DEF RegisterReply, Main, MainPcs
    <2>8. CASE SweepLock
      BY <2>8, <2>t, Ranks, MainNearer DEF SweepLock, Main, MainPcs
    <2>9. CASE SweepClear
      BY <2>9, <2>t, Ranks DEF SweepClear, Main, Nearer, WorkLeft, WorkerPcs
    <2>10. CASE StopJoined
      BY <2>10, <2>t, ThreadsStay DEF StopJoined, HandlerReturns
    <2>11. CASE CleanCheck
      <3>1. ScanAdvances
        BY <1>1, <2>11 DEF CleanCheck, Cleaner, ScanAdvances, CleanPhase
      <3> QED  BY <2>11, <2>t, <3>1, ThreadsStay DEF CleanCheck
    <2>12. CASE CleanLock
      <3>1. ScanAdvances
        BY <2>12 DEF CleanLock, Cleaner, ScanAdvances, CleanPhase
      <3> QED  BY <2>12, <2>t, <3>1, ThreadsStay DEF CleanLock
    <2>13. CASE CleanErase
      <3>1. main # "sweeping" /\ victim \in Pids
        BY <2>0, <2>13 DEF CleanErase, EraseVictim, Cleaner, Guarded, Scanning, Locked,
                           Control
      <3>2. ScanAdvances
        BY <2>13 DEF CleanErase, EraseVictim, Cleaner, ScanAdvances
      <3> QED
        BY <2>13, <2>t, <3>1, <3>2, Ranks
        DEF CleanErase, EraseVictim, Nearer, WorkLeft, WorkerPcs, MainPcs
    <2>14. CASE CleanUnlock
      <3>1. ScanAdvances
        BY <2>14 DEF CleanUnlock, EndScan, Cleaner, ScanAdvances, CleanPhase
      <3> QED  BY <2>14, <2>t, <3>1, ThreadsStay DEF CleanUnlock, EndScan
    <2>15. CASE Signal
      BY <1>1, <2>15 DEF Signal
    <2>16. CASE Kill
      <3>1. main # "done" /\ main' = "done" /\ \A p \in Pids : worker'[p] = "none"
        BY <2>16 DEF Kill
      <3>2. cleanVars' # cleanVars => ScanAdvances
        <4>1. cleaner' = "done" /\ todo' = {} /\ victim' = NoPid
          BY <2>16 DEF Kill
        <4> QED  BY <4>1, <2>0 DEF ScanAdvances, CleanPhase, Control, Scanning
      <3> QED
        BY <2>t, <3>1, <3>2, Ranks DEF Nearer, WorkLeft, WorkerPcs, MainPcs
    <2>17. CASE Start
      BY <1>1, <2>17 DEF Start
    <2>18. ASSUME NEW p \in Pids, SweepStop(p) PROVE Nearer
      BY <2>18, <2>t, ThreadsStay DEF SweepStop, Main
    <2>19. ASSUME NEW p \in Pids, CleanVisit(p) PROVE Nearer
      <3>1. ScanAdvances
        BY <2>19 DEF CleanVisit, Visit, Cleaner, ScanAdvances, CleanPhase
      <3> QED  BY <2>19, <2>t, <3>1, ThreadsStay DEF CleanVisit, Visit
    <2>20. ASSUME NEW p \in Pids, WorkerCheck(p) PROVE Nearer
      BY <1>1, <2>20, <2>t, Ranks, WorkerNearer DEF WorkerCheck, WorkerPcs
    <2>21. ASSUME NEW p \in Pids, WorkerAccept(p) PROVE Nearer
      BY <2>21, <2>t, Ranks, WorkerNearer DEF WorkerAccept, WorkerPcs
    <2>22. ASSUME NEW p \in Pids, WorkerRecv(p) PROVE Nearer
      BY <2>22, <2>t, Ranks, WorkerNearer DEF WorkerRecv, WorkerPcs
    <2>23. ASSUME NEW p \in Pids, WorkerProcess(p) PROVE Nearer
      BY <2>23, <2>t, Ranks, WorkerNearer DEF WorkerProcess, WorkerPcs
    <2>24. ASSUME NEW p \in Pids, WorkerSend(p) PROVE Nearer
      BY <2>24, <2>t, Ranks, WorkerNearer DEF WorkerSend, WorkerPcs
    <2>25. ASSUME NEW p \in Pids, Exit(p) \/ Reuse(p) \/ Expire(p) PROVE Nearer
      BY <2>25, <2>t, ThreadsStay DEF Exit, Reuse, Expire
    <2>26. ASSUME NEW c \in Clients, Dial(c) \/ DialChannel(c) \/ HangUp(c) PROVE Nearer
      BY <2>26, <2>t, ThreadsStay DEF Dial, DialChannel, NewDial, HangUp
    <2> QED
      BY <1>1, <2>1, <2>2, <2>3, <2>4, <2>5, <2>6, <2>7, <2>8, <2>9, <2>10, <2>11,
         <2>12, <2>13, <2>14, <2>15, <2>16, <2>17, <2>18, <2>19, <2>20, <2>21,
         <2>22, <2>23, <2>24, <2>25, <2>26
         DEF Next, DaemonStep, MainStep, CleanStep, WorkerStep, Weather
  <1>2. DaemonInv /\ [Next]_daemonVars =>
          [~running_ /\ ~running_' =>
             /\ main' # main => MainRank(main') < MainRank(main)
             /\ cleanVars' # cleanVars => ScanAdvances
             /\ \A p \in Pids : /\ WorkLeft(main', worker'[p]) <= WorkLeft(main, worker[p])
                               /\ worker'[p] # worker[p] =>
                                    WorkLeft(main', worker'[p]) < WorkLeft(main, worker[p])
             /\ main = "sweeping" /\ main' = main => stopping \subseteq stopping'
          ]_daemonVars
    BY <1>1 DEF Nearer
  <1> QED  BY <1>2, DaemonInvariant, PTL DEF Spec, ShutdownAdvances
=============================================================================
