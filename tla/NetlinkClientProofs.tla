------------------------ MODULE NetlinkClientProofs ------------------------
(***************************************************************************)
(* What NetlinkClient's runs check of the requests, proved for every       *)
(* number of processes, threads and connections.  The client is an         *)
(* environment that module Daemon allows, so what DaemonProofs shows of    *)
(* the daemon holds here; the rest is about the identity of connections:   *)
(* no connection is in two places, and none comes back.                    *)
(***************************************************************************)
EXTENDS NetlinkClient, DaemonProofs

Elems(q)    == {q[i] : i \in 1..Len(q)}
Distinct(q) == \A i, j \in 1..Len(q) : q[i] = q[j] => i = j

(* A connection its client has made already. *)
Made(x) == x[2] <= dial[x[1]].n

(* A connection at the main socket is not one on which its client waits for the
   answer to a request. *)
ForRegistration(x) == Made(x) /\ (pc[x[1]] = "waiting" => x[2] # dial[x[1]].n)

RegistrationSide ==
  /\ \A x \in Elems(regq) : ForRegistration(x)
  /\ main \in {"recv", "lock", "lookup", "spawn", "reply"} => ForRegistration(request)

(* A connection at a session's socket is of that process, and new. *)
Queue(p) ==
  /\ \A x \in Elems(chanq[p]) : PidOf[x[1]] = p /\ Made(x) /\ x \notin processed
  /\ Distinct(chanq[p])

(* The connection a worker serves has left the queue, and its request is processed
   between recv and send. *)
Serving(p) ==
  /\ worker[p] \in {"recv", "process", "send"} =>
       /\ serving[p] \in Conns /\ PidOf[serving[p][1]] = p
       /\ Made(serving[p]) /\ serving[p] \notin Elems(chanq[p])
  /\ worker[p] \in {"recv", "process"} => serving[p] \notin processed
  /\ worker[p] = "send" => serving[p] \in processed

ClientInv ==
  /\ ClientTypeOK /\ ResponseMeansProcessed
  /\ RegistrationSide
  /\ \A p \in Pids : Queue(p) /\ Serving(p)
  /\ \A x \in processed : Made(x)

-----------------------------------------------------------------------------
(* Taking the head of a queue, and adding to one. *)
LEMMA TailElems ==
  ASSUME NEW q \in Seq(Conns), q # <<>>
  PROVE  /\ Head(q) \in Elems(q) /\ Elems(Tail(q)) \subseteq Elems(q)
         /\ Distinct(q) => Distinct(Tail(q)) /\ Head(q) \notin Elems(Tail(q))
  <1>1. /\ Len(q) \in Nat /\ Len(q) > 0 /\ Len(Tail(q)) = Len(q) - 1 /\ Head(q) = q[1]
        /\ \A i \in 1..Len(Tail(q)) : Tail(q)[i] = q[i + 1]
    OBVIOUS
  <1> QED  BY <1>1 DEF Elems, Distinct

LEMMA AppendElems ==
  ASSUME NEW q \in Seq(Conns), NEW x \in Conns
  PROVE  /\ Elems(Append(q, x)) = Elems(q) \cup {x}
         /\ Distinct(q) /\ x \notin Elems(q) => Distinct(Append(q, x))
  <1>1. /\ Len(q) \in Nat /\ Len(Append(q, x)) = Len(q) + 1
        /\ Append(q, x)[Len(q) + 1] = x
        /\ \A i \in 1..Len(q) : Append(q, x)[i] = q[i]
    OBVIOUS
  <1> QED  BY <1>1 DEF Elems, Distinct

LEMMA EmptyElems == Elems(<<>>) = {} /\ Distinct(<<>>)
  BY DEF Elems, Distinct

LEMMA ElemsConns == ASSUME NEW q \in Seq(Conns) PROVE Elems(q) \subseteq Conns
  BY DEF Elems

-----------------------------------------------------------------------------
(* The client's steps are steps that module Daemon allows its environment. *)
LEMMA StepUsesDaemon == ASSUME [ClientNext]_vars PROVE [Next]_daemonVars
  <1>1. ASSUME NEW c \in Clients, ClientStep(c) PROVE [Next]_daemonVars
    BY <1>1 DEF ClientStep, Create, Enter, Register, RegisterAnswer, ConnectRefused,
                ConnectGarbled, Connect, Response, Fallback, Next
  <1>2. ASSUME NEW c \in Clients, NEW o \in {"set", "query"}, Call(c, o)
        PROVE  [Next]_daemonVars
    BY <1>2 DEF Call
  <1>3. ASSUME NEW p \in Pids, ProcessExit(p) \/ Process(p) PROVE [Next]_daemonVars
    BY <1>3 DEF ProcessExit, Process, Next, DaemonStep, WorkerStep, Weather
  <1>4. CASE DaemonMoves
    BY <1>4 DEF DaemonMoves, Next, DaemonStep, WorkerStep, Weather
  <1>5. CASE UNCHANGED vars
    BY <1>5 DEF vars
  <1> QED  BY <1>1, <1>2, <1>3, <1>4, <1>5 DEF ClientNext

(* NetlinkClient and the daemon together are a behaviour of the daemon with an
   arbitrary client, so what is proved of module Daemon holds of them. *)
THEOREM UsesDaemon == ClientSpec => Spec
  <1>1. ClientInit => Init  BY DEF ClientInit
  <1> QED  BY <1>1, StepUsesDaemon, PTL DEF ClientSpec, Spec

(* Between real clients, too, the map is used under its mutex, no worker outlives
   its session, a shutdown leaves nothing behind, the daemon's threads wait for each
   other in one way only and go straight to their end after stop(). *)
THEOREM ClientInherits ==
  ClientSpec => /\ [](SessionsGuarded /\ NoUseAfterFree /\ ShutdownClean /\ OneDeadlock)
                /\ ShutdownAdvances
BY UsesDaemon, GuardCorrect, PointerCorrect, ShutdownCorrect, DeadlockCorrect,
   ShutdownAdvancesCorrect, PTL

-----------------------------------------------------------------------------
(* What the daemon may do to the connections, apart from processing a request. *)
Registers == {"recv", "lock", "lookup", "spawn", "reply"}

Answers ==
  \A c \in Clients :
    /\ dial'[c].n = dial[c].n
    /\ (dial'[c].state = "closed") <=> (dial[c].state = "closed")
    /\ dial'[c].state = "ok" =>
         \/ dial[c].state = "ok"
         \/ main \in Registers /\ request = <<c, dial[c].n>>
         \/ \E p \in Pids : worker[p] = "send" /\ serving[p] = <<c, dial[c].n>>

Accepts ==
  /\ Elems(regq') \subseteq Elems(regq)
  /\ main' \in Registers =>
       request' \in Elems(regq) \/ (main \in Registers /\ request' = request)

Serves(p) ==
  /\ \/ chanq'[p] = chanq[p] \/ chanq'[p] = <<>>
     \/ chanq[p] # <<>> /\ chanq'[p] = Tail(chanq[p])
  /\ worker'[p] \in {"recv", "process", "send"} =>
       \/ worker'[p] = worker[p] /\ serving'[p] = serving[p]
       \/ worker'[p] = "process" /\ worker[p] = "recv" /\ serving'[p] = serving[p]
       \/ /\ worker'[p] = "recv" /\ chanq[p] # <<>>
          /\ serving'[p] = Head(chanq[p]) /\ chanq'[p] = Tail(chanq[p])

Moves == Answers /\ Accepts /\ \A p \in Pids : Serves(p)

(* An answer goes to the connection it is meant for. *)
LEMMA TellAnswers ==
  ASSUME Dialled, NEW conns, NEW what \in {"ok", "eof"}, Tell(conns, what),
         \A c \in Clients : what = "ok" /\ <<c, dial[c].n>> \in conns =>
           \/ main \in Registers /\ request = <<c, dial[c].n>>
           \/ \E p \in Pids : worker[p] = "send" /\ serving[p] = <<c, dial[c].n>>
  PROVE  Answers
  BY DEF Dialled, Tell, Answers

LEMMA SameAnswers == ASSUME UNCHANGED dial PROVE Answers
  BY DEF Answers

(* No step of the daemon but process_request does anything else to them. *)
LEMMA DaemonMovesThem ==
  ASSUME TypeOK, DaemonMoves
  PROVE  Moves
  <1>0. Traffic /\ Control /\ Dialled
    BY TypeParts DEF Traffic
  <1> USE <1>0 DEF Moves, Accepts, Serves, Registers, mainVars, cleanVars, workVars,
                   table, sockets
  <1>1. CASE MainCheck
    BY <1>1, SameAnswers
       DEF MainCheck, Main
  <1>2. CASE MainAccept
    BY <1>2, SameAnswers, TailElems
       DEF MainAccept, Main, Traffic
  <1>3. CASE MainRecv
    <2>1. Answers
      BY <1>3, TellAnswers, SameAnswers DEF MainRecv, Main, Finish
    <2> QED  BY <1>3, <2>1 DEF MainRecv, Main, Control
  <1>4. CASE RegisterLock
    BY <1>4, SameAnswers
       DEF RegisterLock, EnterRegistration, Main
  <1>5. CASE RegisterLookup
    <2>1. Answers
      BY <1>5, TellAnswers, SameAnswers DEF RegisterLookup, Main, Finish
    <2> QED  BY <1>5, <2>1 DEF RegisterLookup, Main, Control
  <1>6. CASE RegisterSpawn
    <2>1. Answers
      BY <1>6, TellAnswers, SameAnswers DEF RegisterSpawn, Main, Finish
    <2> QED  BY <1>6, <2>1 DEF RegisterSpawn, Main, Control
  <1>7. CASE RegisterReply
    BY <1>7, TellAnswers
       DEF RegisterReply, Main, Finish, Traffic
  <1>8. CASE SweepLock
    BY <1>8, SameAnswers
       DEF SweepLock, Main
  <1>9. CASE SweepClear
    BY <1>9, TellAnswers, EmptyElems
       DEF SweepClear, Main, Gone, Traffic, Control
  <1>10. CASE StopJoined
    BY <1>10, SameAnswers
       DEF StopJoined, HandlerReturns
  <1>11. CASE CleanCheck
    BY <1>11, SameAnswers
       DEF CleanCheck, Cleaner
  <1>12. CASE CleanLock
    BY <1>12, SameAnswers
       DEF CleanLock, Cleaner
  <1>13. CASE CleanErase
    BY <1>13, TellAnswers
       DEF CleanErase, Cleaner, EraseVictim, Traffic, Control
  <1>14. CASE CleanUnlock
    BY <1>14, SameAnswers
       DEF CleanUnlock, Cleaner, EndScan
  <1>15. CASE Signal
    BY <1>15, SameAnswers
       DEF Signal
  <1>16. CASE Kill
    BY <1>16, TellAnswers, EmptyElems
       DEF Kill, Gone, Traffic, Control
  <1>17. CASE Start
    BY <1>17, SameAnswers
       DEF Start
  <1>18. ASSUME NEW p \in Pids, SweepStop(p) PROVE Moves
    BY <1>18, SameAnswers
       DEF SweepStop, Main
  <1>19. ASSUME NEW p \in Pids, CleanVisit(p) PROVE Moves
    BY <1>19, SameAnswers
       DEF CleanVisit, Visit, Cleaner
  <1>20. ASSUME NEW p \in Pids, WorkerCheck(p) PROVE Moves
    BY <1>20, SameAnswers
       DEF WorkerCheck, Worker, Control
  <1>21. ASSUME NEW p \in Pids, WorkerAccept(p) PROVE Moves
    BY <1>21, SameAnswers, TailElems
       DEF WorkerAccept, Worker, Traffic, Control
  <1>22. ASSUME NEW p \in Pids, WorkerRecv(p) PROVE Moves
    <2>1. Answers
      BY <1>22, TellAnswers, SameAnswers DEF WorkerRecv, Worker, Served
    <2> QED  BY <1>22, <2>1 DEF WorkerRecv, Worker, Served, Traffic, Control
  <1>23. ASSUME NEW p \in Pids, WorkerSend(p) PROVE Moves
    <2>1. Answers
      BY <1>23, TellAnswers, SameAnswers DEF WorkerSend, Worker, Served
    <2> QED  BY <1>23, <2>1 DEF WorkerSend, Worker, Served, Traffic, Control
  <1>24. ASSUME NEW p \in Pids, Reuse(p) PROVE Moves
    BY <1>24, SameAnswers
       DEF Reuse
  <1>25. ASSUME NEW p \in Pids, Expire(p) PROVE Moves
    BY <1>25, SameAnswers
       DEF Expire
  <1> QED
    BY <1>1, <1>2, <1>3, <1>4, <1>5, <1>6, <1>7, <1>8, <1>9, <1>10, <1>11, <1>12, <1>13,
       <1>14, <1>15, <1>16, <1>17, <1>18, <1>19, <1>20, <1>21, <1>22, <1>23, <1>24, <1>25
       DEF DaemonMoves, MainStep, CleanStep

-----------------------------------------------------------------------------
(* ClientTypeOK in parts. *)
ClientTypes ==
  /\ pc \in [Clients -> {"idle", "create", "enter", "register", "registering",
                         "connect", "waiting", "fallback"}]
  /\ op \in [Clients -> {"set", "query", "none"}]
  /\ initialized_ \in [Pids -> BOOLEAN] /\ registered_ \in [Pids -> BOOLEAN]
  /\ stale \subseteq Clients /\ refused \in [Clients -> BOOLEAN]
  /\ processed \subseteq Conns

Linked ==
  \A c \in Clients : (dial[c].state # "closed") <=> (pc[c] \in {"registering", "waiting"})

LEMMA ClientTypeParts == ClientTypeOK <=> TypeOK /\ ClientTypes /\ Linked
  BY DEF ClientTypeOK, ClientTypes, Linked

LEMMA TrafficTypes ==
  ASSUME TypeOK
  PROVE  /\ request \in Conns \cup {<<>>} /\ regq \in Seq(Conns)
         /\ chanq \in [Pids -> Seq(Conns)] /\ Dialled
         /\ serving \in [Pids -> Conns \cup {<<>>}]
  BY DEF TypeOK, Dialled

LEMMA ConnParts ==
  ASSUME NEW x \in Conns
  PROVE  x[1] \in Clients /\ x[2] \in 1..MaxDials /\ x = <<x[1], x[2]>>
  BY DEF Conns

(* The daemon's other steps keep all of the invariant. *)
LEMMA MovesKeep ==
  ASSUME DaemonInv, ClientInv, TypeOK', Moves, UNCHANGED <<clientVars, processed>>
  PROVE  ClientInv'
  <1> TypeOK /\ ClientTypes /\ Linked
    BY ClientTypeParts DEF ClientInv
  <1> /\ request \in Conns \cup {<<>>} /\ regq \in Seq(Conns)
      /\ chanq \in [Pids -> Seq(Conns)] /\ serving \in [Pids -> Conns \cup {<<>>}]
    BY TrafficTypes
  <1>0. Elems(regq) \subseteq Conns /\ \A p \in Pids : Elems(chanq[p]) \subseteq Conns
    BY ElemsConns
  <1>1. /\ \A x \in Conns : dial'[x[1]].n = dial[x[1]].n
        /\ pc' = pc /\ processed' = processed
    BY ConnParts DEF Moves, Answers, clientVars
  <1>2. ResponseMeansProcessed'
    <2> SUFFICES ASSUME NEW c \in Clients, pc[c] = "waiting", dial'[c].state = "ok"
                 PROVE  <<c, dial[c].n>> \in processed
      BY DEF ResponseMeansProcessed, Moves, Answers, clientVars
    <2>1. CASE dial[c].state = "ok"
      BY <2>1 DEF ClientInv, ResponseMeansProcessed
    <2>2. CASE main \in Registers /\ request = <<c, dial[c].n>>
      BY <2>2 DEF ClientInv, RegistrationSide, ForRegistration, Registers
    <2>3. CASE \E p \in Pids : worker[p] = "send" /\ serving[p] = <<c, dial[c].n>>
      BY <2>3 DEF ClientInv, Serving
    <2> QED  BY <2>1, <2>2, <2>3 DEF Moves, Answers
  <1>3. RegistrationSide'
    <2>1. \A x \in Elems(regq') : ForRegistration(x)'
      BY <1>0, <1>1 DEF Moves, Accepts, ClientInv, RegistrationSide, ForRegistration, Made
    <2>2. main' \in Registers => request' \in Conns /\ ForRegistration(request')
      BY <1>0
         DEF Moves, Accepts, ClientInv, RegistrationSide, Registers, DaemonInv, Registering
    <2>3. main' \in Registers => ForRegistration(request)'
      BY <1>1, <2>2 DEF ForRegistration, Made
    <2> QED  BY <2>1, <2>3 DEF RegistrationSide, Registers
  <1>4. ASSUME NEW p \in Pids PROVE Queue(p)' /\ Serving(p)'
    <2>1. /\ Elems(chanq'[p]) \subseteq Elems(chanq[p]) /\ Distinct(chanq'[p])
      <3>1. chanq[p] \in Seq(Conns) /\ Distinct(chanq[p])
        BY DEF ClientInv, Queue
      <3>2. CASE chanq'[p] = chanq[p] \/ chanq'[p] = <<>>
        BY <3>1, <3>2, EmptyElems
      <3>3. CASE chanq[p] # <<>> /\ chanq'[p] = Tail(chanq[p])
        BY <3>1, <3>3, TailElems
      <3> QED  BY <3>2, <3>3 DEF Moves, Serves
    <2>2. Queue(p)'
      BY <1>0, <1>1, <2>1 DEF ClientInv, Queue, Made
    <2>3. CASE worker'[p] \in {"recv", "process", "send"} /\ serving'[p] = serving[p]
               /\ (worker'[p] = worker[p] \/ (worker'[p] = "process" /\ worker[p] = "recv"))
      BY <1>1, <2>1, <2>2, <2>3 DEF ClientInv, Serving, Made
    <2>4. CASE /\ worker'[p] = "recv" /\ chanq[p] # <<>>
               /\ serving'[p] = Head(chanq[p]) /\ chanq'[p] = Tail(chanq[p])
      BY <1>0, <1>1, <2>2, <2>4, TailElems DEF ClientInv, Queue, Serving, Made
    <2>5. CASE worker'[p] \notin {"recv", "process", "send"}
      BY <2>2, <2>5 DEF Serving
    <2>6. Serves(p)
      BY DEF Moves
    <2> QED  BY <2>2, <2>3, <2>4, <2>5, <2>6 DEF Serves
  <1>5. \A x \in processed' : Made(x)'
    BY <1>1 DEF ClientInv, ClientTypes, Made
  <1>6. ClientTypes' /\ Linked'
    BY DEF ClientTypes, Linked, Moves, Answers, clientVars
  <1>7. ClientTypeOK'
    BY <1>6 DEF ClientTypeOK, ClientTypes, Linked
  <1> QED  BY <1>2, <1>3, <1>4, <1>5, <1>7 DEF ClientInv

-----------------------------------------------------------------------------
(* The same for process_request, which every connection meets once. *)
LEMMA ProcessKeeps ==
  ASSUME DaemonInv, ClientInv, TypeOK', NEW w \in Pids, Process(w)
  PROVE  ClientInv'
  <1> TypeOK /\ ClientTypes /\ Linked
    BY ClientTypeParts DEF ClientInv
  <1> /\ request \in Conns \cup {<<>>} /\ regq \in Seq(Conns) /\ Dialled
      /\ chanq \in [Pids -> Seq(Conns)] /\ serving \in [Pids -> Conns \cup {<<>>}]
      /\ worker[w] = "process" /\ worker \in [Pids -> {"none", "check", "accept", "recv",
                                                      "process", "send", "exited"}]
    BY TrafficTypes DEF TypeOK, Process, WorkerProcess, Worker
  <1>0. Elems(regq) \subseteq Conns /\ \A p \in Pids : Elems(chanq[p]) \subseteq Conns
    BY ElemsConns
  <1>1. Answers
    BY TellAnswers, SameAnswers DEF Process, WorkerProcess, Worker, Served
  <1>2. /\ UNCHANGED <<regq, chanq, main, request, pc>> /\ processed' = processed \cup {serving[w]}
        /\ \A x \in Conns : dial'[x[1]].n = dial[x[1]].n
    BY <1>1, ConnParts
       DEF Process, WorkerProcess, Answers, clientVars, mainVars, sockets
  <1>3. /\ serving[w] \in Conns /\ PidOf[serving[w][1]] = w /\ Made(serving[w])
        /\ serving[w] \notin Elems(chanq[w]) /\ serving[w] \notin processed
    BY DEF ClientInv, Serving
  <1>4. ResponseMeansProcessed'
    <2> SUFFICES ASSUME NEW c \in Clients, pc[c] = "waiting", dial'[c].state = "ok"
                 PROVE  <<c, dial[c].n>> \in processed
      BY <1>1, <1>2 DEF ResponseMeansProcessed, Answers
    <2>1. dial[c].state = "ok"
      <3>1. CASE UNCHANGED dial
        BY <3>1
      <3>2. CASE Tell({serving[w]}, "eof")
        BY <3>2 DEF Tell, Dialled
      <3> QED  BY <3>1, <3>2 DEF Process, WorkerProcess, Served
    <2> QED  BY <2>1 DEF ClientInv, ResponseMeansProcessed
  <1>5. RegistrationSide'
    BY <1>0, <1>2
    DEF ClientInv, RegistrationSide, ForRegistration, Made, DaemonInv, Registering
  <1>6. ASSUME NEW p \in Pids PROVE Queue(p)' /\ Serving(p)'
    <2>1. \A x \in Elems(chanq[p]) : x # serving[w]
      BY <1>3 DEF ClientInv, Queue
    <2>2. Queue(p)'
      BY <1>0, <1>2, <2>1 DEF ClientInv, Queue, Made
    <2>3. CASE p = w
      <3>1. \/ worker'[w] = "send" /\ serving' = serving
            \/ worker'[w] = "check"
        BY DEF Process, WorkerProcess, Worker
      <3> QED  BY <1>2, <1>3, <2>2, <2>3, <3>1 DEF Serving, Made
    <2>4. CASE p # w
      <3>1. worker'[p] = worker[p] /\ serving'[p] = serving[p]
        BY <2>4 DEF Process, WorkerProcess, Worker, Served
      <3>2. worker[p] \in {"recv", "process", "send"} => serving[p] # serving[w]
        BY <1>3, <2>4 DEF ClientInv, Serving
      <3> QED  BY <1>2, <2>2, <3>1, <3>2 DEF ClientInv, Serving, Made
    <2> QED  BY <2>3, <2>4
  <1>7. \A x \in processed' : Made(x)'
    BY <1>2, <1>3 DEF ClientInv, ClientTypes, Made
  <1>8. ClientTypeOK'
    BY <1>1, <1>2, <1>3
       DEF ClientTypeOK, ClientTypes, Linked, Answers, Process, clientVars
  <1> QED  BY <1>4, <1>5, <1>6, <1>7, <1>8 DEF ClientInv

-----------------------------------------------------------------------------
(* The client's steps keep the types of its own variables. *)
LEMMA TypesStep ==
  ASSUME TypeOK, ClientTypes, NEW c \in Clients,
         ClientStep(c) \/ (\E o \in {"set", "query"} : Call(c, o))
  PROVE  ClientTypes'
  <1>1. PidOf[c] \in Pids  BY DaemonAssumption
  <1> USE <1>1 DEF ClientTypes, Goto, Leave, Return, Fail, Entry
  <1>2. ASSUME NEW o \in {"set", "query"}, Call(c, o) PROVE ClientTypes'
    BY <1>2 DEF Call
  <1>3. CASE Create(c)
    BY <1>3 DEF Create
  <1>4. CASE Enter(c)
    BY <1>4 DEF Enter
  <1>5. CASE Register(c)
    BY <1>5 DEF Register
  <1>6. CASE RegisterAnswer(c)
    BY <1>6 DEF RegisterAnswer
  <1>7. CASE ConnectRefused(c)
    BY <1>7 DEF ConnectRefused
  <1>8. CASE ConnectGarbled(c)
    BY <1>8 DEF ConnectGarbled
  <1>9. CASE Connect(c)
    BY <1>9 DEF Connect
  <1>10. CASE Response(c)
    BY <1>10 DEF Response
  <1>11. CASE Fallback(c)
    BY <1>11 DEF Fallback
  <1> QED
    BY <1>2, <1>3, <1>4, <1>5, <1>6, <1>7, <1>8, <1>9, <1>10, <1>11 DEF ClientStep

(* The threads of which a step says nothing but that they are where they were, and
   the others, which have no connection afterwards. *)
Calms ==
  /\ UNCHANGED <<running_, mainVars, cleanVars, workVars, table, regq, chanq, starts,
                 processed>>
  /\ \A c \in Clients :
       /\ dial'[c].n = dial[c].n
       /\ \/ dial'[c] = dial[c] /\ pc'[c] = pc[c]
          \/ dial'[c].state = "closed" /\ pc'[c] \notin {"registering", "waiting"}

(* A thread that has hung up, or that never had a connection, upsets nothing. *)
LEMMA CalmsKeep ==
  ASSUME DaemonInv, ClientInv, TypeOK', ClientTypes', Calms
  PROVE  ClientInv'
  <1> TypeOK /\ ClientTypes /\ Linked
    BY ClientTypeParts DEF ClientInv
  <1> /\ request \in Conns \cup {<<>>} /\ regq \in Seq(Conns)
      /\ chanq \in [Pids -> Seq(Conns)] /\ serving \in [Pids -> Conns \cup {<<>>}]
    BY TrafficTypes
  <1>0. Elems(regq) \subseteq Conns /\ \A p \in Pids : Elems(chanq[p]) \subseteq Conns
    BY ElemsConns
  <1>1. /\ \A x \in Conns : /\ dial'[x[1]].n = dial[x[1]].n
                            /\ pc'[x[1]] = "waiting" => pc[x[1]] = "waiting"
        /\ UNCHANGED <<main, request, worker, serving, regq, chanq, processed>>
    BY ConnParts DEF Calms, mainVars, workVars
  <1>2. ResponseMeansProcessed'
    BY DEF ClientInv, ResponseMeansProcessed, Calms
  <1>3. RegistrationSide'
    BY <1>0, <1>1
    DEF ClientInv, RegistrationSide, ForRegistration, Made, DaemonInv, Registering
  <1>4. ASSUME NEW p \in Pids PROVE Queue(p)' /\ Serving(p)'
    BY <1>0, <1>1 DEF ClientInv, Queue, Serving, Made
  <1>5. \A x \in processed' : Made(x)'
    BY <1>1 DEF ClientInv, ClientTypes, Made
  <1>6. Linked'
    BY DEF Linked, Calms
  <1>7. ClientTypeOK'
    BY <1>6 DEF ClientTypeOK, ClientTypes, Linked
  <1> QED  BY <1>2, <1>3, <1>4, <1>5, <1>7 DEF ClientInv

-----------------------------------------------------------------------------
(* A new connection has a number its thread never used. *)
LEMMA NewConn ==
  ASSUME TypeOK, NEW c \in Clients, NewDial(c)
  PROVE  /\ <<c, dial[c].n + 1>> \in Conns
         /\ dial' = [dial EXCEPT ![c] = [n |-> dial[c].n + 1, state |-> "waiting"]]
         /\ dial[c].n \in Nat
         /\ \A x \in Conns : Made(x) => x # <<c, dial[c].n + 1>> /\ Made(x)'
  <1>1. PidOf[c] \in Pids /\ dial[c].n \in 0..MaxDials /\ MaxDials \in Nat
        /\ dial[c].n < MaxDials
        /\ dial \in [Clients -> [n : 0..MaxDials, state : {"closed", "waiting", "ok", "eof"}]]
    BY DaemonAssumption DEF TypeOK, NewDial
  <1>2. dial' = [dial EXCEPT ![c] = [n |-> dial[c].n + 1, state |-> "waiting"]]
    BY DEF NewDial
  <1>3. <<c, dial[c].n + 1>> \in Conns
    <2>1. dial[c].n + 1 \in 1..MaxDials  BY <1>1
    <2> QED  BY <2>1 DEF Conns
  <1>4. ASSUME NEW x \in Conns, Made(x) PROVE x # <<c, dial[c].n + 1>> /\ Made(x)'
    BY <1>1, <1>2, <1>4, ConnParts DEF Made
  <1> QED  BY <1>1, <1>2, <1>3, <1>4

(* connect() to the main socket. *)
LEMMA RegisterKeeps ==
  ASSUME DaemonInv, ClientInv, TypeOK', ClientTypes', NEW c \in Clients,
         Dial(c), pc[c] = "register", Goto(c, "registering"), UNCHANGED processed
  PROVE  ClientInv'
  <1> TypeOK /\ ClientTypes /\ Linked
    BY ClientTypeParts DEF ClientInv
  <1> /\ request \in Conns \cup {<<>>} /\ regq \in Seq(Conns) /\ Dialled
      /\ chanq \in [Pids -> Seq(Conns)] /\ serving \in [Pids -> Conns \cup {<<>>}]
    BY TrafficTypes
  <1> DEFINE new == <<c, dial[c].n + 1>>
  <1>0. Elems(regq) \subseteq Conns /\ \A p \in Pids : Elems(chanq[p]) \subseteq Conns
    BY ElemsConns
  <1>1. /\ new \in Conns /\ dial[c].n \in Nat
        /\ dial' = [dial EXCEPT ![c] = [n |-> dial[c].n + 1, state |-> "waiting"]]
        /\ \A x \in Conns : Made(x) => x # new /\ dial'[x[1]].n >= x[2]
    BY NewConn DEF Dial, Made
  <1>2. /\ regq' = Append(regq, new)
        /\ UNCHANGED <<main, request, worker, serving, chanq, processed>>
        /\ pc' = [pc EXCEPT ![c] = "registering"]
    BY DEF Dial, NewDial, Goto, mainVars, workVars
  <1>3. Elems(regq') = Elems(regq) \cup {new}
    BY <1>1, <1>2, AppendElems
  <1>4. \A x \in Conns : ForRegistration(x) \/ x = new => ForRegistration(x)'
    <2> SUFFICES ASSUME NEW x \in Conns, ForRegistration(x) \/ x = new
                 PROVE  /\ x[2] <= dial'[x[1]].n
                        /\ pc'[x[1]] = "waiting" => x[2] # dial'[x[1]].n
      BY DEF ForRegistration, Made
    <2>1. CASE x[1] = c
      BY <1>1, <1>2, <2>1 DEF ForRegistration, ClientTypes, Dialled
    <2>2. CASE x[1] # c
      BY <1>1, <1>2, <2>2, ConnParts DEF ForRegistration, Made, ClientTypes, Dialled
    <2> QED  BY <2>1, <2>2
  <1>5. RegistrationSide'
    BY <1>0, <1>1, <1>2, <1>3, <1>4
       DEF ClientInv, RegistrationSide, DaemonInv, Registering, ForRegistration, Made
  <1>6. ASSUME NEW p \in Pids PROVE Queue(p)' /\ Serving(p)'
    BY <1>0, <1>1, <1>2 DEF ClientInv, Queue, Serving, Made
  <1>7. \A x \in processed' : Made(x)'
    BY <1>1, <1>2 DEF ClientInv, ClientTypes, Made
  <1>8. ResponseMeansProcessed' /\ Linked'
    BY <1>1, <1>2 DEF ClientInv, ResponseMeansProcessed, Linked, ClientTypes, Dialled
  <1>9. ClientTypeOK'
    BY <1>8 DEF ClientTypeOK, ClientTypes, Linked
  <1> QED  BY <1>5, <1>6, <1>7, <1>8, <1>9 DEF ClientInv

(* connect() to a session's socket. *)
LEMMA ConnectKeeps ==
  ASSUME DaemonInv, ClientInv, TypeOK', ClientTypes', NEW c \in Clients,
         DialChannel(c), pc[c] = "connect", Leave(c, "waiting"), UNCHANGED processed
  PROVE  ClientInv'
  <1> TypeOK /\ ClientTypes /\ Linked
    BY ClientTypeParts DEF ClientInv
  <1> /\ request \in Conns \cup {<<>>} /\ regq \in Seq(Conns) /\ Dialled
      /\ chanq \in [Pids -> Seq(Conns)] /\ serving \in [Pids -> Conns \cup {<<>>}]
    BY TrafficTypes
  <1> PidOf[c] \in Pids  BY DaemonAssumption
  <1> DEFINE new == <<c, dial[c].n + 1>>
  <1>0. Elems(regq) \subseteq Conns /\ \A p \in Pids : Elems(chanq[p]) \subseteq Conns
    BY ElemsConns
  <1>1. /\ new \in Conns /\ dial[c].n \in Nat
        /\ dial' = [dial EXCEPT ![c] = [n |-> dial[c].n + 1, state |-> "waiting"]]
        /\ \A x \in Conns : Made(x) => x # new /\ dial'[x[1]].n >= x[2]
    BY NewConn DEF DialChannel, Made
  <1>2. /\ chanq' = [chanq EXCEPT ![PidOf[c]] = Append(@, new)]
        /\ UNCHANGED <<main, request, worker, serving, regq, processed>>
        /\ pc' = [pc EXCEPT ![c] = "waiting"]
    BY DEF DialChannel, NewDial, Leave, mainVars, workVars
  <1>3. \A x \in Conns : ForRegistration(x) => ForRegistration(x)'
    <2> SUFFICES ASSUME NEW x \in Conns, ForRegistration(x)
                 PROVE  /\ x[2] <= dial'[x[1]].n
                        /\ pc'[x[1]] = "waiting" => x[2] # dial'[x[1]].n
      BY DEF ForRegistration, Made
    <2>1. CASE x[1] = c
      BY <1>1, <1>2, <2>1, ConnParts DEF ForRegistration, Made, ClientTypes, Dialled
    <2>2. CASE x[1] # c
      BY <1>1, <1>2, <2>2, ConnParts DEF ForRegistration, Made, ClientTypes, Dialled
    <2> QED  BY <2>1, <2>2
  <1>4. RegistrationSide'
    BY <1>0, <1>2, <1>3
       DEF ClientInv, RegistrationSide, DaemonInv, Registering, ForRegistration, Made
  <1>5. ASSUME NEW p \in Pids PROVE Queue(p)' /\ Serving(p)'
    <2>1. CASE p # PidOf[c]
      BY <1>0, <1>1, <1>2, <2>1 DEF ClientInv, Queue, Serving, Made
    <2>2. CASE p = PidOf[c]
      <3>1. /\ new \notin Elems(chanq[p]) /\ new \notin processed
            /\ worker[p] \in {"recv", "process", "send"} => serving[p] # new
        BY <1>0, <1>1 DEF ClientInv, ClientTypes, Queue, Serving
      <3>2. Elems(chanq'[p]) = Elems(chanq[p]) \cup {new} /\ Distinct(chanq'[p])
        <4>1. chanq'[p] = Append(chanq[p], new)  BY <1>2, <2>2
        <4>2. chanq[p] \in Seq(Conns) /\ Distinct(chanq[p])  BY DEF ClientInv, Queue
        <4> HIDE DEF new
        <4> QED  BY <1>1, <3>1, <4>1, <4>2, AppendElems
      <3>3. new[1] = c /\ new[2] <= dial'[c].n
        BY <1>1 DEF Dialled
      <3>4. Queue(p)'
        BY <1>0, <1>1, <1>2, <2>2, <3>1, <3>2, <3>3 DEF ClientInv, Queue, Made
      <3>5. Serving(p)'
        BY <1>0, <1>1, <1>2, <3>1, <3>2 DEF ClientInv, Serving, Made
      <3> QED  BY <3>4, <3>5
    <2> QED  BY <2>1, <2>2
  <1>6. \A x \in processed' : Made(x)'
    BY <1>1, <1>2 DEF ClientInv, ClientTypes, Made
  <1>7. ResponseMeansProcessed' /\ Linked'
    BY <1>1, <1>2 DEF ClientInv, ResponseMeansProcessed, Linked, ClientTypes, Dialled
  <1>8. ClientTypeOK'
    BY <1>7 DEF ClientTypeOK, ClientTypes, Linked
  <1> QED  BY <1>4, <1>5, <1>6, <1>7, <1>8 DEF ClientInv

-----------------------------------------------------------------------------
(* Every step of the client and the daemon keeps ClientInv. *)
LEMMA ClientStepKeeps ==
  ASSUME DaemonInv, DaemonInv', ClientInv, [ClientNext]_vars
  PROVE  ClientInv'
  <1> TypeOK /\ ClientTypes /\ TypeOK' /\ Linked
    BY ClientTypeParts DEF ClientInv, DaemonInv
  <1>1. ASSUME NEW c \in Clients,
               ClientStep(c) \/ (\E o \in {"set", "query"} : Call(c, o))
        PROVE  ClientInv'
    <2>1. ClientTypes'
      BY <1>1, TypesStep
    <2>2. CASE \/ \E o \in {"set", "query"} : Call(c, o)
               \/ Create(c) \/ Enter(c) \/ ConnectRefused(c) \/ ConnectGarbled(c)
               \/ Fallback(c)
               \/ pc[c] = "register" /\ Fail(c) /\ UNCHANGED <<daemonVars, processed>>
      <3>1. UNCHANGED <<daemonVars, processed>>
        BY <2>2 DEF Call, Create, Enter, ConnectRefused, ConnectGarbled, Fallback
      <3>2. /\ pc[c] \notin {"registering", "waiting"}
            /\ \E to \in {"idle", "create", "enter", "register", "connect", "fallback"} :
                 pc' = [pc EXCEPT ![c] = to]
        BY <2>2
           DEF Call, Create, Enter, ConnectRefused, ConnectGarbled, Fallback, Goto, Leave,
               Return, Fail, Entry
      <3>3. dial[c].state = "closed"
        BY <3>2 DEF Linked
      <3>4. Calms
        BY <3>1, <3>2, <3>3 DEF Calms, ClientTypes, daemonVars, sockets
      <3> QED  BY <2>1, <3>4, CalmsKeep
    <2>3. CASE RegisterAnswer(c) \/ Response(c)
      <3>1. Calms
        BY <2>3, TrafficTypes
           DEF Calms, ClientTypes, Dialled, RegisterAnswer, Response, HangUp, Goto, Leave,
               Return, Fail
      <3> QED  BY <2>1, <3>1, CalmsKeep
    <2>4. CASE Register(c) /\ Dial(c) /\ Goto(c, "registering")
      BY <2>1, <2>4, RegisterKeeps DEF Register
    <2>5. CASE Connect(c)
      BY <2>1, <2>5, ConnectKeeps DEF Connect
    <2> QED
      BY <1>1, <2>2, <2>3, <2>4, <2>5 DEF ClientStep, Register
  <1>2. ASSUME NEW p \in Pids, ProcessExit(p) PROVE ClientInv'
    <2>1. ClientTypes'
      BY <1>2 DEF ProcessExit, ClientTypes
    <2>2. Calms
      BY <1>2, TrafficTypes DEF Calms, ClientTypes, Dialled, ProcessExit, Exit
    <2> QED  BY <2>1, <2>2, CalmsKeep
  <1>3. ASSUME NEW p \in Pids, Process(p) PROVE ClientInv'
    BY <1>3, ProcessKeeps
  <1>4. CASE DaemonMoves
    BY <1>4, DaemonMovesThem, MovesKeep DEF DaemonMoves
  <1>5. CASE UNCHANGED vars
    <2>1. ClientTypes'
      BY <1>5 DEF vars, clientVars, ClientTypes
    <2>2. Calms
      BY <1>5 DEF Calms, vars, clientVars, daemonVars, sockets
    <2> QED  BY <2>1, <2>2, CalmsKeep
  <1> QED  BY <1>1, <1>2, <1>3, <1>4, <1>5 DEF ClientNext

THEOREM ClientInvariant == ClientSpec => []ClientInv
  <1>1. ClientInit => ClientInv
    <2> SUFFICES ASSUME ClientInit PROVE ClientInv  OBVIOUS
    <2>1. DaemonInv  BY DaemonInitially DEF ClientInit
    <2>2. ClientTypeOK
      <3>1. ClientTypes  BY DEF ClientInit, ClientTypes
      <3>2. Linked  BY <3>1 DEF ClientInit, Init, Linked
      <3> QED  BY <2>1, <3>1, <3>2, ClientTypeParts DEF DaemonInv
    <2>3. RegistrationSide /\ ResponseMeansProcessed
      BY EmptyElems DEF ClientInit, Init, RegistrationSide, ResponseMeansProcessed
    <2>4. \A p \in Pids : Queue(p) /\ Serving(p)
      BY EmptyElems DEF ClientInit, Init, Queue, Serving
    <2> QED  BY <2>2, <2>3, <2>4 DEF ClientInit, ClientInv
  <1>2. DaemonInv /\ DaemonInv' /\ ClientInv /\ [ClientNext]_vars => ClientInv'
    BY ClientStepKeeps
  <1> QED  BY <1>1, <1>2, UsesDaemon, DaemonInvariant, PTL DEF ClientSpec

(* Every variable of the composition has a value of its type, and a thread has a
   connection open exactly while it waits for an answer: no path through a call
   leaves one open. *)
THEOREM ClientTypeCorrect == ClientSpec => []ClientTypeOK
  <1>1. ClientInv => ClientTypeOK  BY DEF ClientInv
  <1> QED  BY <1>1, ClientInvariant, PTL

(* A response is the answer to the request it is read as. *)
THEOREM ResponseCorrect == ClientSpec => []ResponseMeansProcessed
  <1>1. ClientInv => ResponseMeansProcessed  BY DEF ClientInv
  <1> QED  BY <1>1, ClientInvariant, PTL

(* The daemon executes no request twice. *)
THEOREM OnceCorrect == ClientSpec => []ProcessedOnce
  <1>1. ClientInv => ProcessedOnce  BY DEF ClientInv, Serving, ProcessedOnce
  <1> QED  BY <1>1, ClientInvariant, PTL
=============================================================================
