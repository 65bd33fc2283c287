---------------------------- MODULE NetlinkClient ----------------------------
(***************************************************************************)
(* HyCAN::NetlinkClient in the processes that use the library, composed    *)
(* with the daemon of module Daemon.  A call registers the process when it *)
(* has not done so yet, sends one request over the process' channel and    *)
(* waits 5 seconds for each answer.  A set_interface_state whose request   *)
(* fails runs "sudo ip link" itself; the queries and create_vcan report    *)
(* the error.  The threads of a process share one NetlinkClient (that of   *)
(* IPCManager::instance()) without a lock; threads whose first calls       *)
(* overlap each create it, and the last one destroys the object that the   *)
(* others are using.                                                       *)
(*                                                                         *)
(* Not modelled: socket() or an allocation failing, and the response's own *)
(* result, which the call passes on without a further step.                *)
(***************************************************************************)
EXTENDS Daemon

VARIABLES
  pc,           \* where each thread is in its call
  op,           \* the kind of that call: "set" or "query", or "none"
  initialized_, \* IPCManager::initialized_ of each process
  registered_,  \* NetlinkClient::registered_ of the client_ of each process
  stale,        \* the threads that are using a NetlinkClient that was destroyed
  refused,      \* history: whether its last call was refused by a running daemon
  processed     \* history: connections whose process_request the daemon has run

clientVars == <<pc, op, initialized_, registered_, stale, refused>>
vars       == <<daemonVars, clientVars, processed>>

ClientInit ==
  /\ Init
  /\ pc = [c \in Clients |-> "idle"] /\ op = [c \in Clients |-> "none"]
  /\ initialized_ = [p \in Pids |-> FALSE] /\ registered_ = [p \in Pids |-> FALSE]
  /\ stale = {}
  /\ refused = [c \in Clients |-> FALSE] /\ processed = {}

Goto(c, to) == pc' = [pc EXCEPT ![c] = to] /\ UNCHANGED <<op, stale>>

(* The rest of the call uses no member of the client. *)
Leave(c, to) == pc' = [pc EXCEPT ![c] = to] /\ stale' = stale \ {c} /\ UNCHANGED op
Return(c) ==
  /\ pc' = [pc EXCEPT ![c] = "idle"] /\ op' = [op EXCEPT ![c] = "none"]
  /\ stale' = stale \ {c}

(* send_request returned an error. *)
Fail(c) == IF op[c] = "set" THEN Leave(c, "fallback") ELSE Return(c)

(* The call through client_, and the test of registered_. *)
Entry(p) == IF registered_[p] THEN "connect" ELSE "register"

(* IPCManager's operations.  The guard bounds the connections of the thread: a
   call makes at most two. *)
Call(c, o) ==
  /\ pc[c] = "idle" /\ PidOf[c] \in alive /\ dial[c].n + 2 <= MaxDials
  /\ pc' = [pc EXCEPT ![c] = IF initialized_[PidOf[c]] THEN Entry(PidOf[c]) ELSE "create"]
  /\ op' = [op EXCEPT ![c] = o]
  /\ UNCHANGED <<daemonVars, initialized_, registered_, stale, refused, processed>>

(* ensure_initialized, after its test: the assignment to client_ destroys the
   client of a thread that came first. *)
Create(c) ==
  /\ pc[c] = "create" /\ pc' = [pc EXCEPT ![c] = "enter"]
  /\ initialized_' = [initialized_ EXCEPT ![PidOf[c]] = TRUE]
  /\ registered_' = [registered_ EXCEPT ![PidOf[c]] = FALSE]
  /\ stale' = stale \cup {d \in Clients : PidOf[d] = PidOf[c]
                                       /\ pc[d] \in {"register", "registering", "connect"}}
  /\ UNCHANGED <<daemonVars, op, refused, processed>>

(* By now client_ may be the client of another thread. *)
Enter(c) ==
  /\ pc[c] = "enter" /\ Goto(c, Entry(PidOf[c]))
  /\ UNCHANGED <<daemonVars, initialized_, registered_, refused, processed>>

(* connect() to the daemon: it waits while the backlog is full. *)
Register(c) ==
  /\ pc[c] = "register"
  /\ \/ Dial(c) /\ Goto(c, "registering")
     \/ main = "done" /\ Fail(c) /\ UNCHANGED daemonVars
  /\ UNCHANGED <<initialized_, registered_, refused, processed>>

(* The answer, the end of the connection, or 5 seconds.  In a client that was
   destroyed the channel's name and registered_ are written to freed memory. *)
RegisterAnswer(c) ==
  /\ pc[c] = "registering" /\ HangUp(c)
  /\ \/ /\ dial[c].state = "ok" /\ Goto(c, "connect")
        /\ registered_' = [registered_ EXCEPT ![PidOf[c]] = @ \/ c \notin stale]
     \/ dial[c].state # "ok" /\ Fail(c) /\ UNCHANGED registered_
  /\ UNCHANGED <<initialized_, refused, processed>>

(* connect() to the process' channel. *)
ConnectRefused(c) ==
  /\ pc[c] = "connect" /\ PidOf[c] \notin sessions
  /\ Fail(c)
  /\ refused' = [refused EXCEPT ![c] = main # "done"]
  /\ UNCHANGED <<daemonVars, initialized_, registered_, processed>>

(* A name read from freed memory need not be that of a channel, and its copy
   may throw; it may also be intact (Connect), or end the process (ProcessExit). *)
ConnectGarbled(c) ==
  /\ pc[c] = "connect" /\ c \in stale
  /\ Fail(c)
  /\ UNCHANGED <<daemonVars, initialized_, registered_, refused, processed>>

Connect(c) ==
  /\ pc[c] = "connect" /\ DialChannel(c) /\ Leave(c, "waiting")
  /\ refused' = [refused EXCEPT ![c] = FALSE]
  /\ UNCHANGED <<initialized_, registered_, processed>>

\* Mutant of Response: the connection is not closed.
ResponseLeak(c) ==
  /\ pc[c] = "waiting" /\ Return(c)
  /\ UNCHANGED <<daemonVars, initialized_, registered_, refused, processed>>

Response(c) ==
  /\ pc[c] = "waiting" /\ HangUp(c)
  /\ \/ dial[c].state = "ok" /\ Return(c)
     \/ dial[c].state # "ok" /\ Fail(c)
  /\ UNCHANGED <<initialized_, registered_, refused, processed>>

(* fallback_system_call. *)
Fallback(c) ==
  /\ pc[c] = "fallback" /\ Return(c)
  /\ UNCHANGED <<daemonVars, initialized_, registered_, refused, processed>>

ClientStep(c) ==
  \/ Create(c) \/ Enter(c) \/ Register(c) \/ RegisterAnswer(c)
  \/ ConnectRefused(c) \/ ConnectGarbled(c) \/ Connect(c) \/ Response(c) \/ Fallback(c)

(* The end of a process ends its threads' calls and takes its memory; a process
   that gets its number later starts anew. *)
ProcessExit(p) ==
  /\ Exit(p)
  /\ pc' = [c \in Clients |-> IF PidOf[c] = p THEN "idle" ELSE pc[c]]
  /\ op' = [c \in Clients |-> IF PidOf[c] = p THEN "none" ELSE op[c]]
  /\ stale' = {c \in stale : PidOf[c] # p}
  /\ initialized_' = [initialized_ EXCEPT ![p] = FALSE]
  /\ registered_' = [registered_ EXCEPT ![p] = FALSE]
  /\ refused' = [c \in Clients |-> refused[c] /\ PidOf[c] # p]
  /\ UNCHANGED processed

(* The daemon's steps, with the history of what it processed. *)
Process(p) ==
  /\ WorkerProcess(p)
  /\ processed' = processed \cup {serving[p]}
  /\ UNCHANGED clientVars

DaemonMoves ==
  /\ \/ MainStep \/ CleanStep
     \/ \E p \in Pids : WorkerCheck(p) \/ WorkerAccept(p) \/ WorkerRecv(p) \/ WorkerSend(p)
     \/ Signal \/ Kill \/ Start \/ \E p \in Pids : Reuse(p) \/ Expire(p)
  /\ UNCHANGED <<clientVars, processed>>

ClientNext ==
  \/ \E c \in Clients : ClientStep(c) \/ \E o \in {"set", "query"} : Call(c, o)
  \/ \E p \in Pids : ProcessExit(p) \/ Process(p)
  \/ DaemonMoves

ClientSpec == ClientInit /\ [][ClientNext]_vars

(* A thread inside a call goes on with it; a select() for 5 seconds ends. *)
ClientFairSpec ==
  /\ ClientSpec /\ DaemonFairness
  /\ \A c \in Clients : WF_vars(ClientStep(c))

-----------------------------------------------------------------------------
(* Every variable has a value of its type, and a thread holds a connection
   exactly while it waits for an answer. *)
ClientTypeOK ==
  /\ TypeOK
  /\ pc \in [Clients -> {"idle", "create", "enter", "register", "registering",
                         "connect", "waiting", "fallback"}]
  /\ op \in [Clients -> {"set", "query", "none"}]
  /\ initialized_ \in [Pids -> BOOLEAN] /\ registered_ \in [Pids -> BOOLEAN]
  /\ stale \subseteq Clients /\ refused \in [Clients -> BOOLEAN]
  /\ processed \subseteq Conns
  /\ \A c \in Clients :
       (dial[c].state # "closed") <=> (pc[c] \in {"registering", "waiting"})

(* A response means that the daemon ran process_request for this very request,
   whatever other threads of the process, whose requests share the worker,
   sent, gave up or timed out on. *)
ResponseMeansProcessed ==
  \A c \in Clients :
    pc[c] = "waiting" /\ dial[c].state = "ok" => <<c, dial[c].n>> \in processed

(* No request is processed twice: neither after a timeout and a new
   registration nor across the erasure of a session. *)
ProcessedOnce ==
  \A p \in Pids : worker[p] = "process" => serving[p] \notin processed

(* Every call returns: the timeouts end what the daemon does not answer, and a
   connect() on a full backlog is let in when the daemon accepts. *)
CallReturns == \A c \in Clients : (pc[c] # "idle") ~> (pc[c] = "idle")

(* "No root privileges required": a process whose session is gone registers
   again, so its next call on a running daemon is not refused, as the last one
   was, and left to sudo. *)
RecoversAfterRefusal ==
  [][\A c \in Clients : ConnectRefused(c) /\ refused[c] => main = "done"]_vars
=============================================================================
