-------------------------- MODULE DispatcherProofs --------------------------
(***************************************************************************)
(* Proofs about Dispatcher, for any number of threads, any tables, id sets *)
(* and bounds.  The invariants are proved in layers: the types, then who   *)
(* holds the lock, then the life of the reaper, then stop()'s handshake    *)
(* over the eventfd, then the order of the frames.  Each layer is          *)
(* inductive given the ones before it.  Last comes the rank that falls     *)
(* while a stop() waits.                                                   *)
(***************************************************************************)
EXTENDS Dispatcher, TLAPS

Absent(s) == s.fd = -1 /\ ~s.polled /\ s.rx = <<>>

(* A socket has a number or is not there, the twin's number is 0, and the two have
   different numbers. *)
SocketInv ==
  /\ \A s \in {sock, twin} : s.fd \in Fds \/ Absent(s)
  /\ twin.fd \in {0, -1}
  /\ sock.fd = twin.fd => sock.fd = -1

TypeInv == TypeOK /\ SocketInv

(* Whoever is in a critical section has set the flag. *)
LockInv ==
  /\ \A t \in Threads : At(t, "store") => lock_
  /\ reaper.pc = "cs" => lock_
  /\ MutualExclusion

(* A reaper that has left its loop, or is not there, has no event pending. *)
ReaperInv ==
  /\ QuietAfterStop
  /\ reaper.pc \in {"none", "exited"} => reaper.events = {}

Stopping == {"write", "join", "dtor_write", "dtor_join"}

(* stop() sets the token before it writes.  Until then, a reaper without a stale
   notification sees an empty eventfd, and one with a stale notification has not
   read it; what it is about to read is that one. *)
StopInv ==
  /\ pc[Owner] \in Stopping => reap_thread.stop
  /\ ghost.clean /\ ~reap_thread.stop => wakeups = 0 /\ EventFd \notin reaper.events
  /\ ~ghost.clean /\ ~reap_thread.stop => ghost.left /\ ghost.reads = 0
  /\ reaper.pc = "read" /\ reaper.cur = EventFd
       => ~ghost.clean /\ ghost.left /\ ghost.reads = 0 /\ EventFd \notin reaper.events
  /\ AtMostOnePhantom
  /\ StopNotLost

(* No frame of the queue is newer than n; they are in the order of the bus and none
   is older than n. *)
Below(q, n)  == \A i \in 1..Len(q) : q[i].seq <= n
Rising(q, n) == /\ \A i \in 1..Len(q) : n <= q[i].seq
                /\ \A i, j \in 1..Len(q) : i < j => q[i].seq <= q[j].seq

Holding == reaper.pc \in {"lock", "cs"}

(* Every frame in the Dispatcher's hands has been on the bus. *)
SentInv ==
  /\ Below(sock.rx, sent) /\ Below(twin.rx, sent)
  /\ Holding => reaper.frame.seq <= sent
  /\ ghost.last <= sent

(* The frames that are still to be looked up, the one in the reaper's hands and
   then those in the queue, are in the order of the bus, and none is older than
   the last one looked up.  While a read still holds a closed socket, the new
   one has received nothing. *)
Ordered ==
  /\ twin = NoSock
  /\ Rising(sock.rx, ghost.last)
  /\ Holding /\ reaper.frame.seq > 0 =>
       ghost.last <= reaper.frame.seq /\ Rising(sock.rx, reaper.frame.seq)
  /\ reaper.pc = "orphan" => sock.rx = <<>>

(* They are, as long as no start() has left a second socket to read from. *)
OrderInv == SentInv /\ (ghost.doubled \/ Ordered)

(* The reaper leaves its loop only when it has been told to. *)
ReaperLives ==
  reap_thread.joinable /\ ~reap_thread.stop => reaper.pc \notin {"none", "exited"}

(* What the operators on the receive queue return. *)
LEMMA QueueOperators ==
  ASSUME NEW F, NEW s \in Seq(F)
  PROVE /\ <<>> \in Seq(F)
        /\ s # <<>> => Head(s) \in F /\ Tail(s) \in Seq(F)
        /\ \A e \in F : Append(s, e) \in Seq(F)
  OBVIOUS

(* The records of the socket, of the history and of the reaper keep their
   types. *)
LEMMA NewSocketRecord ==
  /\ \A fd \in Fds \cup {-1}, b \in BOOLEAN : NewSock(fd, b) \in Sockets
  /\ NoSock \in Sockets /\ Absent(NoSock)
  BY DEF NewSock, NoSock, Sockets, Absent

LEMMA QueueRecord ==
  ASSUME NEW s \in Sockets, NEW q \in Seq(Frames)
  PROVE [s EXCEPT !.rx = q] \in Sockets
  BY DEF Sockets

LEMMA FlagRecord ==
  ASSUME NEW s \in Sockets
  PROVE /\ [s EXCEPT !.blocking = FALSE] \in Sockets
        /\ [s EXCEPT !.polled = TRUE] \in Sockets
        /\ s.rx \in Seq(Frames)
  BY DEF Sockets

LEMMA GhostRecord ==
  ASSUME ThreadOK, NEW left \in BOOLEAN, NEW n \in Nat, NEW clean \in BOOLEAN,
         ghost' = Noted(left, n, clean)
  PROVE /\ ghost' \in [last : Nat, left : BOOLEAN, reads : Nat, clean : BOOLEAN,
                       doubled : BOOLEAN]
        /\ ghost'.left = left /\ ghost'.reads = n /\ ghost'.clean = clean
        /\ ghost'.last = ghost.last /\ ghost'.doubled = ghost.doubled
  BY DEF ThreadOK, Noted

LEMMA ReaperRecord ==
  ASSUME NEW at \in {"none", "loop", "read", "blocked", "orphan", "lock", "cs",
                     "exited", "crashed"},
         NEW events \in SUBSET (Fds \cup {EventFd}),
         NEW cur \in Fds \cup {EventFd}, NEW frame \in Frames,
         reaper' = ReaperAt(at, events, cur, frame)
  PROVE ReaperOK'
  BY DEF ReaperOK, ReaperAt

(* The variables keep their types under every step of the Dispatcher, the
   replacement of the socket by start() included. *)
LEMMA TypeInvariant == Spec => []TypeInv
<1> USE DispatcherAssumption
<1>f. NoFrame \in Frames /\ \A i, n \in Nat : [id |-> i, seq |-> n] \in Frames
  BY DEF NoFrame, Frames
<1>1. Init => TypeInv
  <2> SUFFICES ASSUME Init PROVE TypeInv
    OBVIOUS
  <2>1. TableOK
    BY DEF Init, TableOK
  <2>2. AppOK
    BY DEF Init, AppOK, AppPcs, NoCall
  <2>3. ReaperOK
    BY <1>f DEF Init, ReaperOK
  <2>4. ThreadOK
    BY DEF Init, ThreadOK
  <2>5. KernelOK /\ SocketInv
    BY NewSocketRecord DEF Init, KernelOK, SocketInv, Absent, NoSock, NewSock
  <2>6. QED
    BY <2>1, <2>2, <2>3, <2>4, <2>5 DEF TypeInv, TypeOK
<1>2. TypeInv /\ [Next]_vars => TypeInv'
  <2> SUFFICES ASSUME TypeInv, [Next]_vars PROVE TypeInv'
    OBVIOUS
  <2>a. TableOK /\ AppOK /\ ReaperOK /\ ThreadOK /\ KernelOK /\ SocketInv
    BY DEF TypeInv, TypeOK
  <2>b. /\ UNCHANGED table => TableOK'
        /\ UNCHANGED app => AppOK'
        /\ UNCHANGED reaper => ReaperOK'
        /\ UNCHANGED <<reap_thread, ghost>> => ThreadOK'
        /\ UNCHANGED kernel => KernelOK'
    BY <2>a DEF TableOK, AppOK, ReaperOK, ThreadOK, KernelOK, table, app, kernel
  <2>c. \A t \in Threads, to \in AppPcs :
          Goto(t, to) /\ UNCHANGED call => AppOK'
    BY <2>a DEF AppOK, Goto
  <2>e. UNCHANGED <<sock, twin>> => SocketInv'
    BY <2>a DEF SocketInv
  <2>s. ASSUME sock'.fd = sock.fd, Absent(sock) => Absent(sock)', UNCHANGED twin
        PROVE SocketInv'
    BY <2>a, <2>s DEF SocketInv, Absent
  <2>v. ASSUME sock' = NoSock, twin' = twin \/ (twin' = sock /\ sock.fd = 0)
        PROVE SocketInv'
    BY <2>a, <2>v, NewSocketRecord DEF SocketInv, Absent
  <2>g. ASSUME NEW f \in Frames, reaper' = Got(f) \/ reaper' = Loop \/ reaper' = Orphan
        PROVE ReaperOK'
    <3>1. reaper.events \in SUBSET (Fds \cup {EventFd})
      BY <2>a DEF ReaperOK
    <3>2. QED
      BY <2>g, <3>1, <1>f, ReaperRecord DEF Got, Loop, Orphan
  <2>k. ASSUME NEW s \in {sock, twin}, Cut(s) PROVE ReaperOK'
    <3>1. s.rx # <<>> => Head(s.rx) \in Frames
      BY <2>a, FlagRecord, QueueOperators DEF KernelOK
    <3>2. QED
      BY <2>b, <2>g, <2>k, <3>1, <1>f DEF Cut
  <2>l. ASSUME NEW t \in Threads, Leave(t) PROVE AppOK'
    BY <2>a, <2>l DEF Leave, Return, Goto, NoCall, AppOK, AppPcs
  <2>1. ASSUME NEW t \in Threads, NEW ids \in IdSets, NEW cb \in Callbacks,
               CallRegister(t, ids, cb)
        PROVE TypeInv'
    <3>1. AppOK'
      BY <2>1, <2>a DEF CallRegister, AppOK, AppPcs, Goto
    <3>2. SocketInv'
      BY <2>1, <2>e DEF CallRegister, AppPcs, kernel
    <3>3. QED
      BY <2>1, <2>b, <3>1, <3>2 DEF CallRegister, TypeInv, TypeOK, thread
  <2>2. ASSUME NEW t \in Threads, RegisterLock(t) PROVE TypeInv'
    <3>1. TableOK' /\ UNCHANGED <<reaper, reap_thread, ghost>>
      BY <2>2, <2>a DEF RegisterLock, TableOK, thread
    <3>2. SocketInv' /\ AppOK'
      BY <2>2, <2>c, <2>e DEF RegisterLock, AppPcs, kernel
    <3>3. QED
      BY <2>2, <2>b, <3>1, <3>2 DEF RegisterLock, TypeInv, TypeOK
  <2>3. ASSUME NEW t \in Threads, RegisterStore(t) PROVE TypeInv'
    <3>1. PICK id \in call[t].ids :
            \/ id >= MaxId /\ Leave(t) /\ UNCHANGED funcs
            \/ /\ id < MaxId
               /\ funcs' = [funcs EXCEPT ![id] = call[t].cb]
               /\ call' = [call EXCEPT ![t].ids = @ \ {id}]
               /\ UNCHANGED pc
      BY <2>3 DEF RegisterStore
    <3>2. call[t] \in [ids : SUBSET Nat, cb : Callbacks \cup {NoFunc}]
      BY <2>a DEF AppOK
    <3>3. TableOK'
      BY <2>3, <2>a, <3>1, <3>2 DEF RegisterStore, TableOK, Ids
    <3>4. AppOK' /\ SocketInv'
      <4>1. CASE Leave(t)
        BY <4>1, <2>3, <2>l, <2>e DEF RegisterStore, kernel
      <4>2. CASE call' = [call EXCEPT ![t].ids = @ \ {id}] /\ UNCHANGED pc
        BY <4>2, <2>3, <2>a, <2>e, <3>2 DEF RegisterStore, AppOK, kernel
      <4>3. QED
        BY <3>1, <4>1, <4>2
    <3>5. QED
      BY <2>3, <2>b, <3>3, <3>4 DEF RegisterStore, TypeInv, TypeOK, thread
  <2>4. ASSUME NEW t \in Threads, RegisterUnlock(t) PROVE TypeInv'
    <3>1. TableOK' /\ UNCHANGED <<reaper, reap_thread, ghost>>
      BY <2>4, <2>a DEF RegisterUnlock, TableOK, thread
    <3>2. SocketInv' /\ AppOK'
      BY <2>4, <2>l, <2>e DEF RegisterUnlock, kernel
    <3>3. QED
      BY <2>4, <2>b, <3>1, <3>2 DEF RegisterUnlock, TypeInv, TypeOK
  <2>5. CASE StartClose
    <3>1. AppOK'
      BY <2>5, <2>c DEF StartClose, AppPcs
    <3>2. CASE sock.fd # 0
      <4>1. Cut(sock) /\ sock' = NoSock /\ UNCHANGED <<twin, ghost>>
        BY <2>5, <3>2 DEF StartClose
      <4>2. ReaperOK'
        BY <2>k, <4>1
      <4>3. KernelOK' /\ SocketInv' /\ ThreadOK'
        BY <2>5, <2>a, <2>v, <4>1, NewSocketRecord DEF StartClose, KernelOK, ThreadOK
      <4>4. QED
        BY <2>5, <2>b, <3>1, <4>2, <4>3 DEF StartClose, TypeInv, TypeOK
    <3>3. CASE sock.fd = 0
      <4>1. /\ sock' = NoSock /\ twin' = sock /\ UNCHANGED reaper
            /\ ghost' = [ghost EXCEPT !.doubled = TRUE]
        BY <2>5, <3>3 DEF StartClose
      <4>2. KernelOK' /\ SocketInv'
        BY <2>5, <2>a, <2>v, <3>3, <4>1, NewSocketRecord DEF StartClose, KernelOK
      <4>3. ThreadOK'
        BY <2>5, <2>a, <4>1 DEF StartClose, ThreadOK
      <4>4. QED
        BY <2>5, <2>b, <3>1, <4>1, <4>2, <4>3 DEF StartClose, TypeInv, TypeOK
    <3>4. QED
      BY <3>2, <3>3
  <2>5a. CASE CloseZero
    <3>1. KernelOK'
      BY <2>5a, <2>a, NewSocketRecord DEF CloseZero, KernelOK
    <3>s. SocketInv'
      BY <2>5a, <2>a, NewSocketRecord DEF CloseZero, SocketInv, Absent
    <3>2. ReaperOK'
      BY <2>5a, <2>k DEF CloseZero
    <3>3. QED
      BY <2>5a, <2>b, <3>1, <3>s, <3>2 DEF CloseZero, TypeInv, TypeOK
  <2>6. CASE StartOpen
    <3>1. AppOK'
      BY <2>6, <2>c DEF StartOpen, Return, AppPcs
    <3>2. KernelOK'
      BY <2>6, <2>a, NewSocketRecord DEF StartOpen, KernelOK, NoSock
    <3>3. SocketInv'
      BY <2>6, <2>a DEF StartOpen, SocketInv, Absent, NoSock, NewSock
    <3>4. QED
      BY <2>6, <2>b, <3>1, <3>2, <3>3 DEF StartOpen, TypeInv, TypeOK, thread
  <2>7. CASE StartNonblock
    <3>1. AppOK'
      BY <2>7, <2>c DEF StartNonblock, AppPcs
    <3>2. KernelOK'
      BY <2>7, <2>a, FlagRecord DEF StartNonblock, KernelOK
    <3>3. SocketInv'
      BY <2>7, <2>a, <2>s DEF StartNonblock, KernelOK, Sockets, Absent
    <3>4. QED
      BY <2>7, <2>b, <3>1, <3>2, <3>3 DEF StartNonblock, TypeInv, TypeOK, thread
  <2>8. CASE StartAdd
    <3>1. AppOK'
      BY <2>8, <2>c DEF StartAdd, Return, AppPcs
    <3>2. KernelOK'
      BY <2>8, <2>a, FlagRecord DEF StartAdd, KernelOK
    <3>3. SocketInv'
      BY <2>8, <2>a DEF StartAdd, KernelOK, SocketInv, Sockets
    <3>4. QED
      BY <2>8, <2>b, <3>1, <3>2, <3>3 DEF StartAdd, TypeInv, TypeOK, thread
  <2>9. CASE StartFlush
    <3>1. AppOK'
      BY <2>9, <2>b, <2>c DEF StartFlush, Return, AppPcs, app
    <3>2. KernelOK'
      <4>1. sock.rx # <<>> => Tail(sock.rx) \in Seq(Frames)
        BY <2>a, FlagRecord, QueueOperators DEF KernelOK
      <4>2. QED
        BY <2>9, <2>a, <4>1, QueueRecord DEF StartFlush, KernelOK
    <3>3. SocketInv'
      BY <2>9, <2>a, <2>s DEF StartFlush, KernelOK, Sockets, Absent
    <3>4. QED
      BY <2>9, <2>b, <3>1, <3>2, <3>3 DEF StartFlush, TypeInv, TypeOK, thread
  <2>10. CASE StartSpawn
    <3>1. AppOK' /\ SocketInv'
      BY <2>10, <2>c, <2>e DEF StartSpawn, Return, AppPcs, kernel
    <3>2. ReaperOK'
      BY <2>10, <2>a DEF StartSpawn, ReaperOK, thread
    <3>3. ThreadOK'
      <4>1. reap_thread' = [joinable |-> TRUE, stop |-> FALSE] \/ reap_thread' = reap_thread
        BY <2>10, Zenon DEF StartSpawn, thread
      <4>2. reap_thread' \in [joinable : BOOLEAN, stop : BOOLEAN]
        <5>1. [joinable |-> TRUE, stop |-> FALSE] \in [joinable : BOOLEAN, stop : BOOLEAN]
          OBVIOUS
        <5>2. reap_thread \in [joinable : BOOLEAN, stop : BOOLEAN]
          BY <2>a DEF ThreadOK
        <5>3. QED
          BY <4>1, <5>1, <5>2, Zenon
      <4> DEFINE some == wakeups > 0
      <4> DEFINE none == wakeups = 0
      <4>3. some \in BOOLEAN /\ none \in BOOLEAN
        OBVIOUS
      <4>4. ghost' = Noted(some, 0, none) \/ ghost' = ghost
        BY <2>10, Zenon DEF StartSpawn, thread
      <4> HIDE DEF some, none
      <4>5. QED
        BY <2>a, <4>2, <4>3, <4>4, GhostRecord DEF ThreadOK
    <3>4. QED
      BY <2>10, <2>b, <3>1, <3>2, <3>3 DEF StartSpawn, TypeInv, TypeOK
  <2>11. CASE StopRequest
    <3>1. AppOK' /\ SocketInv'
      BY <2>11, <2>c, <2>e DEF StopRequest, AppPcs, kernel
    <3>2. ThreadOK'
      BY <2>11, <2>a DEF StopRequest, ThreadOK
    <3>3. QED
      BY <2>11, <2>b, <3>1, <3>2 DEF StopRequest, TypeInv, TypeOK
  <2>12. CASE StopWrite
    <3>1. AppOK' /\ SocketInv'
      BY <2>12, <2>c, <2>e DEF StopWrite, AwaitReaper, StopReturn, AppPcs
    <3>2. KernelOK'
      BY <2>12, <2>a DEF StopWrite, KernelOK
    <3>3. QED
      BY <2>12, <2>b, <3>1, <3>2 DEF StopWrite, TypeInv, TypeOK, thread
  <2>13. CASE StopJoin
    <3>1. AppOK' /\ SocketInv'
      BY <2>13, <2>c, <2>e DEF StopJoin, StopReturn, AppPcs, kernel
    <3>2. ReaperOK' /\ ThreadOK'
      BY <2>13, <2>a DEF StopJoin, ReaperOK, ThreadOK
    <3>3. QED
      BY <2>13, <2>b, <3>1, <3>2 DEF StopJoin, TypeInv, TypeOK
  <2>13a. CASE Destroy
    <3>1. AppOK' /\ SocketInv'
      BY <2>13a, <2>a, <2>e DEF Destroy, AppOK, AppPcs, kernel
    <3>2. ThreadOK'
      <4> DEFINE b == reap_thread.stop \/ reap_thread.joinable
      <4>1. b \in BOOLEAN
        BY <2>a DEF ThreadOK
      <4>2. reap_thread' = [reap_thread EXCEPT !.stop = b] /\ ghost' = ghost
        BY <2>13a DEF Destroy
      <4> HIDE DEF b
      <4>3. QED
        BY <2>a, <4>1, <4>2 DEF ThreadOK
    <3>3. QED
      BY <2>13a, <2>b, <3>1, <3>2 DEF Destroy, TypeInv, TypeOK
  <2>13b. CASE DestroyClose
    <3>1. AppOK' /\ SocketInv'
      BY <2>13b, <2>c, <2>e DEF DestroyClose, AppPcs, kernel
    <3>2. QED
      BY <2>13b, <2>b, <3>1 DEF DestroyClose, TypeInv, TypeOK, thread
  <2>13c. CASE DestroyReap
    <3>1. AppOK'
      BY <2>13c, <2>c DEF DestroyReap, AppPcs
    <3>2. KernelOK'
      BY <2>13c, <2>a, NewSocketRecord DEF DestroyReap, KernelOK, NoSock
    <3>3. SocketInv'
      BY <2>13c, <2>v DEF DestroyReap
    <3>4. ReaperOK' /\ ThreadOK'
      BY <2>13c, <2>a DEF DestroyReap, ReaperOK, ThreadOK
    <3>5. QED
      BY <2>13c, <2>b, <3>1, <3>2, <3>3, <3>4 DEF DestroyReap, TypeInv, TypeOK
  <2>14. CASE EpollWait
    <3>1. ReaperOK'
      <4>1. Ready \subseteq Fds \cup {EventFd}
        BY <2>a DEF Ready, Open, SocketInv, Absent, NoSock, NewSock
      <4>2. QED
        BY <2>14, <2>a, <4>1 DEF EpollWait, ReaperOK
    <3>2. QED
      BY <2>14, <2>b, <2>e, <3>1 DEF EpollWait, TypeInv, TypeOK, app, kernel
  <2>15. CASE EpollInterrupted
    <3>1. ReaperOK'
      BY <2>15, <1>f, ReaperRecord DEF EpollInterrupted, Exit
    <3>2. QED
      BY <2>15, <2>b, <2>e, <3>1 DEF EpollInterrupted, TypeInv, TypeOK, app, kernel
  <2>16. ASSUME NEW fd \in reaper.events, CheckEvent(fd) PROVE TypeInv'
    <3>1. ReaperOK'
      <4>1. reaper.events \subseteq Fds \cup {EventFd}
        BY <2>a DEF ReaperOK
      <4>2. CASE reaper' = Exit
        BY <4>2, <1>f, ReaperRecord DEF Exit
      <4>3. CASE reaper' = Take(fd)
        BY <4>1, <4>3, <1>f, ReaperRecord DEF Take
      <4>4. QED
        BY <2>16, <4>2, <4>3 DEF CheckEvent
    <3>2. QED
      BY <2>16, <2>b, <2>e, <3>1 DEF CheckEvent, TypeInv, TypeOK, app, kernel
  <2>h. ASSUME ReadFrame, UNCHANGED <<wakeups, sent>>
        PROVE ReaperOK' /\ KernelOK' /\ SocketInv'
    <3>1. \A s \in {sock, twin} :
            /\ s \in Sockets
            /\ s.rx # <<>> => Head(s.rx) \in Frames /\ Tail(s.rx) \in Seq(Frames)
      BY <2>a, FlagRecord, QueueOperators DEF KernelOK
    <3>2. ReaperOK'
      BY <2>g, <2>h, <3>1 DEF ReadFrame, ReadFrom
    <3>3. KernelOK'
      BY <2>a, <2>h, <3>1, QueueRecord DEF ReadFrame, ReadFrom, KernelOK
    <3>4. SocketInv'
      BY <2>a, <2>h, <3>1 DEF ReadFrame, ReadFrom, SocketInv, Sockets, Absent
    <3>5. QED
      BY <3>2, <3>3, <3>4
  <2>17. CASE ReadEventFd
    <3>1. CASE Closed /\ reaper' = Loop /\ UNCHANGED <<wakeups, ghost>>
      BY <2>17, <3>1, <2>b, <2>e, <2>g, <1>f DEF ReadEventFd, TypeInv, TypeOK, app, kernel
    <3>2. CASE ~Closed
      <4>1. ReaperOK'
        BY <2>17, <3>2, <2>a, <2>g, <1>f DEF ReadEventFd, KernelOK
      <4>2. KernelOK'
        BY <2>17, <3>2, <2>a DEF ReadEventFd, KernelOK
      <4>3. ThreadOK'
        <5> DEFINE clean == ghost.clean \/ ~reap_thread.stop
        <5>1. clean \in BOOLEAN /\ ghost.left \in BOOLEAN /\ ghost.reads + 1 \in Nat
          BY <2>a DEF ThreadOK
        <5>2. ghost' = Noted(ghost.left, ghost.reads + 1, clean)
          BY <2>17, <3>2 DEF ReadEventFd
        <5> HIDE DEF clean
        <5>3. QED
          BY <2>17, <2>a, <5>1, <5>2, GhostRecord DEF ReadEventFd, ThreadOK
      <4>4. QED
        BY <2>17, <2>b, <2>e, <4>1, <4>2, <4>3 DEF ReadEventFd, TypeInv, TypeOK, app
    <3>3. QED
      BY <2>17, <3>1, <3>2 DEF ReadEventFd
  <2>18. CASE ReadSocket
    <3>1. UNCHANGED <<table, app, reap_thread, ghost, wakeups, sent>>
      BY <2>18 DEF ReadSocket
    <3>2. ReaperOK' /\ KernelOK' /\ SocketInv'
      <4>1. CASE ReadFrame
        BY <2>h, <3>1, <4>1
      <4>2. CASE /\ reaper' = Loop \/ reaper' = [reaper EXCEPT !.pc = "blocked"]
                 /\ UNCHANGED <<sock, twin>>
        <5>1. CASE reaper' = Loop
          BY <2>b, <2>e, <2>g, <3>1, <4>2, <5>1, <1>f DEF kernel
        <5>2. CASE reaper' = [reaper EXCEPT !.pc = "blocked"]
          BY <2>a, <2>b, <2>e, <3>1, <4>2, <5>2 DEF ReaperOK, kernel
        <5>3. QED
          BY <4>2, <5>1, <5>2
      <4>3. QED
        BY <2>18, <4>1, <4>2, Zenon DEF ReadSocket
    <3>3. QED
      BY <2>b, <3>1, <3>2 DEF TypeInv, TypeOK
  <2>19. CASE ReadResumes
    <3>1. ReaperOK' /\ KernelOK' /\ SocketInv'
      BY <2>19, <2>h DEF ReadResumes
    <3>2. QED
      BY <2>19, <2>b, <3>1 DEF ReadResumes, TypeInv, TypeOK
  <2>20. CASE ReadFails
    BY <2>20, <2>b, <2>e, <2>g, <1>f DEF ReadFails, TypeInv, TypeOK, app, kernel
  <2>21. CASE DispatchLock
    <3>1. ReaperOK' /\ TableOK'
      BY <2>21, <2>a DEF DispatchLock, ReaperOK, TableOK
    <3>2. QED
      BY <2>21, <2>b, <2>e, <3>1 DEF DispatchLock, TypeInv, TypeOK, app, kernel
  <2>22. CASE Dispatch
    <3>1. ReaperOK' /\ TableOK'
      BY <2>22, <2>a, <2>g, <1>f DEF Dispatch, TableOK
    <3>2. ThreadOK'
      BY <2>22, <2>a DEF Dispatch, LookedUp, ThreadOK, ReaperOK, Frames
    <3>3. QED
      BY <2>22, <2>b, <2>e, <3>1, <3>2 DEF Dispatch, TypeInv, TypeOK, app, kernel
  <2>23. CASE Crash
    <3>1. ReaperOK'
      BY <2>23, <1>f, ReaperRecord DEF Crash
    <3>2. AppOK' /\ SocketInv'
      BY <2>23, <2>a DEF Crash, AppOK, AppPcs, SocketInv, Absent, NoSock, NewSock
    <3>3. KernelOK'
      BY <2>23, <2>a, NewSocketRecord DEF Crash, KernelOK, NoSock
    <3>4. QED
      BY <2>23, <2>b, <3>1, <3>2, <3>3 DEF Crash, TypeInv, TypeOK
  <2>24. ASSUME NEW id \in BusIds, BusFrame(id) PROVE TypeInv'
    <3> DEFINE f == [id |-> id, seq |-> sent + 1]
    <3>1. f \in Frames
      BY <2>a, <1>f DEF KernelOK
    <3> HIDE DEF f
    <3>2. /\ reaper' = Got(f) \/ UNCHANGED reaper
          /\ sock' \in {sock, With(sock, f)} /\ twin' \in {twin, With(twin, f)}
      BY <2>24 DEF BusFrame, f
    <3>3. ReaperOK'
      BY <2>b, <2>g, <3>1, <3>2
    <3>4. \A s \in {sock, twin} :
            /\ With(s, f) \in Sockets
            /\ With(s, f).fd = s.fd
            /\ Absent(s) => Absent(With(s, f))
      <4>1. \A s \in {sock, twin} : s \in Sockets /\ Append(s.rx, f) \in Seq(Frames)
        BY <2>a, <3>1, FlagRecord, QueueOperators DEF KernelOK
      <4>2. -1 \notin Fds
        OBVIOUS
      <4>3. QED
        <5> SUFFICES ASSUME NEW s \in {sock, twin}
                     PROVE /\ With(s, f) \in Sockets
                           /\ With(s, f).fd = s.fd
                           /\ Absent(s) => Absent(With(s, f))
          OBVIOUS
        <5>2. CASE s.fd \in Fds
          <6>1. With(s, f) = [s EXCEPT !.rx = Append(s.rx, f)]
            BY <5>2 DEF With
          <6>2. With(s, f) \in Sockets /\ With(s, f).fd = s.fd
            BY <4>1, <6>1, QueueRecord DEF Sockets
          <6>3. QED
            BY <4>2, <5>2, <6>2 DEF Absent
        <5>3. CASE s.fd \notin Fds
          BY <4>1, <5>3 DEF With
        <5>4. QED
          BY <5>2, <5>3
    <3>5. KernelOK' /\ SocketInv'
      <4>1. sent' \in Nat /\ wakeups' \in Nat
        BY <2>24, <2>a DEF BusFrame, KernelOK
      <4>2. QED
        BY <2>a, <3>2, <3>4, <4>1 DEF KernelOK, SocketInv
    <3>6. QED
      BY <2>24, <2>b, <3>3, <3>5 DEF BusFrame, TypeInv, TypeOK
  <2>25. CASE UNCHANGED vars
    BY <2>25, <2>b, <2>e DEF vars, thread, app, kernel, TypeInv, TypeOK
  <2>26. QED
    BY <2>1, <2>2, <2>3, <2>4, <2>5, <2>5a, <2>6, <2>7, <2>8, <2>9, <2>10, <2>11,
       <2>12, <2>13, <2>13a, <2>13b, <2>13c, <2>14, <2>15, <2>16, <2>17, <2>18, <2>19, <2>20, <2>21,
       <2>22, <2>23, <2>24, <2>25
    DEF Next, Register, StartStep, StopStep, DestroyStep, Reaper
<1>3. QED
  BY <1>1, <1>2, PTL DEF Spec

(* The same without the strengthening: epoll reports nothing but the eventfd and
   sockets that start() opened, however often start() replaces them. *)
THEOREM TypeCorrect == Spec => []TypeOK
<1>1. TypeInv => TypeOK
  BY DEF TypeInv
<1>2. QED
  BY <1>1, TypeInvariant, PTL

(* Whoever is inside register_func's loop or the reaper's look-up has set the flag,
   and there is no other. *)
LEMMA LockInvariant == Spec => []LockInv
<1>1. Init => LockInv
  BY DEF Init, LockInv, MutualExclusion, At
<1>2. TypeInv /\ LockInv /\ [Next]_vars => LockInv'
  <2> SUFFICES ASSUME TypeInv, LockInv, [Next]_vars PROVE LockInv'
    OBVIOUS
  <2>a. AppOK /\ ReaperOK
    BY DEF TypeInv, TypeOK
  <2>n. ASSUME lock_' = lock_, reaper'.pc = "cs" => reaper.pc = "cs",
               \A t \in Threads : pc'[t] = "store" => pc[t] = "store"
        PROVE LockInv'
    BY <2>n DEF LockInv, MutualExclusion, At
  <2>1. ASSUME NEW t \in Threads, NEW ids \in IdSets, NEW cb \in Callbacks,
               CallRegister(t, ids, cb)
        PROVE LockInv'
    BY <2>1, <2>a, <2>n DEF CallRegister, Goto, Return, thread, table, At, AppOK
  <2>2. ASSUME NEW t \in Threads, RegisterLock(t) PROVE LockInv'
    BY <2>2, <2>a DEF RegisterLock, Goto, Return, thread, LockInv, MutualExclusion, At, AppOK
  <2>3. ASSUME NEW t \in Threads, RegisterStore(t) PROVE LockInv'
    BY <2>3, <2>a, <2>n DEF RegisterStore, Leave, Goto, Return, thread, table, At, AppOK
  <2>4. ASSUME NEW t \in Threads, RegisterUnlock(t) PROVE LockInv'
    BY <2>4, <2>a
    DEF RegisterUnlock, Leave, Goto, Return, thread, LockInv, MutualExclusion, At, AppOK
  <2>5. CASE StartClose
    BY <2>5, <2>a, <2>n
    DEF StartClose, Cut, Got, Orphan, ReaperAt, Goto, table, At, AppOK
  <2>5a. CASE CloseZero
    BY <2>5a, <2>a, <2>n DEF CloseZero, Cut, Got, Orphan, ReaperAt, table, app
  <2>6. CASE StartOpen
    BY <2>6, <2>a, <2>n DEF StartOpen, Goto, Return, thread, table, At, AppOK
  <2>7. CASE StartNonblock
    BY <2>7, <2>a, <2>n DEF StartNonblock, Goto, Return, thread, table, At, AppOK
  <2>8. CASE StartAdd
    BY <2>8, <2>a, <2>n DEF StartAdd, Goto, Return, thread, table, At, AppOK
  <2>9. CASE StartFlush
    BY <2>9, <2>a, <2>n DEF StartFlush, Goto, Return, thread, table, At, AppOK
  <2>10. CASE StartSpawn
    <3>1. reaper' = [reaper EXCEPT !.pc = "loop"] \/ reaper' = reaper
      BY <2>10, Zenon DEF StartSpawn, thread
    <3>2. reaper'.pc = "cs" => reaper.pc = "cs"
      BY <2>a, <3>1 DEF ReaperOK
    <3>3. \A t \in Threads : pc'[t] = "store" => pc[t] = "store"
      BY <2>10, <2>a DEF StartSpawn, Return, Goto, AppOK
    <3>4. QED
      BY <2>10, <2>n, <3>2, <3>3 DEF StartSpawn, table
  <2>11. CASE StopRequest
    BY <2>11, <2>a, <2>n DEF StopRequest, Goto, Return, thread, table, At, AppOK
  <2>12. CASE StopWrite
    BY <2>12, <2>a, <2>n DEF StopWrite, AwaitReaper, StopReturn, Goto, thread, table, At, AppOK
  <2>13. CASE StopJoin
    BY <2>13, <2>a, <2>n DEF StopJoin, StopReturn, Goto, thread, table, At, AppOK, ReaperOK
  <2>13a. CASE Destroy
    BY <2>13a, <2>a, <2>n DEF Destroy, table, AppOK
  <2>13b. CASE DestroyClose
    BY <2>13b, <2>a, <2>n DEF DestroyClose, Goto, thread, table, At, AppOK
  <2>13c. CASE DestroyReap
    BY <2>13c, <2>a, <2>n DEF DestroyReap, Goto, table, At, AppOK, ReaperOK
  <2>14. CASE EpollWait
    BY <2>14, <2>a, <2>n DEF EpollWait, app, table, ReaperAt, At, AppOK
  <2>15. CASE EpollInterrupted
    BY <2>15, <2>a, <2>n DEF EpollInterrupted, app, table, ReaperAt, Exit, At, AppOK
  <2>16. ASSUME NEW fd \in reaper.events, CheckEvent(fd) PROVE LockInv'
    BY <2>16, <2>a, <2>n DEF CheckEvent, app, table, ReaperAt, Exit, Take, At, AppOK
  <2>17. CASE ReadEventFd
    BY <2>17, <2>a, <2>n DEF ReadEventFd, app, table, ReaperAt, Got, Loop, At, AppOK
  <2>18. CASE ReadSocket
    BY <2>18, <2>a, <2>n
    DEF ReadSocket, app, table, ReaperAt, ReadFrame, ReadFrom, Got, Loop, At, AppOK, ReaperOK
  <2>19. CASE ReadResumes
    BY <2>19, <2>a, <2>n DEF ReadResumes, app, table, ReaperAt, ReadFrame, ReadFrom, Got, At, AppOK
  <2>20. CASE ReadFails
    BY <2>20, <2>a, <2>n DEF ReadFails, app, table, ReaperAt, Loop, At, AppOK
  <2>21. CASE DispatchLock
    BY <2>21, <2>a DEF DispatchLock, app, ReaperAt, LockInv, MutualExclusion, At, AppOK
  <2>22. CASE Dispatch
    BY <2>22, <2>a DEF Dispatch, app, ReaperAt, Loop, LockInv, MutualExclusion, At, AppOK
  <2>23. CASE Crash
    BY <2>23, <2>a, <2>n DEF Crash, app, table, ReaperAt, At, AppOK
  <2>24. ASSUME NEW id \in BusIds, BusFrame(id) PROVE LockInv'
    BY <2>24, <2>a, <2>n DEF BusFrame, app, table, ReaperAt, Got, At, AppOK
  <2>25. CASE UNCHANGED vars
    BY <2>25, <2>n DEF vars, table, app, thread
  <2>26. QED
    BY <2>1, <2>2, <2>3, <2>4, <2>5, <2>5a, <2>6, <2>7, <2>8, <2>9, <2>10, <2>11, <2>12, <2>13,
       <2>13a, <2>13b, <2>13c, <2>14, <2>15, <2>16, <2>17, <2>18, <2>19, <2>20, <2>21,
       <2>22, <2>23, <2>24, <2>25
    DEF Next, Register, StartStep, StopStep, DestroyStep, Reaper
<1>3. QED
  BY <1>1, <1>2, TypeInvariant, PTL DEF Spec

(* At most one thread is inside register_func's loop or the reaper's look-up at
   any time: lock_ does what it is for, for any number of threads. *)
THEOREM LockCorrect == Spec => []MutualExclusion
<1>1. LockInv => MutualExclusion
  BY DEF LockInv
<1>2. QED
  BY <1>1, LockInvariant, PTL

(* The life of the reaper and stop()'s handshake with it, for every schedule of the
   two threads. *)
LEMMA StopInvariant == Spec => [](ReaperInv /\ StopInv)
<1> DEFINE Inv == ReaperInv /\ StopInv
<1> USE DispatcherAssumption
<1> USE DEF ReaperInv, QuietAfterStop, StopInv, AtMostOnePhantom, StopNotLost,
            Joining, Stopping, At
<1>1. Init => Inv
  BY DEF Init
<1>2. TypeInv /\ Inv /\ [Next]_vars => Inv'
  <2> SUFFICES ASSUME TypeInv, Inv, [Next]_vars PROVE Inv'
    OBVIOUS
  <2>a. AppOK /\ ReaperOK /\ ThreadOK /\ KernelOK
    BY DEF TypeInv, TypeOK
  <2>n. ASSUME UNCHANGED <<reap_thread, reaper, ghost, wakeups>>,
               pc'[Owner] \in Stopping \cup {"gone"} => pc'[Owner] = pc[Owner]
        PROVE Inv'
    BY <2>n
  <2>1. ASSUME NEW t \in Threads, NEW ids \in IdSets, NEW cb \in Callbacks,
               CallRegister(t, ids, cb)
        PROVE Inv'
    BY <2>1, <2>a, <2>n DEF CallRegister, Goto, Return, AppOK, thread, kernel
  <2>2. ASSUME NEW t \in Threads, RegisterLock(t) PROVE Inv'
    BY <2>2, <2>a, <2>n DEF RegisterLock, Goto, Return, AppOK, thread, kernel
  <2>3. ASSUME NEW t \in Threads, RegisterStore(t) PROVE Inv'
    BY <2>3, <2>a, <2>n DEF RegisterStore, Leave, Goto, Return, AppOK, thread, kernel
  <2>4. ASSUME NEW t \in Threads, RegisterUnlock(t) PROVE Inv'
    BY <2>4, <2>a, <2>n DEF RegisterUnlock, Leave, Goto, Return, AppOK, thread, kernel
  <2>c. ASSUME NEW s, Cut(s)
        PROVE /\ reaper'.events = reaper.events
              /\ reaper' = reaper \/ (reaper'.pc \in {"lock", "orphan"} /\ reaper.pc = "blocked")
    BY <2>c DEF Cut, Blocked, Got, Orphan, ReaperAt
  <2>5. CASE StartClose
    <3>1. /\ reaper'.events = reaper.events
          /\ reaper' = reaper \/ (reaper'.pc \in {"lock", "orphan"} /\ reaper.pc = "blocked")
      BY <2>5, <2>c DEF StartClose
    <3>2. /\ ghost'.left = ghost.left /\ ghost'.reads = ghost.reads
          /\ ghost'.clean = ghost.clean
      BY <2>5, <2>a DEF StartClose, ThreadOK
    <3>3. UNCHANGED <<reap_thread, wakeups>> /\ pc'[Owner] = "open"
      BY <2>5, <2>a DEF StartClose, Goto, AppOK
    <3>4. QED
      BY <2>a, <3>1, <3>2, <3>3
  <2>5a. CASE CloseZero
    BY <2>5a, <2>a, <2>c DEF CloseZero, app
  <2>6. CASE StartOpen
    BY <2>6, <2>a, <2>n DEF StartOpen, Goto, Return, AppOK, thread, kernel
  <2>7. CASE StartNonblock
    BY <2>7, <2>a, <2>n DEF StartNonblock, Goto, Return, AppOK, thread, kernel
  <2>8. CASE StartAdd
    BY <2>8, <2>a, <2>n DEF StartAdd, Goto, Return, AppOK, thread, kernel
  <2>9. CASE StartFlush
    BY <2>9, <2>a, <2>n DEF StartFlush, Goto, Return, AppOK, thread, kernel
  <2>10. CASE StartSpawn
    <3>1. CASE reap_thread.joinable
      <4>1. UNCHANGED <<reap_thread, reaper, ghost>>
        BY <2>10, <3>1, Zenon DEF StartSpawn, thread
      <4>2. QED
        BY <2>10, <2>a, <2>n, <4>1 DEF StartSpawn, Return, Goto, AppOK, kernel
    <3>2. CASE ~reap_thread.joinable
      <4>1. /\ reap_thread' = [joinable |-> TRUE, stop |-> FALSE]
            /\ reaper' = [reaper EXCEPT !.pc = "loop"]
            /\ ghost' = Noted(wakeups > 0, 0, wakeups = 0)
        BY <2>10, <3>2, Zenon DEF StartSpawn
      <4>2. /\ ghost'.left <=> wakeups > 0
            /\ ghost'.reads = 0
            /\ ghost'.clean <=> wakeups = 0
        <5> DEFINE some == wakeups > 0
        <5> DEFINE none == wakeups = 0
        <5>1. some \in BOOLEAN /\ none \in BOOLEAN /\ ghost' = Noted(some, 0, none)
          BY <4>1
        <5> HIDE DEF some, none
        <5>2. ghost'.left = some /\ ghost'.reads = 0 /\ ghost'.clean = none
          BY <2>a, <5>1, GhostRecord
        <5>3. QED
          BY <5>2, Zenon DEF some, none
      <4>3. reaper'.pc = "loop" /\ reaper'.events = {}
        BY <2>a, <3>2, <4>1 DEF ReaperOK
      <4>4. pc'[Owner] = "idle" /\ wakeups' = wakeups /\ wakeups \in Nat
        BY <2>10, <2>a DEF StartSpawn, Return, Goto, AppOK, KernelOK, kernel
      <4>5. reap_thread'.joinable /\ ~reap_thread'.stop
        BY <4>1
      <4>6. QED
        BY <4>2, <4>3, <4>4, <4>5
    <3>3. QED
      BY <3>1, <3>2
  <2>11. CASE StopRequest
    BY <2>11, <2>a
    DEF StopRequest, Goto, Return, thread, kernel, AppOK, ThreadOK, ReaperOK, KernelOK
  <2>12. CASE StopWrite
    BY <2>12, <2>a
    DEF StopWrite, AwaitReaper, StopReturn, Goto, Return, thread, kernel, AppOK, ThreadOK,
        ReaperOK, KernelOK
  <2>13. CASE StopJoin
    BY <2>13, <2>a
    DEF StopJoin, StopReturn, Goto, Return, thread, kernel, AppOK, ThreadOK, ReaperOK,
        KernelOK
  <2>13a. CASE Destroy
    BY <2>13a, <2>a DEF Destroy, kernel, AppOK, ThreadOK, ReaperOK, KernelOK
  <2>13b. CASE DestroyClose
    BY <2>13b, <2>a, <2>n DEF DestroyClose, Goto, AppOK, thread, kernel
  <2>13c. CASE DestroyReap
    BY <2>13c, <2>a DEF DestroyReap, Goto, AppOK, ThreadOK, ReaperOK, KernelOK
  <2>14. CASE EpollWait
    <3>1. EventFd \in Ready => wakeups > 0
      <4>1. \A s \in {sock, twin} : s.fd # EventFd
        BY DEF TypeInv, SocketInv, Absent
      <4>2. QED
        BY <4>1, Zenon DEF Ready, Open
    <3>2. reaper' = [reaper EXCEPT !.events = Ready] /\ reaper.pc = "loop"
      BY <2>14 DEF EpollWait
    <3>3. reaper'.pc = reaper.pc /\ reaper'.cur = reaper.cur /\ reaper'.events = Ready
      BY <2>a, <3>2 DEF ReaperOK
    <3>4. QED
      BY <2>14, <2>a, <3>1, <3>2, <3>3 DEF EpollWait, app, kernel, KernelOK
  <2>15. CASE EpollInterrupted
    BY <2>15, <2>a
    DEF EpollInterrupted, app, kernel, ReaperAt, Exit, ThreadOK, ReaperOK, KernelOK
  <2>16. ASSUME NEW fd \in reaper.events, CheckEvent(fd) PROVE Inv'
    BY <2>16, <2>a
    DEF CheckEvent, app, kernel, ReaperAt, Exit, Take, ThreadOK, ReaperOK, KernelOK
  <2>17. CASE ReadEventFd
    <3>1. CASE Closed /\ reaper' = Loop /\ UNCHANGED <<wakeups, ghost>>
      BY <2>17, <3>1, <2>a DEF ReadEventFd, app, Loop, ReaperAt
    <3>2. CASE ~Closed
      <4>1. /\ ghost'.left = ghost.left /\ ghost'.reads = ghost.reads + 1
            /\ ghost'.clean <=> ghost.clean \/ ~reap_thread.stop
        <5>1. ghost' = Noted(ghost.left, ghost.reads + 1, ghost.clean \/ ~reap_thread.stop)
          BY <2>17, <3>2, Zenon DEF ReadEventFd
        <5> DEFINE clean == ghost.clean \/ ~reap_thread.stop
        <5>2. clean \in BOOLEAN /\ ghost' = Noted(ghost.left, ghost.reads + 1, clean)
          BY <5>1
        <5>3. ghost.left \in BOOLEAN /\ ghost.reads + 1 \in Nat
          BY <2>a DEF ThreadOK
        <5> HIDE DEF clean
        <5>4. /\ ghost'.left = ghost.left /\ ghost'.reads = ghost.reads + 1
              /\ ghost'.clean = clean
          BY <2>a, <5>2, <5>3, GhostRecord
        <5>5. QED
          BY <5>4, Zenon DEF clean
      <4>2. /\ UNCHANGED <<pc, reap_thread>> /\ wakeups' = 0
            /\ reaper.pc = "read" /\ reaper.cur = EventFd
        BY <2>17, <3>2 DEF ReadEventFd, app
      <4>3. reaper'.pc = "lock" /\ reaper'.events = reaper.events
        BY <2>17, <3>2 DEF ReadEventFd, Got, ReaperAt
      <4>4. ReaperInv'
        BY <4>2, <4>3
      <4>5. StopInv'
        BY <4>1, <4>2, <4>3
      <4>6. QED
        BY <4>4, <4>5
    <3>3. QED
      BY <2>17, <3>1, <3>2 DEF ReadEventFd
  <2>18. CASE ReadSocket
    BY <2>18, <2>a
    DEF ReadSocket, app, kernel, ReaperAt, ReadFrame, ReadFrom, Got, Loop, ThreadOK,
        ReaperOK, KernelOK
  <2>19. CASE ReadResumes
    BY <2>19, <2>a
    DEF ReadResumes, app, kernel, ReaperAt, ReadFrame, ReadFrom, Got, ThreadOK, ReaperOK,
        KernelOK
  <2>20. CASE ReadFails
    BY <2>20, <2>a DEF ReadFails, app, kernel, ReaperAt, Loop, ThreadOK, ReaperOK, KernelOK
  <2>21. CASE DispatchLock
    BY <2>21, <2>a DEF DispatchLock, app, kernel, ReaperAt, ThreadOK, ReaperOK, KernelOK
  <2>22. CASE Dispatch
    <3>1. /\ ghost'.left = ghost.left /\ ghost'.reads = ghost.reads
          /\ ghost'.clean = ghost.clean
      BY <2>22, <2>a DEF Dispatch, LookedUp, ThreadOK
    <3>2. QED
      BY <2>22, <3>1 DEF Dispatch, app, kernel, Loop, ReaperAt
  <2>23. CASE Crash
    BY <2>23, <2>a DEF Crash, app, kernel, ReaperAt, ThreadOK, ReaperOK, KernelOK
  <2>24. ASSUME NEW id \in BusIds, BusFrame(id) PROVE Inv'
    BY <2>24, <2>a DEF BusFrame, app, kernel, ReaperAt, Got, ThreadOK, ReaperOK, KernelOK
  <2>25. CASE UNCHANGED vars
    BY <2>25, <2>n DEF vars, app, thread, kernel
  <2>26. QED
    BY <2>1, <2>2, <2>3, <2>4, <2>5, <2>5a, <2>6, <2>7, <2>8, <2>9, <2>10, <2>11, <2>12, <2>13,
       <2>13a, <2>13b, <2>13c, <2>14, <2>15, <2>16, <2>17, <2>18, <2>19, <2>20, <2>21,
       <2>22, <2>23, <2>24, <2>25
    DEF Next, Register, StartStep, StopStep, DestroyStep, Reaper
<1>3. QED
  BY <1>1, <1>2, TypeInvariant, PTL DEF Spec

(* When stop() has joined there is no reaper, a reaper misreads the eventfd at
   most once and only with a stale notification in it, and a stop() that meets
   no stale notification is never lost. *)
THEOREM StopCorrect == Spec => [](QuietAfterStop /\ AtMostOnePhantom /\ StopNotLost)
<1>1. ReaperInv /\ StopInv => QuietAfterStop /\ AtMostOnePhantom /\ StopNotLost
  BY DEF ReaperInv, StopInv
<1>2. QED
  BY <1>1, StopInvariant, PTL

(* A reaper misreads the eventfd at most once, and only if its predecessor left
   a notification unread: the phantom frame of reap_process is not repeated. *)
THEOREM PhantomCorrect == Spec => []AtMostOnePhantom
BY StopCorrect, PTL

(* A reaper that nobody has asked to stop is there and in its loop: none of the
   errors of epoll_wait and of read() ends reap_process. *)
LEMMA ReaperStays == Spec => []ReaperLives
<1> USE DispatcherAssumption
<1>1. Init => ReaperLives
  BY DEF Init, ReaperLives
<1>2. TypeInv /\ ReaperLives /\ [Next]_vars => ReaperLives'
  <2> SUFFICES ASSUME TypeInv, ReaperLives, [Next]_vars PROVE ReaperLives'
    OBVIOUS
  <2>a. ReaperOK /\ ThreadOK
    BY DEF TypeInv, TypeOK
  <2>n. ASSUME UNCHANGED reap_thread,
               reaper'.pc \in {"none", "exited"} => reaper'.pc = reaper.pc
        PROVE ReaperLives'
    BY <2>n DEF ReaperLives
  <2>1. ASSUME NEW t \in Threads, NEW ids \in IdSets, NEW cb \in Callbacks,
               CallRegister(t, ids, cb)
        PROVE ReaperLives'
    BY <2>1, <2>n DEF CallRegister, thread
  <2>2. ASSUME NEW t \in Threads, Register(t) PROVE ReaperLives'
    BY <2>2, <2>n DEF Register, RegisterLock, RegisterStore, RegisterUnlock, thread
  <2>3. CASE StartClose \/ CloseZero
    BY <2>3, <2>n DEF StartClose, CloseZero, Cut, Got, Orphan, ReaperAt
  <2>4. CASE StartOpen \/ StartNonblock \/ StartAdd \/ StartFlush
    BY <2>4, <2>n DEF StartOpen, StartNonblock, StartAdd, StartFlush, thread
  <2>5. CASE StartSpawn
    <3>1. CASE reap_thread.joinable
      BY <2>5, <2>n, <3>1, Zenon DEF StartSpawn, thread
    <3>2. CASE ~reap_thread.joinable
      <4>1. reaper' = [reaper EXCEPT !.pc = "loop"]
        BY <2>5, <3>2, Zenon DEF StartSpawn
      <4>2. QED
        BY <2>a, <4>1 DEF ReaperOK, ReaperLives
    <3>3. QED
      BY <3>1, <3>2
  <2>6. CASE StopRequest
    BY <2>6, <2>a DEF StopRequest, ThreadOK, ReaperLives
  <2>7. CASE StopWrite
    BY <2>7, <2>n DEF StopWrite, thread
  <2>8. CASE StopJoin
    BY <2>8, <2>a DEF StopJoin, ThreadOK, ReaperLives
  <2>9. CASE Destroy
    <3>1. reap_thread'.joinable = reap_thread.joinable
      BY <2>9, <2>a, Zenon DEF Destroy, ThreadOK
    <3>2. reap_thread'.stop <=> reap_thread.stop \/ reap_thread.joinable
      BY <2>9, <2>a DEF Destroy, ThreadOK
    <3>3. QED
      BY <2>9, <3>1, <3>2 DEF Destroy, ReaperLives
  <2>10. CASE DestroyClose
    BY <2>10, <2>n DEF DestroyClose, thread
  <2>11. CASE DestroyReap
    BY <2>11, <2>a DEF DestroyReap, ThreadOK, ReaperLives
  <2>12. CASE EpollInterrupted
    BY <2>12 DEF EpollInterrupted, ReaperLives
  <2>13. ASSUME NEW fd \in reaper.events, CheckEvent(fd) PROVE ReaperLives'
    BY <2>13 DEF CheckEvent, Take, ReaperAt, ReaperLives
  <2>14. CASE EpollWait \/ DispatchLock
    BY <2>14, <2>a, <2>n DEF EpollWait, DispatchLock, ReaperOK
  <2>15. CASE ReadEventFd
    BY <2>15, <2>n DEF ReadEventFd, Got, Loop, ReaperAt
  <2>16. CASE ReadSocket
    BY <2>16, <2>a, <2>n DEF ReadSocket, ReadFrame, ReadFrom, Got, Loop, ReaperAt, ReaperOK
  <2>17. CASE ReadResumes
    BY <2>17, <2>n DEF ReadResumes, ReadFrame, ReadFrom, Got, ReaperAt
  <2>18. CASE ReadFails \/ Dispatch
    BY <2>18, <2>n DEF ReadFails, Dispatch, Loop, ReaperAt
  <2>19. CASE Crash
    BY <2>19, <2>n DEF Crash, ReaperAt
  <2>20. ASSUME NEW id \in BusIds, BusFrame(id) PROVE ReaperLives'
    BY <2>20, <2>n DEF BusFrame, Got, ReaperAt
  <2>21. CASE UNCHANGED vars
    BY <2>21, <2>n DEF vars, thread
  <2>22. QED
    BY <2>1, <2>2, <2>3, <2>4, <2>5, <2>6, <2>7, <2>8, <2>9, <2>10, <2>11, <2>12, <2>13,
       <2>14, <2>15, <2>16, <2>17, <2>18, <2>19, <2>20, <2>21
    DEF Next, StartStep, StopStep, DestroyStep, Reaper
<1>3. QED
  BY <1>1, <1>2, TypeInvariant, PTL DEF Spec

-----------------------------------------------------------------------------
(***************************************************************************)
(* The order of the frames.                                                *)
(***************************************************************************)
(* What reading and receiving do to a queue. *)
LEMMA QueueBelow ==
  ASSUME NEW q \in Seq(Frames), NEW n \in Nat, Below(q, n)
  PROVE /\ Below(<<>>, n) /\ Below(q, n + 1)
        /\ q # <<>> => Below(Tail(q), n) /\ Head(q).seq <= n
        /\ \A f \in Frames : f.seq = n + 1 => Below(Append(q, f), n + 1)
<1>0. \A i \in 1..Len(q) : q[i].seq \in Nat
  <2>1. \A f \in Frames : f.seq \in Nat
    BY DEF Frames
  <2>2. QED
    BY <2>1
<1>1. Below(<<>>, n) /\ Below(q, n + 1)
  BY <1>0 DEF Below
<1>2. q # <<>> => Below(Tail(q), n) /\ Head(q).seq <= n
  BY DEF Below
<1>3. ASSUME NEW f \in Frames, f.seq = n + 1 PROVE Below(Append(q, f), n + 1)
  BY <1>0, <1>3 DEF Below
<1>4. QED
  BY <1>1, <1>2, <1>3

LEMMA QueueRising ==
  ASSUME NEW q \in Seq(Frames), NEW n \in Nat, Rising(q, n)
  PROVE /\ q # <<>> => /\ Rising(Tail(q), n) /\ n <= Head(q).seq
                       /\ Rising(Tail(q), Head(q).seq)
        /\ \A f \in Frames, k \in Nat :
             Below(q, k) /\ f.seq = k + 1 /\ n <= k + 1 => Rising(Append(q, f), n)
<1>0. \A i \in 1..Len(q) : q[i].seq \in Nat
  <2>1. \A f \in Frames : f.seq \in Nat
    BY DEF Frames
  <2>2. QED
    BY <2>1
<1>1. ASSUME q # <<>> PROVE /\ Rising(Tail(q), n) /\ n <= Head(q).seq
                            /\ Rising(Tail(q), Head(q).seq)
  <2>1. /\ Len(Tail(q)) = Len(q) - 1 /\ Head(q) = q[1] /\ Len(q) \in Nat
        /\ \A i \in 1..Len(Tail(q)) : Tail(q)[i] = q[i + 1]
    BY <1>1
  <2>2. QED
    BY <1>0, <1>1, <2>1 DEF Rising
<1>2. ASSUME NEW f \in Frames, NEW k \in Nat, Below(q, k), f.seq = k + 1, n <= k + 1
      PROVE Rising(Append(q, f), n)
  <2>1. /\ Len(Append(q, f)) = Len(q) + 1 /\ Len(q) \in Nat
        /\ \A i \in 1..Len(q) : Append(q, f)[i] = q[i]
        /\ Append(q, f)[Len(q) + 1] = f
    OBVIOUS
  <2> DEFINE r == Append(q, f)
  <2>2. \A i \in 1..Len(r) : \/ i \in 1..Len(q) /\ r[i] = q[i]
                             \/ i = Len(q) + 1 /\ r[i].seq = k + 1
    BY <1>2, <2>1
  <2>3. Len(r) = Len(q) + 1
    BY <2>1
  <2> HIDE DEF r
  <2>4. \A i \in 1..Len(r) : n <= r[i].seq
    BY <1>2, <2>2 DEF Rising
  <2>5. ASSUME NEW i \in 1..Len(r), NEW j \in 1..Len(r), i < j PROVE r[i].seq <= r[j].seq
    <3>1. i \in 1..Len(q) /\ r[i] = q[i]
      BY <2>1, <2>2, <2>3, <2>5
    <3>2. CASE j \in 1..Len(q) /\ r[j] = q[j]
      BY <2>5, <3>1, <3>2 DEF Rising
    <3>3. CASE r[j].seq = k + 1
      BY <1>0, <1>2, <3>1, <3>3 DEF Below
    <3>4. QED
      BY <2>2, <3>2, <3>3
  <2>6. QED
    BY <2>4, <2>5 DEF Rising, r
<1>3. QED
  BY <1>1, <1>2

LEMMA NoQueue == NoSock.rx = <<>> /\ NoSock.fd = -1 /\ \A n : Rising(<<>>, n)
BY DEF NoSock, NewSock, Rising

(* What close() does to the reaper. *)
LEMMA CutReaper ==
  ASSUME NEW s, Cut(s)
  PROVE \/ reaper' = reaper
        \/ reaper'.pc = "orphan"
        \/ s.rx # <<>> /\ reaper'.pc = "lock" /\ reaper'.frame = Head(s.rx)
BY DEF Cut, Got, Orphan, ReaperAt

(* What a frame of the bus does to a socket. *)
LEMMA WithQueue ==
  ASSUME NEW s \in Sockets, NEW f
  PROVE /\ With(s, f).rx = s.rx \/ With(s, f).rx = Append(s.rx, f)
        /\ s.fd \notin Fds => With(s, f) = s
BY DEF With, Sockets

(* The types of what the order is about. *)
LEMMA FrameTypes ==
  ASSUME TypeInv
  PROVE /\ sock \in Sockets /\ twin \in Sockets
        /\ sock.rx \in Seq(Frames) /\ twin.rx \in Seq(Frames)
        /\ sent \in Nat /\ ghost.last \in Nat /\ reaper.frame.seq \in Nat
<1>1. sock \in Sockets /\ twin \in Sockets /\ sent \in Nat
  BY DEF TypeInv, TypeOK, KernelOK
<1>2. ghost.last \in Nat /\ reaper.frame \in Frames
  BY DEF TypeInv, TypeOK, ThreadOK, ReaperOK
<1>3. QED
  BY <1>1, <1>2, FlagRecord DEF Frames

(* The other steps leave the queues, and what the reaper holds of them, alone. *)
FrameSteps ==
  \/ StartClose \/ CloseZero \/ StartOpen \/ StartFlush \/ DestroyReap
  \/ ReadSocket \/ ReadResumes \/ Dispatch \/ Crash
  \/ \E id \in BusIds : BusFrame(id)

KeepsFrames ==
  /\ sock'.rx = sock.rx /\ UNCHANGED <<twin, sent>>
  /\ ghost'.last = ghost.last /\ ghost'.doubled = ghost.doubled
  /\ \/ reaper'.pc \notin {"lock", "cs", "orphan"}
     \/ reaper'.pc = "lock" /\ reaper'.frame.seq = 0
     \/ reaper'.pc = "cs" /\ reaper.pc = "lock" /\ reaper'.frame = reaper.frame
     \/ reaper' = reaper

LEMMA OthersKeepFrames == ASSUME TypeInv, [Next]_vars PROVE FrameSteps \/ KeepsFrames
<1>a. ReaperOK /\ ThreadOK /\ KernelOK
  BY DEF TypeInv, TypeOK
<1>n. UNCHANGED <<reaper, ghost, kernel>> => KeepsFrames
  BY DEF KeepsFrames, kernel
<1>1. ASSUME NEW t \in Threads, NEW ids \in IdSets, NEW cb \in Callbacks,
             CallRegister(t, ids, cb)
      PROVE KeepsFrames
  BY <1>1, <1>n DEF CallRegister, thread
<1>2. ASSUME NEW t \in Threads, Register(t) PROVE KeepsFrames
  BY <1>2, <1>n DEF Register, RegisterLock, RegisterStore, RegisterUnlock, thread
<1>3. CASE StartNonblock \/ StartAdd
  BY <1>3, <1>a DEF StartNonblock, StartAdd, KernelOK, Sockets, thread, KeepsFrames
<1>4. CASE StartSpawn
  <2>1. CASE UNCHANGED thread
    BY <1>4, <2>1, <1>n DEF StartSpawn, thread
  <2>2. CASE /\ reaper' = [reaper EXCEPT !.pc = "loop"]
             /\ ghost' = Noted(wakeups > 0, 0, wakeups = 0)
    <3>1. reaper'.pc = "loop"
      BY <2>2, <1>a DEF ReaperOK
    <3>2. ghost'.last = ghost.last /\ ghost'.doubled = ghost.doubled
      BY <2>2, <1>a DEF ThreadOK, Noted
    <3>3. QED
      BY <1>4, <3>1, <3>2 DEF StartSpawn, kernel, KeepsFrames
  <2>3. QED
    BY <1>4, <2>1, <2>2, Zenon DEF StartSpawn
<1>5. CASE StopRequest \/ StopWrite \/ Destroy \/ DestroyClose
  BY <1>5 DEF StopRequest, StopWrite, Destroy, DestroyClose, thread, kernel, KeepsFrames
<1>6. CASE StopJoin \/ EpollWait \/ DispatchLock
  BY <1>6, <1>a DEF StopJoin, EpollWait, DispatchLock, ReaperOK, kernel, KeepsFrames
<1>7. CASE EpollInterrupted \/ ReadFails
  BY <1>7 DEF EpollInterrupted, ReadFails, Exit, Loop, ReaperAt, kernel, KeepsFrames
<1>8. ASSUME NEW fd \in reaper.events, CheckEvent(fd) PROVE KeepsFrames
  BY <1>8 DEF CheckEvent, Exit, Take, ReaperAt, kernel, KeepsFrames
<1>9. CASE ReadEventFd
  <2>1. ghost'.last = ghost.last /\ ghost'.doubled = ghost.doubled
    BY <1>9, <1>a DEF ReadEventFd, ThreadOK, Noted
  <2>2. reaper'.pc = "loop" \/ (reaper'.pc = "lock" /\ reaper'.frame.seq = 0)
    BY <1>9 DEF ReadEventFd, Got, Loop, ReaperAt
  <2>3. QED
    BY <1>9, <2>1, <2>2 DEF ReadEventFd, KeepsFrames
<1>10. CASE UNCHANGED vars
  BY <1>10, <1>n DEF vars, thread
<1>11. QED
  BY <1>1, <1>2, <1>3, <1>4, <1>5, <1>6, <1>7, <1>8, <1>9, <1>10
  DEF Next, StartStep, StopStep, DestroyStep, Reaper, FrameSteps

LEMMA SentInvariant == Spec => []SentInv
<1> USE DEF Holding
<1>1. Init => SentInv
  BY DEF Init, SentInv, NoSock, NewSock, Below
<1>2. TypeInv /\ SentInv /\ [Next]_vars => SentInv'
  <2> SUFFICES ASSUME TypeInv, SentInv, [Next]_vars PROVE SentInv'
    OBVIOUS
  <2>t. /\ sock \in Sockets /\ twin \in Sockets
        /\ sock.rx \in Seq(Frames) /\ twin.rx \in Seq(Frames)
        /\ sent \in Nat /\ ghost.last \in Nat /\ reaper.frame.seq \in Nat
    BY FrameTypes
  <2>q. /\ Below(<<>>, sent)
        /\ sock.rx # <<>> => Below(Tail(sock.rx), sent) /\ Head(sock.rx).seq <= sent
        /\ twin.rx # <<>> => Below(Tail(twin.rx), sent) /\ Head(twin.rx).seq <= sent
    BY <2>t, QueueBelow DEF SentInv
  <2>s. NoSock.rx = <<>>
    BY NoQueue
  <2>h. ASSUME \/ reaper'.pc \notin {"lock", "cs"}
               \/ sock.rx # <<>> /\ reaper'.frame = Head(sock.rx)
               \/ twin.rx # <<>> /\ reaper'.frame = Head(twin.rx)
               \/ reaper' = reaper,
               sent' = sent, ghost'.last = ghost.last,
               Below(sock.rx, sent)', Below(twin.rx, sent)'
        PROVE SentInv'
    BY <2>h, <2>q DEF SentInv
  <2>r. ASSUME ReadFrame, UNCHANGED <<ghost, sent>> PROVE SentInv'
    <3>1. CASE ReadFrom(sock) /\ sock' = [sock EXCEPT !.rx = Tail(@)] /\ UNCHANGED twin
      <4>1. sock.rx # <<>> /\ sock'.rx = Tail(sock.rx) /\ reaper'.frame = Head(sock.rx)
        BY <2>t, <3>1 DEF ReadFrom, Got, ReaperAt, Sockets
      <4>2. QED
        BY <2>h, <2>q, <2>r, <3>1, <4>1 DEF SentInv
    <3>2. CASE ReadFrom(twin) /\ twin' = [twin EXCEPT !.rx = Tail(@)] /\ UNCHANGED sock
      <4>1. twin.rx # <<>> /\ twin'.rx = Tail(twin.rx) /\ reaper'.frame = Head(twin.rx)
        BY <2>t, <3>2 DEF ReadFrom, Got, ReaperAt, Sockets
      <4>2. QED
        BY <2>h, <2>q, <2>r, <3>2, <4>1 DEF SentInv
    <3>3. QED
      BY <2>r, <3>1, <3>2 DEF ReadFrame
  <2>1. CASE KeepsFrames
    BY <2>1, <2>t DEF KeepsFrames, SentInv
  <2>2. CASE StartClose
    <3>1. ghost'.last = ghost.last /\ sent' = sent /\ sock' = NoSock
      BY <2>2 DEF StartClose, TypeInv, TypeOK, ThreadOK
    <3>2. CASE Cut(sock) /\ UNCHANGED twin
      BY <2>h, <2>q, <2>s, <3>1, <3>2, CutReaper DEF SentInv
    <3>3. CASE twin' = sock /\ UNCHANGED reaper
      BY <2>h, <2>q, <2>s, <3>1, <3>3 DEF SentInv
    <3>4. QED
      BY <2>2, <3>2, <3>3 DEF StartClose
  <2>3. CASE CloseZero
    <3>1. CASE sock' = NoSock /\ Cut(sock) /\ UNCHANGED twin
      BY <2>h, <2>q, <2>s, <2>3, <3>1, CutReaper DEF CloseZero, SentInv
    <3>2. CASE twin' = NoSock /\ Cut(twin) /\ UNCHANGED sock
      BY <2>h, <2>q, <2>s, <2>3, <3>2, CutReaper DEF CloseZero, SentInv
    <3>3. QED
      BY <2>3, <3>1, <3>2 DEF CloseZero
  <2>4. CASE StartOpen
    <3>1. sock'.rx = <<>>
      BY <2>4 DEF StartOpen, NoSock, NewSock
    <3>2. QED
      BY <2>4, <2>h, <2>q, <3>1 DEF StartOpen, thread, SentInv
  <2>5. CASE StartFlush
    <3>1. (sock.rx # <<>> /\ sock'.rx = Tail(sock.rx)) \/ sock' = sock
      BY <2>5, <2>t DEF StartFlush, Sockets
    <3>2. QED
      BY <2>5, <2>h, <2>q, <3>1 DEF StartFlush, thread, SentInv
  <2>6. CASE DestroyReap
    <3>1. reaper'.pc = "none"
      BY <2>6 DEF DestroyReap, TypeInv, TypeOK, ReaperOK
    <3>2. QED
      BY <2>6, <2>h, <2>q, <2>s, <3>1 DEF DestroyReap, SentInv
  <2>7. CASE ReadSocket
    <3>1. CASE ReadFrame
      BY <2>7, <2>r, <3>1 DEF ReadSocket
    <3>2. CASE ~ReadFrame
      <4>1. reaper'.pc \notin {"lock", "cs"}
        BY <2>7, <3>2 DEF ReadSocket, Loop, ReaperAt, TypeInv, TypeOK, ReaperOK
      <4>2. QED
        BY <2>7, <2>h, <3>2, <4>1 DEF ReadSocket, SentInv
    <3>3. QED
      BY <3>1, <3>2
  <2>8. CASE ReadResumes
    BY <2>8, <2>r DEF ReadResumes
  <2>9. CASE Dispatch
    <3>1. reaper'.pc = "loop" /\ UNCHANGED kernel
      BY <2>9 DEF Dispatch, Loop, ReaperAt
    <3>2. ghost'.last \in {ghost.last, reaper.frame.seq}
      BY <2>9 DEF Dispatch, LookedUp, TypeInv, TypeOK, ThreadOK
    <3>3. QED
      BY <2>9, <3>1, <3>2 DEF Dispatch, kernel, SentInv
  <2>10. CASE Crash
    BY <2>10, <2>h, <2>q, <2>s DEF Crash, ReaperAt
  <2>11. ASSUME NEW id \in BusIds, BusFrame(id) PROVE SentInv'
    <3> DEFINE f == [id |-> id, seq |-> sent + 1]
    <3>1. f \in Frames /\ f.seq = sent + 1
      BY <2>t, DispatcherAssumption DEF Frames
    <3>2. /\ sent' = sent + 1 /\ UNCHANGED ghost
          /\ \/ /\ sock' = With(sock, f) /\ twin' \in {twin, With(twin, f)}
                /\ reaper' = IF reaper.pc = "orphan" THEN Got(f) ELSE reaper
             \/ UNCHANGED <<sock, twin, reaper>>
      BY <2>11, Zenon DEF BusFrame
    <3> HIDE DEF f
    <3>3. /\ sock'.rx = sock.rx \/ sock'.rx = Append(sock.rx, f)
          /\ twin'.rx = twin.rx \/ twin'.rx = Append(twin.rx, f)
      BY <2>t, <3>2, WithQueue
    <3>4. Below(sock.rx, sent)' /\ Below(twin.rx, sent)'
      BY <2>t, <3>1, <3>2, <3>3, QueueBelow DEF SentInv
    <3>5. reaper' = reaper \/ (reaper'.pc = "lock" /\ reaper'.frame = f)
      BY <3>2 DEF Got, ReaperAt
    <3>6. QED
      BY <2>t, <3>1, <3>2, <3>4, <3>5 DEF SentInv
  <2>12. QED
    BY <2>1, <2>2, <2>3, <2>4, <2>5, <2>6, <2>7, <2>8, <2>9, <2>10, <2>11, OthersKeepFrames
    DEF FrameSteps
<1>3. QED
  BY <1>1, <1>2, TypeInvariant, PTL DEF Spec

(* The queue and the reaper's hand are in the order of the bus, and nothing is older
   than what was looked up last, until start() finds its socket numbered 0. *)
LEMMA OrderInvariant == Spec => []OrderInv /\ InOrder
<1> DEFINE Kept == ghost.doubled \/ ghost'.last >= ghost.last
<1> USE DEF Holding
<1>1. Init => OrderInv
  <2> SUFFICES ASSUME Init PROVE SentInv /\ Ordered
    BY DEF OrderInv
  <2>1. NoSock.rx = <<>> /\ \A n : Rising(<<>>, n)
    BY NoQueue
  <2>2. QED
    BY <2>1 DEF Init, SentInv, Ordered, Below
<1>2. TypeInv /\ SentInv /\ SentInv' /\ OrderInv /\ [Next]_vars => OrderInv' /\ Kept
  <2> SUFFICES ASSUME TypeInv, SentInv, SentInv', OrderInv, [Next]_vars
               PROVE (ghost'.doubled \/ Ordered') /\ Kept
    BY DEF OrderInv
  <2>d. ghost.doubled => ghost'.doubled
    <3>1. CASE StartClose \/ Dispatch
      <4>1. \/ ghost' = ghost \/ ghost' = [ghost EXCEPT !.doubled = TRUE]
            \/ ghost' = [ghost EXCEPT !.last = reaper.frame.seq]
        BY <3>1, Zenon DEF StartClose, Dispatch, LookedUp
      <4>2. QED
        BY <4>1 DEF TypeInv, TypeOK, ThreadOK
    <3>2. CASE KeepsFrames
      BY <3>2 DEF KeepsFrames
    <3>3. QED
      BY <3>1, <3>2, OthersKeepFrames, Zenon
      DEF FrameSteps, CloseZero, StartOpen, StartFlush, DestroyReap, ReadSocket,
          ReadResumes, Crash, BusFrame, thread
  <2> SUFFICES ASSUME ~ghost.doubled PROVE (ghost'.doubled \/ Ordered') /\ Kept
    BY <2>d
  <2>t. /\ sock \in Sockets /\ twin \in Sockets
        /\ sock.rx \in Seq(Frames) /\ twin.rx \in Seq(Frames)
        /\ sent \in Nat /\ ghost.last \in Nat /\ reaper.frame.seq \in Nat
    BY FrameTypes
  <2>o. Ordered /\ twin.fd = -1 /\ twin.rx = <<>> /\ NoSock.rx = <<>>
    BY NoQueue DEF OrderInv, Ordered
  <2>q. \A n : Rising(<<>>, n)
    BY NoQueue
  <2>h. sock.rx # <<>> =>
          /\ Rising(Tail(sock.rx), ghost.last) /\ ghost.last <= Head(sock.rx).seq
          /\ Rising(Tail(sock.rx), Head(sock.rx).seq)
    BY <2>t, <2>o, QueueRising DEF Ordered
  <2>e. ASSUME sock'.rx = <<>>, twin' = twin, ghost'.last = ghost.last,
               \/ reaper'.pc \notin {"lock", "cs"}
               \/ sock.rx # <<>> /\ reaper'.frame = Head(sock.rx)
               \/ reaper' = reaper
        PROVE Ordered' /\ Kept
    BY <2>e, <2>t, <2>o, <2>q, <2>h DEF Ordered
  <2>r. ASSUME ReadFrame, UNCHANGED ghost PROVE Ordered' /\ Kept
    <3>1. ReadFrom(sock) /\ sock' = [sock EXCEPT !.rx = Tail(@)] /\ UNCHANGED twin
      BY <2>r, <2>o DEF ReadFrame, ReadFrom
    <3>2. /\ sock.rx # <<>> /\ sock'.rx = Tail(sock.rx)
          /\ reaper'.frame = Head(sock.rx) /\ reaper'.pc = "lock"
      BY <2>t, <3>1 DEF ReadFrom, Got, ReaperAt, Sockets
    <3>3. QED
      BY <2>r, <2>t, <2>o, <2>h, <3>1, <3>2 DEF Ordered
  <2>1. CASE KeepsFrames
    BY <2>1, <2>t, <2>o DEF KeepsFrames, Ordered
  <2>2. CASE StartClose
    <3>1. CASE sock.fd = 0
      <4>1. ghost' = [ghost EXCEPT !.doubled = TRUE]
        BY <2>2, <3>1 DEF StartClose
      <4>2. ghost'.doubled /\ ghost'.last = ghost.last
        BY <4>1 DEF TypeInv, TypeOK, ThreadOK
      <4>3. QED
        BY <2>t, <4>2
    <3>2. CASE sock.fd # 0
      BY <2>2, <2>e, <2>o, <3>2, CutReaper DEF StartClose
    <3>3. QED
      BY <3>1, <3>2
  <2>3. CASE CloseZero
    <3>1. sock' = NoSock /\ Cut(sock) /\ UNCHANGED <<twin, ghost>>
      BY <2>3, <2>o DEF CloseZero
    <3>2. QED
      BY <2>e, <2>o, <3>1, CutReaper
  <2>4. CASE StartOpen
    <3>1. sock'.rx = <<>>
      BY <2>4 DEF StartOpen, NoSock, NewSock
    <3>2. QED
      BY <2>4, <2>e, <3>1 DEF StartOpen, thread
  <2>5. CASE StartFlush
    <3>1. (sock.rx # <<>> /\ sock'.rx = Tail(sock.rx)) \/ sock' = sock
      BY <2>5, <2>t DEF StartFlush, Sockets
    <3>2. UNCHANGED <<reaper, ghost, twin>>
      BY <2>5 DEF StartFlush, thread
    <3>3. Holding /\ reaper.frame.seq > 0 /\ sock.rx # <<>>
            => Rising(Tail(sock.rx), reaper.frame.seq)
      BY <2>t, <2>o, QueueRising DEF Ordered
    <3>4. QED
      BY <2>t, <2>o, <2>h, <3>1, <3>2, <3>3 DEF Ordered
  <2>6. CASE DestroyReap
    <3>1. reaper'.pc = "none"
      BY <2>6 DEF DestroyReap, TypeInv, TypeOK, ReaperOK
    <3>2. QED
      BY <2>6, <2>e, <2>o, <3>1 DEF DestroyReap
  <2>7. CASE ReadSocket
    <3>1. CASE ReadFrame
      BY <2>7, <2>r, <3>1 DEF ReadSocket
    <3>2. CASE ~ReadFrame
      <4>1. reaper'.pc \notin {"lock", "cs", "orphan"}
        BY <2>7, <3>2 DEF ReadSocket, Loop, ReaperAt, TypeInv, TypeOK, ReaperOK
      <4>2. QED
        BY <2>7, <2>t, <2>o, <3>2, <4>1 DEF ReadSocket, Ordered
    <3>3. QED
      BY <3>1, <3>2
  <2>8. CASE ReadResumes
    BY <2>8, <2>r DEF ReadResumes
  <2>9. CASE Dispatch
    <3>1. reaper'.pc = "loop" /\ UNCHANGED kernel /\ reaper.pc = "cs"
      BY <2>9 DEF Dispatch, Loop, ReaperAt
    <3>2. ghost'.last = IF reaper.frame.seq = 0 THEN ghost.last ELSE reaper.frame.seq
      BY <2>9 DEF Dispatch, LookedUp, TypeInv, TypeOK, ThreadOK
    <3>3. QED
      BY <2>t, <2>o, <3>1, <3>2 DEF kernel, Ordered
  <2>10. CASE Crash
    BY <2>10, <2>e, <2>o DEF Crash, ReaperAt, Ordered
  <2>11. ASSUME NEW id \in BusIds, BusFrame(id) PROVE Ordered' /\ Kept
    <3> DEFINE f == [id |-> id, seq |-> sent + 1]
    <3>1. f \in Frames /\ f.seq = sent + 1
      BY <2>t, DispatcherAssumption DEF Frames
    <3>2. /\ UNCHANGED ghost
          /\ \/ /\ sock' = With(sock, f) /\ twin' \in {twin, With(twin, f)}
                /\ reaper' = IF reaper.pc = "orphan" THEN Got(f) ELSE reaper
             \/ UNCHANGED <<sock, twin, reaper>>
      BY <2>11, Zenon DEF BusFrame
    <3> HIDE DEF f
    <3>3. sock'.rx = sock.rx \/ sock'.rx = Append(sock.rx, f)
      BY <2>t, <3>2, WithQueue
    <3>4. twin' = twin
      BY <2>t, <2>o, <3>2, WithQueue, DispatcherAssumption
    <3>5. /\ ghost.last <= sent + 1
          /\ Holding /\ reaper.frame.seq > 0 => reaper.frame.seq <= sent + 1
      BY <2>t DEF SentInv
    <3>6. /\ Rising(Append(sock.rx, f), ghost.last)
          /\ Holding /\ reaper.frame.seq > 0 => Rising(Append(sock.rx, f), reaper.frame.seq)
      BY <2>t, <2>o, <3>1, <3>5, QueueRising DEF SentInv, Ordered
    <3>7. ghost'.last = ghost.last
      BY <3>2
    <3>8. CASE reaper.pc = "orphan" /\ reaper' = Got(f)
      <4>1. reaper'.pc = "lock" /\ reaper'.frame = f
        BY <3>8 DEF Got, ReaperAt
      <4>2. sock.rx = <<>>
        BY <2>o, <3>8 DEF Ordered
      <4>3. sent + 1 \in Nat /\ Below(sock.rx, sent) /\ Rising(sock.rx, sent + 1)
        BY <2>t, <2>q, <4>2 DEF SentInv
      <4> DEFINE n == sent + 1
      <4>4. n \in Nat /\ Rising(sock.rx, n) /\ f.seq = n /\ n = sent + 1
        BY <3>1, <4>3
      <4> HIDE DEF n
      <4>5. Rising(Append(sock.rx, f), n)
        BY <2>t, <3>1, <4>3, <4>4, QueueRising
      <4>6. Rising(sock'.rx, ghost.last) /\ Rising(sock'.rx, n)
        BY <2>o, <3>3, <3>6, <4>4, <4>5 DEF Ordered
      <4>7. ghost.last <= n
        BY <3>5, <4>4
      <4>8. QED
        BY <2>t, <2>o, <3>4, <3>7, <4>1, <4>4, <4>6, <4>7 DEF Ordered
    <3>9. CASE UNCHANGED reaper /\ reaper.pc # "orphan"
      <4>1. /\ Rising(sock'.rx, ghost.last)
            /\ Holding /\ reaper.frame.seq > 0 => Rising(sock'.rx, reaper.frame.seq)
        BY <2>o, <3>3, <3>6 DEF Ordered
      <4>2. QED
        BY <2>t, <2>o, <3>4, <3>7, <3>9, <4>1 DEF Ordered
    <3>10. CASE UNCHANGED <<sock, twin, reaper>>
      BY <2>t, <2>o, <3>2, <3>10 DEF Ordered
    <3>11. QED
      BY <3>2, <3>8, <3>9, <3>10
  <2>12. QED
    BY <2>1, <2>2, <2>3, <2>4, <2>5, <2>6, <2>7, <2>8, <2>9, <2>10, <2>11, OthersKeepFrames
    DEF FrameSteps
<1>3. QED
  BY <1>1, <1>2, TypeInvariant, SentInvariant, PTL DEF Spec, InOrder

(* Frames are looked up in the order in which they were on the bus, whatever
   start() does to the socket under a running reaper, until a start() finds its
   socket numbered 0 and leaves it open. *)
THEOREM OrderCorrect == Spec => InOrder
BY OrderInvariant, PTL

-----------------------------------------------------------------------------
(***************************************************************************)
(* Why a stop() without a stale notification returns.                      *)
(***************************************************************************)
(* The steps that change the reaper. *)
ReaperSteps ==
  \/ EpollWait \/ EpollInterrupted \/ Crash
  \/ \E fd \in reaper.events : CheckEvent(fd)
  \/ ReadEventFd \/ ReadSocket \/ ReadResumes \/ ReadFails \/ Dispatch
  \/ DispatchLock \/ StartClose \/ CloseZero \/ StopJoin \/ DestroyReap \/ StartSpawn
  \/ \E id \in BusIds : BusFrame(id)

LEMMA OthersKeepReaper == ASSUME [Next]_vars PROVE UNCHANGED reaper \/ ReaperSteps
BY Zenon
DEF vars, thread, Next, CallRegister, Register, RegisterLock, RegisterStore,
    RegisterUnlock, StartStep, StartOpen, StartNonblock, StartAdd, StartFlush,
    StopRequest, StopStep, StopWrite, Destroy, DestroyStep, DestroyClose, Reaper,
    ReaperSteps

(* epoll_wait has told of one socket at most besides the one numbered 0. *)
OneSocketEvent == \A e, f \in reaper.events \ {EventFd, 0} : e = f

LEMMA EventsInvariant == Spec => []OneSocketEvent
<1>1. Init => OneSocketEvent
  BY DEF Init, OneSocketEvent
<1>2. TypeInv /\ OneSocketEvent /\ [Next]_vars => OneSocketEvent'
  <2> SUFFICES ASSUME TypeInv, OneSocketEvent, [Next]_vars PROVE OneSocketEvent'
    OBVIOUS
  <2>a. ReaperOK
    BY DEF TypeInv, TypeOK
  <2>n. ASSUME reaper'.events \subseteq reaper.events PROVE OneSocketEvent'
    BY <2>n DEF OneSocketEvent
  <2>1. CASE UNCHANGED reaper
    BY <2>1, <2>n
  <2>2. CASE EpollWait
    <3>1. reaper'.events = Ready
      BY <2>2, <2>a DEF EpollWait, ReaperOK
    <3>2. twin.fd \in {0, -1} /\ \A s \in {sock, twin} : s.fd = -1 => ~s.polled
      BY DispatcherAssumption DEF TypeInv, SocketInv, Absent
    <3>3. -1 \notin Ready
      BY <3>2, DispatcherAssumption DEF Ready, Open
    <3>4. Ready \subseteq {EventFd, sock.fd, twin.fd}
      BY DEF Ready
    <3>5. QED
      BY <3>1, <3>2, <3>3, <3>4 DEF OneSocketEvent
  <2>3. ASSUME NEW fd \in reaper.events, CheckEvent(fd) PROVE OneSocketEvent'
    BY <2>3, <2>n DEF CheckEvent, Exit, Take, ReaperAt
  <2>4. CASE ReadEventFd \/ ReadSocket \/ ReadResumes \/ ReadFails \/ Dispatch
    BY <2>4, <2>a, <2>n
    DEF ReadEventFd, ReadSocket, ReadResumes, ReadFails, Dispatch, ReadFrame, ReadFrom,
        Got, Loop, ReaperAt, ReaperOK
  <2>5. CASE EpollInterrupted \/ Crash
    BY <2>5, <2>n DEF EpollInterrupted, Crash, Exit, ReaperAt
  <2>6. CASE DispatchLock \/ StopJoin \/ DestroyReap
    BY <2>6, <2>a, <2>n DEF DispatchLock, StopJoin, DestroyReap, ReaperOK
  <2>6a. CASE StartClose \/ CloseZero
    BY <2>6a, <2>n DEF StartClose, CloseZero, Cut, Got, Orphan, ReaperAt
  <2>7. CASE StartSpawn
    <3>1. reaper' = reaper \/ reaper' = [reaper EXCEPT !.pc = "loop"]
      BY <2>7, Zenon DEF StartSpawn, thread
    <3>2. QED
      BY <2>a, <2>n, <3>1 DEF ReaperOK
  <2>8. ASSUME NEW id \in BusIds, BusFrame(id) PROVE OneSocketEvent'
    BY <2>8, <2>n DEF BusFrame, Got, ReaperAt
  <2>9. QED
    BY <2>1, <2>2, <2>3, <2>4, <2>5, <2>6, <2>6a, <2>7, <2>8, OthersKeepReaper
    DEF ReaperSteps
<1>3. QED
  BY <1>1, <1>2, TypeInvariant, PTL DEF Spec

(* What is left of a round counts less than what is left of the round and of the
   events that are still to be looked at. *)
LEMMA LoopRanks ==
  ASSUME NEW events
  PROVE  /\ LoopRank(events) \in 1..26
         /\ EventFd \in events => LoopRank(events) <= 13
         /\ LoopRank({}) = 14
         /\ \A fd \in events :
              fd # EventFd /\ (\A e, f \in events \ {EventFd, 0} : e = f)
                => LoopRank(events \ {fd}) + 6 = LoopRank(events)
<1> USE DispatcherAssumption
<1>1. ASSUME NEW fd \in events, fd # EventFd, \A e, f \in events \ {EventFd, 0} : e = f
      PROVE LoopRank(events \ {fd}) + 6 = LoopRank(events)
  <2>1. EventFd \in events \ {fd} <=> EventFd \in events
    BY <1>1
  <2>2. CASE fd = 0
    <3>1. 0 \in events /\ 0 \notin events \ {fd}
      BY <1>1, <2>2
    <3>2. events \ {fd} \subseteq {EventFd, 0} <=> events \subseteq {EventFd, 0}
      BY <2>2
    <3>3. QED
      BY <2>1, <3>1, <3>2 DEF LoopRank
  <2>3. CASE fd # 0
    <3>1. 0 \in events \ {fd} <=> 0 \in events
      BY <2>3
    <3>2. events \ {fd} \subseteq {EventFd, 0} /\ ~(events \subseteq {EventFd, 0})
      BY <1>1, <2>3
    <3>3. QED
      BY <2>1, <3>1, <3>2 DEF LoopRank
  <2>4. QED
    BY <2>2, <2>3
<1>2. QED
  BY <1>1 DEF LoopRank

(* While stop() waits in join() a reaper without a stale notification gets nearer
   to the end of its loop with every step it takes: it goes round at most once more. *)
THEOREM StopAdvancesCorrect == Spec => StopAdvances
<1> USE DispatcherAssumption
<1>1. ASSUME TypeInv, ReaperInv, StopInv, OneSocketEvent, [Next]_vars,
             Joining, Joining', ghost.clean, reaper' # reaper
      PROVE ReaperRank(reaper') < ReaperRank(reaper)
  <2>a. ReaperOK /\ KernelOK
    BY <1>1 DEF TypeInv, TypeOK
  <2>b. /\ reap_thread.stop /\ (wakeups > 0 \/ reaper.pc = "exited")
        /\ ~(reaper.pc = "read" /\ reaper.cur = EventFd)
        /\ ~Closed
    BY <1>1 DEF StopInv, StopNotLost, Stopping, Joining, Closed
  <2>r. LoopRank(reaper.events) \in 1..26 /\ LoopRank(reaper'.events) \in 1..26
    BY LoopRanks
  <2>n. ASSUME reaper.pc \in {"read", "blocked", "orphan", "lock", "cs"},
               reaper'.events = reaper.events,
               \/ reaper'.pc \in {"loop", "crashed", "exited"}
               \/ reaper'.pc = "cs" /\ reaper.pc = "lock"
               \/ reaper'.pc = "lock" /\ reaper.pc \in {"read", "blocked", "orphan"}
               \/ reaper'.pc = "blocked" /\ reaper.pc = "read"
               \/ reaper'.pc = "orphan" /\ reaper.pc = "blocked"
        PROVE ReaperRank(reaper') < ReaperRank(reaper)
    BY <2>n, <2>r DEF ReaperRank
  <2>1. CASE EpollWait
    <3>1. /\ reaper.pc = "loop" /\ reaper.events = {}
          /\ reaper'.pc = "loop" /\ EventFd \in reaper'.events
      BY <2>1, <2>a, <2>b DEF EpollWait, Ready, ReaperOK
    <3>2. LoopRank(reaper'.events) <= 13 /\ LoopRank(reaper.events) = 14
      BY <3>1, LoopRanks
    <3>3. QED
      BY <2>r, <3>1, <3>2 DEF ReaperRank
  <2>2. CASE EpollInterrupted
    BY <2>2, <2>r DEF EpollInterrupted, Exit, ReaperAt, ReaperRank
  <2>3. ASSUME NEW fd \in reaper.events, CheckEvent(fd)
        PROVE ReaperRank(reaper') < ReaperRank(reaper)
    <3>1. CASE fd = EventFd
      BY <2>3, <2>b, <2>r, <3>1 DEF CheckEvent, Exit, ReaperAt, ReaperRank
    <3>2. CASE fd # EventFd
      <4>1. /\ reaper.pc = "loop" /\ reaper'.pc = "read"
            /\ reaper'.events = reaper.events \ {fd}
        BY <2>3, <3>2 DEF CheckEvent, Take, ReaperAt
      <4>2. LoopRank(reaper.events \ {fd}) + 6 = LoopRank(reaper.events)
        BY <1>1, <2>3, <3>2, LoopRanks DEF OneSocketEvent
      <4>3. QED
        BY <2>r, <4>1, <4>2 DEF ReaperRank
    <3>3. QED
      BY <3>1, <3>2
  <2>4. CASE ReadEventFd
    BY <2>4, <2>b DEF ReadEventFd
  <2>5. CASE ReadSocket
    BY <2>5, <2>a, <2>n DEF ReadSocket, ReadFrame, ReadFrom, Got, Loop, ReaperAt, ReaperOK
  <2>6. CASE ReadResumes
    BY <2>6, <2>n DEF ReadResumes, ReadFrame, ReadFrom, Got, ReaperAt
  <2>7. CASE ReadFails
    BY <2>7, <2>n DEF ReadFails, Loop, ReaperAt
  <2>8. CASE DispatchLock
    BY <2>8, <2>n, <2>a DEF DispatchLock, ReaperOK
  <2>9. CASE Dispatch
    BY <2>9, <2>n DEF Dispatch, Loop, ReaperAt
  <2>10. CASE Crash
    BY <2>10, <2>r DEF Crash, ReaperAt, ReaperRank
  <2>11. CASE StartClose \/ StartSpawn \/ DestroyReap
    BY <1>1, <2>11 DEF StartClose, StartSpawn, DestroyReap, Joining, At
  <2>12. CASE StopJoin
    <3>1. pc'[Owner] \in {"idle", "dtor_close"}
      BY <2>12, <1>1 DEF StopJoin, StopReturn, Goto, TypeInv, TypeOK, AppOK
    <3>2. QED
      BY <1>1, <3>1 DEF Joining
  <2>13. ASSUME NEW id \in BusIds, BusFrame(id)
         PROVE ReaperRank(reaper') < ReaperRank(reaper)
    BY <1>1, <2>13, <2>n DEF BusFrame, Got, ReaperAt
  <2>14. CASE CloseZero
    <3>1. reaper.pc = "blocked" /\ reaper'.events = reaper.events
          /\ reaper'.pc \in {"orphan", "lock"}
      BY <1>1, <2>14 DEF CloseZero, Cut, Blocked, Got, Orphan, ReaperAt
    <3>2. QED
      BY <2>n, <3>1
  <2>15. QED
    BY <1>1, <2>1, <2>2, <2>3, <2>4, <2>5, <2>6, <2>7, <2>8, <2>9, <2>10, <2>11, <2>12,
       <2>13, <2>14, OthersKeepReaper
    DEF ReaperSteps
<1>2. TypeInv /\ ReaperInv /\ StopInv /\ OneSocketEvent /\ [Next]_vars =>
        [Joining /\ Joining' /\ ghost.clean /\ reaper' # reaper
           => ReaperRank(reaper') < ReaperRank(reaper)]_vars
  BY <1>1
<1>3. QED
  BY <1>2, TypeInvariant, StopInvariant, EventsInvariant, PTL DEF Spec, StopAdvances
=============================================================================
