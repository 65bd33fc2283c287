----------------------- MODULE DispatcherServiceProofs -----------------------
(***************************************************************************)
(* The Dispatcher implements DispatcherService, for any number of threads, *)
(* any sets of ids and any traffic.  What the application sees changes at  *)
(* one step of each operation: a registration when it gets the lock, a     *)
(* look-up when the reaper gets it, a start when the thread is created and *)
(* a stop when it has been joined.                                         *)
(***************************************************************************)
EXTENDS DispatcherProofs

Numbered(q) == \A i \in 1..Len(q) : q[i].seq # 0

(* A call that has begun has the arguments it was given; the bus numbers its frames
   from 1; and the reaper has a frame without a number only after it has read the
   eventfd. *)
ServiceInv ==
  /\ \A t \in Threads : At(t, "spin") => call[t].ids \in IdSets /\ call[t].cb \in Callbacks
  /\ Numbered(sock.rx) /\ Numbered(twin.rx)
  /\ reaper.pc = "lock" /\ reaper.frame.seq = 0 => ghost.reads # 0

Facts ==
  TypeInv /\ LockInv /\ ReaperInv /\ StopInv /\ OrderInv /\ ServiceInv

(* Entries as a function of the state it is taken in. *)
Shown(p, c, f) ==
  [i \in Ids |-> IF \E t \in Threads : p[t] = "store" /\ i \in c[t].ids
                 THEN c[CHOOSE t \in Threads : p[t] = "store" /\ i \in c[t].ids].cb
                 ELSE f[i]]

LEMMA EntriesShown ==
  Entries = Shown(pc, call, funcs) /\ Entries' = Shown(pc', call', funcs')
BY DEF Entries, Shown, Storing, At

(* While one thread stores, the table is seen as it will be. *)
LEMMA ShownStoring ==
  ASSUME NEW p, NEW c, NEW f, NEW t \in Threads, p[t] = "store",
         \A u \in Threads : p[u] = "store" => u = t
  PROVE  Shown(p, c, f) = [i \in Ids |-> IF i \in c[t].ids THEN c[t].cb ELSE f[i]]
<1>1. ASSUME NEW i \in Ids, i \in c[t].ids
      PROVE (CHOOSE u \in Threads : p[u] = "store" /\ i \in c[u].ids) = t
  BY <1>1
<1>2. ASSUME NEW i \in Ids
      PROVE (\E u \in Threads : p[u] = "store" /\ i \in c[u].ids) <=> i \in c[t].ids
  OBVIOUS
<1>3. QED
  BY <1>1, <1>2 DEF Shown

LEMMA ShownIdle ==
  ASSUME NEW p, NEW c, NEW f, \A t \in Threads : p[t] # "store"
  PROVE  Shown(p, c, f) = [i \in Ids |-> f[i]]
BY DEF Shown

(* What is seen does not depend on the threads that do not store. *)
LEMMA ShownSame ==
  ASSUME NEW p, NEW q, NEW c, NEW d, NEW f,
         \A t, u \in Threads : p[t] = "store" /\ p[u] = "store" => t = u,
         \A t \in Threads : (q[t] = "store") <=> (p[t] = "store"),
         \A t \in Threads : p[t] = "store" => d[t] = c[t]
  PROVE  Shown(q, d, f) = Shown(p, c, f)
<1>1. CASE \A t \in Threads : p[t] # "store"
  BY <1>1, ShownIdle
<1>2. ASSUME NEW t \in Threads, p[t] = "store" PROVE Shown(q, d, f) = Shown(p, c, f)
  <2>1. Shown(p, c, f) = [i \in Ids |-> IF i \in c[t].ids THEN c[t].cb ELSE f[i]]
    BY <1>2, ShownStoring
  <2>2. Shown(q, d, f) = [i \in Ids |-> IF i \in d[t].ids THEN d[t].cb ELSE f[i]]
    BY <1>2, ShownStoring
  <2>3. QED
    BY <1>2, <2>1, <2>2
<1>3. QED
  BY <1>1, <1>2

LEMMA QueueNumbered ==
  ASSUME NEW q \in Seq(Frames), Numbered(q)
  PROVE /\ Numbered(<<>>)
        /\ q # <<>> => Numbered(Tail(q)) /\ Head(q).seq # 0
        /\ \A f \in Frames : f.seq # 0 => Numbered(Append(q, f))
BY DEF Numbered

-----------------------------------------------------------------------------
LEMMA ServiceInvariant == Spec => []ServiceInv
<1> USE DispatcherAssumption
<1>1. Init => ServiceInv
  BY DEF Init, ServiceInv, NoSock, NewSock, At, Numbered
<1>2. TypeInv /\ ServiceInv /\ [Next]_vars => ServiceInv'
  <2> SUFFICES ASSUME TypeInv, ServiceInv, [Next]_vars PROVE ServiceInv'
    OBVIOUS
  <2>a. AppOK /\ ReaperOK /\ ThreadOK /\ KernelOK
    BY DEF TypeInv, TypeOK
  <2>b. /\ sock \in Sockets /\ twin \in Sockets /\ sent \in Nat
        /\ sock.rx \in Seq(Frames) /\ twin.rx \in Seq(Frames)
    BY FrameTypes
  <2>t. /\ Numbered(<<>>)
        /\ sock.rx # <<>> => Numbered(Tail(sock.rx)) /\ Head(sock.rx).seq # 0
        /\ twin.rx # <<>> => Numbered(Tail(twin.rx)) /\ Head(twin.rx).seq # 0
    BY <2>b, QueueNumbered DEF ServiceInv
  <2>s. NoSock.rx = <<>>
    BY NoQueue
  <2> DEFINE Calls  == \A t \in Threads :
                         At(t, "spin") => call[t].ids \in IdSets /\ call[t].cb \in Callbacks
  <2> DEFINE Queue  == Numbered(sock.rx) /\ Numbered(twin.rx)
  <2> DEFINE InHand == reaper.pc = "lock" /\ reaper.frame.seq = 0 => ghost.reads # 0
  <2>c. ASSUME \A t \in Threads : pc'[t] = "spin" => pc[t] = "spin" /\ call'[t] = call[t]
        PROVE Calls'
    BY <2>c DEF ServiceInv, At
  <2>q. ASSUME sock'.rx \in {sock.rx, twin.rx, <<>>}, twin'.rx \in {sock.rx, twin.rx, <<>>}
        PROVE Queue'
    BY <2>q, <2>t DEF ServiceInv
  <2>h. ASSUME ghost'.reads = ghost.reads,
               reaper'.pc = "lock" => reaper' = reaper \/ reaper'.frame.seq # 0
        PROVE InHand'
    BY <2>h DEF ServiceInv
  <2>i. Calls' /\ Queue' /\ InHand' => ServiceInv'
    BY DEF ServiceInv
  <2>k. ASSUME NEW s \in {sock, twin}, Cut(s)
        PROVE reaper'.pc = "lock" => reaper' = reaper \/ reaper'.frame.seq # 0
    BY <2>k, <2>t, CutReaper
  <2>r. ASSUME ReadFrame, UNCHANGED ghost PROVE Queue' /\ InHand'
    <3>1. CASE ReadFrom(sock) /\ sock' = [sock EXCEPT !.rx = Tail(@)] /\ UNCHANGED twin
      <4>1. sock.rx # <<>> /\ sock'.rx = Tail(sock.rx) /\ reaper'.frame = Head(sock.rx)
        BY <2>b, <3>1 DEF ReadFrom, Got, ReaperAt, Sockets
      <4>2. QED
        BY <2>r, <2>t, <2>h, <3>1, <4>1 DEF ServiceInv
    <3>2. CASE ReadFrom(twin) /\ twin' = [twin EXCEPT !.rx = Tail(@)] /\ UNCHANGED sock
      <4>1. twin.rx # <<>> /\ twin'.rx = Tail(twin.rx) /\ reaper'.frame = Head(twin.rx)
        BY <2>b, <3>2 DEF ReadFrom, Got, ReaperAt, Sockets
      <4>2. QED
        BY <2>r, <2>t, <2>h, <3>2, <4>1 DEF ServiceInv
    <3>3. QED
      BY <2>r, <3>1, <3>2 DEF ReadFrame
  <2> HIDE DEF Calls, Queue, InHand
  <2>1. ASSUME NEW t \in Threads, NEW ids \in IdSets, NEW cb \in Callbacks,
               CallRegister(t, ids, cb)
        PROVE ServiceInv'
    <3>1. Calls'
      BY <2>1, <2>a DEF CallRegister, Calls, ServiceInv, At, Goto, AppOK
    <3>2. QED
      BY <2>1, <3>1, <2>q, <2>h, <2>i DEF CallRegister, thread, kernel
  <2>2. ASSUME NEW t \in Threads, Register(t) PROVE ServiceInv'
    <3>1. Calls'
      BY <2>2, <2>a, <2>c
      DEF Register, RegisterLock, RegisterStore, RegisterUnlock, Leave, At, Goto, Return,
          AppOK
    <3>2. QED
      BY <2>2, <3>1, <2>q, <2>h, <2>i
      DEF Register, RegisterLock, RegisterStore, RegisterUnlock, thread, kernel
  <2>3. CASE StartClose
    <3>1. sock' = NoSock /\ twin' \in {sock, twin}
      BY <2>3 DEF StartClose
    <3>2. reaper'.pc = "lock" => reaper' = reaper \/ reaper'.frame.seq # 0
      BY <2>3, <2>k DEF StartClose
    <3>3. Calls' /\ ghost'.reads = ghost.reads
      BY <2>3, <2>a, <2>c DEF StartClose, Goto, AppOK, ThreadOK
    <3>4. QED
      BY <3>1, <3>2, <3>3, <2>s, <2>q, <2>h, <2>i
  <2>3a. CASE CloseZero
    <3>1. sock'.rx \in {sock.rx, <<>>} /\ twin'.rx \in {twin.rx, <<>>}
      BY <2>3a, <2>s DEF CloseZero
    <3>2. reaper'.pc = "lock" => reaper' = reaper \/ reaper'.frame.seq # 0
      BY <2>3a, <2>k DEF CloseZero
    <3>3. Calls' /\ UNCHANGED ghost
      BY <2>3a, <2>c DEF CloseZero, app
    <3>4. QED
      BY <3>1, <3>2, <3>3, <2>q, <2>h, <2>i
  <2>4. CASE StartOpen \/ StartNonblock \/ StartAdd
    <3>1. sock'.rx = <<>> \/ sock'.rx = sock.rx
      BY <2>4, <2>a DEF StartOpen, StartNonblock, StartAdd, NoSock, NewSock, KernelOK, Sockets
    <3>2. Calls'
      BY <2>4, <2>a, <2>c DEF StartOpen, StartNonblock, StartAdd, Goto, Return, AppOK
    <3>3. QED
      BY <2>4, <3>1, <3>2, <2>q, <2>h, <2>i DEF StartOpen, StartNonblock, StartAdd, thread
  <2>5. CASE StartFlush
    <3>1. Calls' /\ InHand'
      BY <2>5, <2>a, <2>c, <2>h DEF StartFlush, Goto, Return, AppOK, thread
    <3>2. (sock.rx # <<>> /\ sock'.rx = Tail(sock.rx)) \/ sock' = sock
      BY <2>5, <2>a DEF StartFlush, KernelOK, Sockets
    <3>3. Queue'
      BY <2>5, <2>t, <3>2 DEF StartFlush, Queue, ServiceInv
    <3>4. QED
      BY <3>1, <3>3, <2>i
  <2>6. CASE StartSpawn
    <3>1. Calls' /\ Queue'
      BY <2>6, <2>a, <2>c, <2>q DEF StartSpawn, Goto, Return, AppOK, kernel
    <3>2. \/ UNCHANGED <<reaper, ghost>>
          \/ reaper' = [reaper EXCEPT !.pc = "loop"]
      BY <2>6, Zenon DEF StartSpawn, thread
    <3>3. InHand'
      BY <2>a, <3>2, <2>h DEF InHand, ReaperOK
    <3>4. QED
      BY <3>1, <3>3, <2>i
  <2>7. CASE StopRequest \/ StopWrite \/ DestroyClose
    <3>1. Calls'
      BY <2>7, <2>a, <2>c
      DEF StopRequest, StopWrite, DestroyClose, AwaitReaper, StopReturn, Goto, AppOK
    <3>2. QED
      BY <2>7, <3>1, <2>q, <2>h, <2>i DEF StopRequest, StopWrite, DestroyClose, thread, kernel
  <2>8. CASE StopJoin \/ DestroyReap
    <3>1. Calls'
      BY <2>8, <2>a, <2>c DEF StopJoin, DestroyReap, StopReturn, Goto, AppOK
    <3>2. reaper'.pc = "none" /\ UNCHANGED ghost
      BY <2>8, <2>a DEF StopJoin, DestroyReap, ReaperOK
    <3>3. (sock'.rx = <<>> \/ sock' = sock) /\ UNCHANGED twin
      BY <2>8 DEF StopJoin, DestroyReap, NoSock, NewSock, kernel
    <3>4. QED
      BY <3>1, <3>2, <3>3, <2>q, <2>h, <2>i
  <2>9. CASE Destroy
    BY <2>9, <2>a, <2>c, <2>q, <2>h, <2>i DEF Destroy, AppOK, kernel
  <2>10. CASE EpollWait \/ EpollInterrupted \/ ReadFails \/ Dispatch \/ DispatchLock
    <3>1. reaper'.pc # "lock" /\ ghost'.reads = ghost.reads
      BY <2>10, <2>a
      DEF EpollWait, EpollInterrupted, ReadFails, Dispatch, DispatchLock, LookedUp, Exit,
          Loop, ReaperAt, ReaperOK, ThreadOK
    <3>2. UNCHANGED <<pc, call, sock, twin>>
      BY <2>10
      DEF EpollWait, EpollInterrupted, ReadFails, Dispatch, DispatchLock, app, kernel
    <3>3. QED
      BY <3>1, <3>2, <2>c, <2>q, <2>h, <2>i
  <2>11. ASSUME NEW fd \in reaper.events, CheckEvent(fd) PROVE ServiceInv'
    BY <2>11, <2>c, <2>q, <2>h, <2>i DEF CheckEvent, Exit, Take, ReaperAt, app, kernel
  <2>12. CASE ReadEventFd
    <3>1. \/ reaper'.pc = "lock" /\ ghost'.reads = ghost.reads + 1
          \/ reaper'.pc = "loop"
      <4>1. CASE Closed
        BY <2>12, <4>1 DEF ReadEventFd, Loop, ReaperAt
      <4>2. CASE ~Closed
        <5> DEFINE clean == ghost.clean \/ ~reap_thread.stop
        <5>1. /\ clean \in BOOLEAN /\ ghost' = Noted(ghost.left, ghost.reads + 1, clean)
              /\ reaper'.pc = "lock"
          BY <2>12, <4>2 DEF ReadEventFd, Got, ReaperAt
        <5> HIDE DEF clean
        <5>2. QED
          BY <2>a, <5>1, GhostRecord DEF ThreadOK
      <4>3. QED
        BY <4>1, <4>2
    <3>2. InHand'
      BY <2>a, <3>1 DEF InHand, ThreadOK
    <3>3. QED
      BY <2>12, <3>2, <2>c, <2>q, <2>i DEF ReadEventFd, app
  <2>13. CASE ReadSocket \/ ReadResumes
    <3>1. UNCHANGED <<pc, call, ghost>>
      BY <2>13 DEF ReadSocket, ReadResumes, app
    <3>2. CASE ReadFrame
      BY <3>1, <3>2, <2>r, <2>c, <2>i
    <3>3. CASE ~ReadFrame
      BY <2>13, <2>a, <3>1, <3>3, <2>c, <2>q, <2>h, <2>i
      DEF ReadSocket, ReadResumes, Loop, ReaperAt, ReaperOK
    <3>4. QED
      BY <3>2, <3>3
  <2>14. CASE Crash
    <3>1. sock'.rx = <<>> /\ twin'.rx = <<>>
      BY <2>14, <2>s DEF Crash
    <3>2. QED
      BY <2>14, <3>1, <2>c, <2>q, <2>h, <2>i DEF Crash, ReaperAt
  <2>15. ASSUME NEW id \in BusIds, BusFrame(id) PROVE ServiceInv'
    <3> DEFINE f == [id |-> id, seq |-> sent + 1]
    <3>1. f \in Frames /\ f.seq # 0
      BY <2>b DEF Frames
    <3>2. /\ sock' \in {sock, With(sock, f)} /\ twin' \in {twin, With(twin, f)}
          /\ reaper' = reaper \/ reaper' = Got(f)
      BY <2>15, Zenon DEF BusFrame
    <3> HIDE DEF f
    <3>3. InHand'
      BY <2>15, <2>h, <3>1, <3>2 DEF BusFrame, Got, ReaperAt
    <3>4. Queue'
      <4>1. /\ sock'.rx = sock.rx \/ sock'.rx = Append(sock.rx, f)
            /\ twin'.rx = twin.rx \/ twin'.rx = Append(twin.rx, f)
        BY <2>b, <3>2, WithQueue
      <4>2. QED
        BY <2>b, <3>1, <4>1, QueueNumbered DEF Queue, ServiceInv
    <3>5. QED
      BY <2>15, <2>c, <3>3, <3>4, <2>i DEF BusFrame, app
  <2>16. CASE UNCHANGED vars
    BY <2>16, <2>c, <2>q, <2>h, <2>i DEF vars, app, thread, kernel
  <2>17. QED
    BY <2>1, <2>2, <2>3, <2>3a, <2>4, <2>5, <2>6, <2>7, <2>8, <2>9, <2>10, <2>11, <2>12,
       <2>13, <2>14, <2>15, <2>16
    DEF Next, StartStep, StopStep, DestroyStep, Reaper
<1>3. QED
  BY <1>1, <1>2, TypeInvariant, PTL DEF Spec
-----------------------------------------------------------------------------
(***************************************************************************)
(* Every step of the Dispatcher, as the application sees it.               *)
(***************************************************************************)
(* The steps after which it sees what it saw before. *)
LEMMA EntriesUnseen ==
  ASSUME LockInv, UNCHANGED funcs,
         \A t \in Threads : /\ (pc'[t] = "store") <=> At(t, "store")
                            /\ At(t, "store") => call'[t] = call[t]
  PROVE  Entries' = Entries
<1>1. Shown(pc', call', funcs) = Shown(pc, call, funcs)
  BY ShownSame DEF LockInv, MutualExclusion, At
<1>2. QED
  BY <1>1, EntriesShown

LEMMA JammedUnseen ==
  ASSUME UNCHANGED lock_, (reaper'.pc = "cs") <=> (reaper.pc = "cs"),
         \A t \in Threads : /\ (pc'[t] = "store") <=> At(t, "store")
                            /\ At(t, "store") => call'[t] = call[t]
  PROVE  Jammed' = Jammed
<1>1. Jammed' <=> Jammed
  BY DEF Jammed, At
<1>2. QED
  BY <1>1, Zenon DEF Jammed

LEMMA LookupUnseen ==
  ASSUME UNCHANGED funcs,
         \/ reaper'.pc = reaper.pc /\ reaper'.frame = reaper.frame
         \/ reaper'.pc # "cs" /\ reaper.pc # "cs"
  PROVE  Lookup' = Lookup
BY DEF Lookup

LEMMA PhantomUnseen ==
  ASSUME reap_thread'.joinable = reap_thread.joinable,
         ghost'.left = ghost.left, ghost'.reads = ghost.reads,
         \/ reaper'.pc = reaper.pc /\ reaper'.frame = reaper.frame
         \/ /\ reaper'.pc = "lock" => reaper'.frame.seq # 0
            /\ reaper.pc = "lock" => reaper.frame.seq # 0
  PROVE  Phantom' = Phantom
<1>1. Phantom' <=> Phantom
  BY DEF Phantom
<1>2. QED
  BY <1>1, Zenon DEF Phantom

Seen ==
  <<Entries, Jammed, reap_thread.joinable, Phantom, Lookup, ghost.last, ghost.doubled, sent>>

(* What the application sees of the history of a Dispatcher does not change. *)
SameHistory ==
  /\ ghost'.left = ghost.left /\ ghost'.reads = ghost.reads
  /\ ghost'.last = ghost.last /\ ghost'.doubled = ghost.doubled

LEMMA Unseen ==
  ASSUME LockInv, UNCHANGED <<table, sent>>,
         reap_thread'.joinable = reap_thread.joinable, SameHistory,
         \A t \in Threads : /\ (pc'[t] = "store") <=> At(t, "store")
                            /\ At(t, "store") => call'[t] = call[t],
         \/ reaper'.pc = reaper.pc /\ reaper'.frame = reaper.frame
         \/ reaper'.pc \notin {"lock", "cs"} /\ reaper.pc \notin {"lock", "cs"}
         \/ /\ reaper'.pc = "lock" /\ reaper'.frame.seq # 0
            /\ reaper.pc \notin {"lock", "cs"}
  PROVE  Seen' = Seen
<1>1. UNCHANGED <<lock_, funcs, sent>>
  BY DEF table
<1>2. Entries' = Entries
  BY <1>1, EntriesUnseen
<1>3. Jammed' = Jammed
  BY <1>1, JammedUnseen
<1>4. Lookup' = Lookup
  BY <1>1, LookupUnseen
<1>5. Phantom' = Phantom
  BY PhantomUnseen DEF SameHistory
<1>6. QED
  BY <1>1, <1>2, <1>3, <1>4, <1>5, Zenon DEF Seen, SameHistory

LEMMA StartUnseen ==
  ASSUME Facts, \/ StartClose /\ (sock.fd # 0 \/ ghost.doubled)
                \/ StartOpen \/ StartNonblock \/ StartAdd \/ StartFlush
                \/ StartSpawn /\ reap_thread.joinable
  PROVE  Seen' = Seen
<1>a. AppOK /\ ReaperOK /\ LockInv
  BY DEF Facts, TypeInv, TypeOK
<1>s. UNCHANGED ghost => SameHistory
  BY DEF SameHistory
<1>b. ASSUME NEW to \in AppPcs \ {"store"}, Goto(Owner, to), ~At(Owner, "store"),
             UNCHANGED <<call, table, sent, reap_thread>>, SameHistory,
             \/ reaper' = reaper
             \/ reaper.pc = "blocked" /\ reaper'.pc = "orphan"
             \/ reaper.pc = "blocked" /\ reaper'.pc = "lock" /\ reaper'.frame.seq # 0
      PROVE Seen' = Seen
  <2>1. \A t \in Threads : /\ (pc'[t] = "store") <=> At(t, "store")
                           /\ At(t, "store") => call'[t] = call[t]
    BY <1>a, <1>b DEF AppOK, Goto, At
  <2>2. QED
    BY <1>a, <1>b, <2>1, Unseen
<1>c. UNCHANGED <<pc, call, table, sent, reap_thread, reaper, ghost>> => Seen' = Seen
  BY <1>a, <1>s, Unseen DEF At
<1>1. CASE StartClose /\ (sock.fd # 0 \/ ghost.doubled)
  <2>1. Goto(Owner, "open") /\ At(Owner, "idle") /\ UNCHANGED <<call, table, sent, reap_thread>>
    BY <1>1 DEF StartClose
  <2>2. CASE sock.fd # 0
    <3>1. Cut(sock) /\ UNCHANGED ghost
      BY <1>1, <2>2 DEF StartClose
    <3>2. sock.rx # <<>> => Head(sock.rx).seq # 0
      BY FrameTypes, QueueNumbered DEF Facts, ServiceInv
    <3>3. \/ reaper' = reaper
          \/ reaper.pc = "blocked" /\ reaper'.pc = "orphan"
          \/ reaper.pc = "blocked" /\ reaper'.pc = "lock" /\ reaper'.frame.seq # 0
      BY <3>1, <3>2 DEF Cut, Blocked, Got, Orphan, ReaperAt
    <3>4. QED
      BY <1>b, <1>s, <2>1, <3>1, <3>3 DEF AppPcs, At
  <2>3. CASE sock.fd = 0
    <3>1. UNCHANGED reaper /\ ghost' = [ghost EXCEPT !.doubled = TRUE] /\ ghost.doubled
      BY <1>1, <2>3 DEF StartClose
    <3>2. SameHistory
      BY <3>1 DEF SameHistory, Facts, TypeInv, TypeOK, ThreadOK
    <3>3. QED
      BY <1>b, <2>1, <3>1, <3>2 DEF AppPcs, At
  <2>4. QED
    BY <2>2, <2>3
<1>2. CASE StartOpen
  BY <1>2, <1>b, <1>s DEF StartOpen, thread, AppPcs, At, Return
<1>3. CASE StartNonblock
  BY <1>3, <1>b, <1>s DEF StartNonblock, thread, AppPcs, At
<1>4. CASE StartAdd
  BY <1>4, <1>b, <1>s DEF StartAdd, thread, AppPcs, At, Return
<1>5. CASE StartFlush
  BY <1>5, <1>b, <1>c, <1>s DEF StartFlush, thread, AppPcs, At, Return
<1>6. CASE StartSpawn /\ reap_thread.joinable
  BY <1>6, <1>b, <1>s DEF StartSpawn, thread, kernel, AppPcs, At, Return
<1>7. QED
  BY <1>1, <1>2, <1>3, <1>4, <1>5, <1>6

(* close() of number 0 by another object. *)
LEMMA CloseZeroUnseen == ASSUME Facts, CloseZero PROVE Seen' = Seen
<1>a. LockInv
  BY DEF Facts
<1>b. UNCHANGED <<table, pc, call, reap_thread, ghost, sent>>
  BY DEF CloseZero, app
<1>c. \A t \in Threads : /\ (pc'[t] = "store") <=> At(t, "store")
                         /\ At(t, "store") => call'[t] = call[t]
  BY <1>b DEF At
<1>d. /\ sock.rx # <<>> => Head(sock.rx).seq # 0
      /\ twin.rx # <<>> => Head(twin.rx).seq # 0
  BY FrameTypes, QueueNumbered DEF Facts, ServiceInv
<1>e. \/ reaper' = reaper
      \/ reaper.pc = "blocked" /\ reaper'.pc = "orphan"
      \/ reaper.pc = "blocked" /\ reaper'.pc = "lock" /\ reaper'.frame.seq # 0
  <2>1. ASSUME NEW s, Cut(s), s.rx # <<>> => Head(s.rx).seq # 0
        PROVE \/ reaper' = reaper
              \/ reaper.pc = "blocked" /\ reaper'.pc = "orphan"
              \/ reaper.pc = "blocked" /\ reaper'.pc = "lock" /\ reaper'.frame.seq # 0
    BY <2>1 DEF Cut, Blocked, Got, Orphan, ReaperAt
  <2>2. QED
    BY <1>d, <2>1 DEF CloseZero
<1>f. QED
  BY <1>a, <1>b, <1>c, <1>e, Unseen DEF SameHistory

LEMMA StopUnseen ==
  ASSUME Facts, \/ StopRequest \/ StopWrite \/ Destroy \/ DestroyClose
                \/ DestroyReap /\ ~reap_thread.joinable
  PROVE  Seen' = Seen
<1>a. AppOK /\ ReaperOK /\ ThreadOK /\ LockInv /\ QuietAfterStop
  BY DEF Facts, TypeInv, TypeOK, ReaperInv
<1>b. ASSUME NEW to \in AppPcs \ {"store"}, Goto(Owner, to), ~At(Owner, "store"),
             UNCHANGED <<call, table, sent, ghost>>,
             reap_thread'.joinable = reap_thread.joinable,
             reaper'.pc = reaper.pc, reaper'.frame = reaper.frame
      PROVE Seen' = Seen
  <2>1. \A t \in Threads : /\ (pc'[t] = "store") <=> At(t, "store")
                           /\ At(t, "store") => call'[t] = call[t]
    BY <1>a, <1>b DEF AppOK, Goto, At
  <2>2. QED
    BY <1>a, <1>b, <2>1, Unseen DEF SameHistory
<1>1. CASE StopRequest
  BY <1>1, <1>a, <1>b DEF StopRequest, ThreadOK, kernel, AppPcs, At
<1>2. CASE StopWrite
  <2>1. PICK to \in {"idle", "join", "dtor_join", "dtor_close"} : Goto(Owner, to)
    BY <1>2 DEF StopWrite, StopReturn, AwaitReaper
  <2>2. QED
    BY <1>2, <1>b, <2>1 DEF StopWrite, thread, AppPcs, At
<1>3. CASE Destroy
  <2>1. \A t \in Threads : /\ (pc'[t] = "store") <=> At(t, "store")
                           /\ At(t, "store") => call'[t] = call[t]
    BY <1>3 DEF Destroy, At
  <2>2. reap_thread'.joinable = reap_thread.joinable
    BY <1>3, <1>a DEF Destroy, ThreadOK
  <2>3. UNCHANGED <<table, sent, reaper, ghost>>
    BY <1>3 DEF Destroy, kernel
  <2>4. QED
    BY <1>a, <2>1, <2>2, <2>3, Unseen DEF SameHistory
<1>4. CASE DestroyClose
  BY <1>4, <1>b DEF DestroyClose, thread, kernel, AppPcs, At
<1>5. CASE DestroyReap /\ ~reap_thread.joinable
  <2>1. reaper'.pc = reaper.pc /\ reaper'.frame = reaper.frame
    BY <1>5, <1>a DEF DestroyReap, ReaperOK, QuietAfterStop
  <2>2. reap_thread'.joinable = reap_thread.joinable
    BY <1>5, <1>a DEF DestroyReap, ThreadOK
  <2>3. QED
    BY <1>5, <1>b, <2>1, <2>2 DEF DestroyReap, AppPcs, At
<1>6. QED
  BY <1>1, <1>2, <1>3, <1>4, <1>5

LEMMA ReaperUnseen ==
  ASSUME Facts, \/ EpollWait \/ EpollInterrupted \/ ReadSocket \/ ReadResumes \/ ReadFails
                \/ \E fd \in reaper.events : CheckEvent(fd)
  PROVE  Seen' = Seen
<1>a. ReaperOK /\ LockInv
  BY DEF Facts, TypeInv, TypeOK
<1>b. UNCHANGED <<table, pc, call, reap_thread, ghost, sent>>
  BY DEF EpollWait, EpollInterrupted, ReadSocket, ReadResumes, ReadFails, CheckEvent, app,
         kernel
<1>c. ASSUME \/ reaper'.pc = reaper.pc /\ reaper'.frame = reaper.frame
             \/ reaper'.pc \notin {"lock", "cs"} /\ reaper.pc \notin {"lock", "cs"}
             \/ /\ reaper'.pc = "lock" /\ reaper'.frame.seq # 0
                /\ reaper.pc \notin {"lock", "cs"}
      PROVE Seen' = Seen
  <2>1. \A t \in Threads : /\ (pc'[t] = "store") <=> At(t, "store")
                           /\ At(t, "store") => call'[t] = call[t]
    BY <1>b DEF At
  <2>2. QED
    BY <1>a, <1>b, <1>c, <2>1, Unseen DEF SameHistory
<1>r. ASSUME ReadFrame PROVE reaper'.pc = "lock" /\ reaper'.frame.seq # 0
  <2>1. /\ sock.rx # <<>> => Head(sock.rx).seq # 0
        /\ twin.rx # <<>> => Head(twin.rx).seq # 0
    BY FrameTypes, QueueNumbered DEF Facts, ServiceInv
  <2>2. QED
    BY <1>r, <2>1 DEF ReadFrame, ReadFrom, Got, ReaperAt
<1>1. CASE EpollWait
  BY <1>1, <1>a, <1>c DEF EpollWait, ReaperOK
<1>2. CASE EpollInterrupted
  BY <1>2, <1>c DEF EpollInterrupted, Exit, ReaperAt
<1>3. CASE ReadSocket
  BY <1>3, <1>a, <1>c, <1>r DEF ReadSocket, Loop, ReaperAt, ReaperOK
<1>4. CASE ReadResumes
  BY <1>4, <1>c, <1>r DEF ReadResumes
<1>5. CASE ReadFails
  BY <1>5, <1>c DEF ReadFails, Loop, ReaperAt
<1>6. ASSUME NEW fd \in reaper.events, CheckEvent(fd) PROVE Seen' = Seen
  BY <1>6, <1>c DEF CheckEvent, Exit, Take, ReaperAt
<1>7. QED
  BY <1>1, <1>2, <1>3, <1>4, <1>5, <1>6

(* Reading the eventfd makes a frame of the notification that was left over. *)
LEMMA EventFdUnseen == ASSUME Facts, ReadEventFd PROVE Seen' = Seen
<1>a. ReaperInv /\ StopInv /\ LockInv /\ ReaperOK
  BY DEF Facts, TypeInv, TypeOK
<1>b. UNCHANGED <<lock_, funcs, pc, call, reap_thread, sent>>
  BY DEF ReadEventFd, table, app
<1>1. /\ reaper.pc = "read" /\ reap_thread.joinable
      /\ ghost.left /\ ghost.reads = 0
  BY <1>a DEF ReadEventFd, ReaperInv, QuietAfterStop, StopInv
<1>2. Phantom' = Phantom
  <2>1. \/ reaper'.pc = "lock" /\ reaper'.frame.seq = 0
        \/ ghost' = ghost
    BY DEF ReadEventFd, Got, ReaperAt
  <2>2. Phantom' <=> Phantom
    BY <1>b, <1>1, <2>1 DEF Phantom
  <2>3. QED
    BY <2>2, Zenon DEF Phantom
<1>3. /\ ghost'.last = ghost.last /\ ghost'.doubled = ghost.doubled
      /\ reaper'.pc # "cs" /\ reaper.pc # "cs"
  <2>1. ThreadOK /\ reaper'.pc # "cs" /\ reaper.pc # "cs"
    BY DEF ReadEventFd, Got, Loop, ReaperAt, Facts, TypeInv, TypeOK
  <2> DEFINE clean == ghost.clean \/ ~reap_thread.stop
  <2>2. ghost' = ghost \/ ghost' = Noted(ghost.left, ghost.reads + 1, clean)
    BY Zenon DEF ReadEventFd
  <2> HIDE DEF clean
  <2>3. QED
    BY <2>1, <2>2 DEF Noted, ThreadOK
<1>4. \A t \in Threads : /\ (pc'[t] = "store") <=> At(t, "store")
                         /\ At(t, "store") => call'[t] = call[t]
  BY <1>b DEF At
<1>5. Entries' = Entries /\ Jammed' = Jammed /\ Lookup' = Lookup
  BY <1>a, <1>b, <1>3, <1>4, EntriesUnseen, JammedUnseen, LookupUnseen
<1>6. QED
  BY <1>b, <1>2, <1>3, <1>5, Zenon DEF Seen

(* Storing the ids one by one. *)
LEMMA StoreUnseen ==
  ASSUME Facts, NEW t \in Threads, RegisterStore(t) \/ RegisterUnlock(t)
  PROVE  Seen' = Seen
<1>a. LockInv /\ TableOK /\ AppOK /\ MutualExclusion
  BY DEF Facts, TypeInv, TypeOK, LockInv
<1>b. UNCHANGED <<reap_thread, reaper, ghost, sent>> /\ pc[t] = "store"
  BY DEF RegisterStore, RegisterUnlock, thread, kernel, At
<1>c. /\ \A u \in Threads : pc[u] = "store" => u = t
      /\ reaper.pc # "cs" /\ lock_
  BY <1>a, <1>b DEF MutualExclusion, At, LockInv
<1>d. call[t] \in [ids : SUBSET Nat, cb : Callbacks \cup {NoFunc}]
  BY <1>a DEF AppOK
<1>e. Entries = [i \in Ids |-> IF i \in call[t].ids THEN call[t].cb ELSE funcs[i]]
  <2>1. Shown(pc, call, funcs) =
          [i \in Ids |-> IF i \in call[t].ids THEN call[t].cb ELSE funcs[i]]
    BY <1>b, <1>c, ShownStoring
  <2>2. QED
    BY <2>1, EntriesShown
<1>f. Jammed <=> \E i \in call[t].ids : i >= MaxId
  BY <1>b, <1>c DEF Jammed, At
<1>g. Lookup' = Lookup /\ Phantom' = Phantom
  BY <1>b, <1>c, PhantomUnseen DEF Lookup
<1>h. Entries' = Entries /\ (Jammed' <=> Jammed) => Seen' = Seen
  <2>1. Jammed \in BOOLEAN /\ Jammed' \in BOOLEAN
    BY Zenon DEF Jammed
  <2>2. (Jammed' <=> Jammed) => Jammed' = Jammed
    BY <2>1
  <2>3. QED
    BY <1>b, <1>g, <2>2, Zenon DEF Seen
<1>1. CASE RegisterStore(t)
  <2>1. PICK id \in call[t].ids :
          /\ \A other \in call[t].ids : id <= other
          /\ \/ id >= MaxId /\ Leave(t) /\ UNCHANGED funcs
             \/ /\ id < MaxId
                /\ funcs' = [funcs EXCEPT ![id] = call[t].cb]
                /\ call' = [call EXCEPT ![t].ids = @ \ {id}]
                /\ UNCHANGED pc
    BY <1>1 DEF RegisterStore
  <2>2. UNCHANGED lock_ /\ id \in Nat
    BY <1>1, <1>d DEF RegisterStore
  <2>3. CASE id >= MaxId /\ Leave(t) /\ UNCHANGED funcs
    <3>1. \A u \in Threads : pc'[u] # "store"
      BY <1>a, <1>c, <2>3 DEF Leave, Return, Goto, AppOK
    <3>2. Entries' = [i \in Ids |-> funcs[i]]
      BY <2>3, <3>1, ShownIdle, EntriesShown
    <3>3. \A i \in Ids : i \notin call[t].ids
      BY <1>d, <2>1, <2>2, <2>3, DispatcherAssumption DEF Ids
    <3>4. Entries' = Entries
      BY <1>e, <3>2, <3>3
    <3>5. Jammed /\ Jammed'
      BY <1>b, <1>c, <1>f, <2>2, <2>3, <3>1 DEF Jammed, At
    <3>6. QED
      BY <1>h, <3>4, <3>5
  <2>4. CASE /\ id < MaxId
             /\ funcs' = [funcs EXCEPT ![id] = call[t].cb]
             /\ call' = [call EXCEPT ![t].ids = @ \ {id}]
             /\ UNCHANGED pc
    <3>1. call'[t].ids = call[t].ids \ {id} /\ call'[t].cb = call[t].cb
      BY <1>a, <1>d, <2>4 DEF AppOK
    <3>2. Entries' = [i \in Ids |-> IF i \in call'[t].ids THEN call'[t].cb ELSE funcs'[i]]
      <4>1. pc'[t] = "store" /\ \A u \in Threads : pc'[u] = "store" => u = t
        BY <1>b, <1>c, <2>4
      <4>2. Shown(pc', call', funcs') =
              [i \in Ids |-> IF i \in call'[t].ids THEN call'[t].cb ELSE funcs'[i]]
        BY <4>1, ShownStoring
      <4>3. QED
        BY <4>2, EntriesShown
    <3>3. \A i \in Ids : funcs'[i] = IF i = id THEN call[t].cb ELSE funcs[i]
      BY <1>a, <2>4 DEF TableOK
    <3>4. Entries' = Entries
      BY <1>e, <2>1, <3>1, <3>2, <3>3
    <3>5. Jammed' <=> \E i \in call'[t].ids : i >= MaxId
      BY <1>b, <1>c, <2>2, <2>4 DEF Jammed, At
    <3>6. Jammed' <=> Jammed
      BY <1>d, <1>f, <2>2, <2>4, <3>1, <3>5, DispatcherAssumption
    <3>7. QED
      BY <1>h, <3>4, <3>6
  <2>5. QED
    BY <2>1, <2>3, <2>4
<1>2. CASE RegisterUnlock(t)
  <2>1. call[t].ids = {} /\ ~lock_' /\ UNCHANGED funcs
    BY <1>2 DEF RegisterUnlock
  <2>2. \A u \in Threads : pc'[u] # "store"
    BY <1>2, <1>a, <1>c DEF RegisterUnlock, Leave, Return, Goto, AppOK
  <2>3. Entries' = Entries
    BY <1>e, <2>1, <2>2, ShownIdle, EntriesShown
  <2>4. ~Jammed /\ ~Jammed'
    BY <1>f, <2>1 DEF Jammed
  <2>5. QED
    BY <1>h, <2>3, <2>4
<1>3. QED
  BY <1>1, <1>2

LEMMA CallUnseen ==
  ASSUME Facts, NEW t \in Threads, NEW ids \in IdSets, NEW cb \in Callbacks,
         CallRegister(t, ids, cb)
  PROVE  Seen' = Seen
<1>1. LockInv /\ AppOK
  BY DEF Facts, TypeInv, TypeOK
<1>2. UNCHANGED <<table, reap_thread, reaper, ghost, sent>>
  BY DEF CallRegister, thread, kernel
<1>3. \A u \in Threads : /\ (pc'[u] = "store") <=> At(u, "store")
                         /\ At(u, "store") => call'[u] = call[u]
  BY <1>1 DEF CallRegister, AppOK, Goto, At
<1>4. QED
  BY <1>1, <1>2, <1>3, Unseen DEF SameHistory

(* A registration counts when it gets the lock. *)
LEMMA RegisterSimulated ==
  ASSUME Facts, NEW t \in Threads, RegisterLock(t)
  PROVE  Service!Register(call[t].ids, call[t].cb)
<1>a. LockInv /\ AppOK /\ TableOK
  BY DEF Facts, TypeInv, TypeOK
<1>b. /\ ~lock_ /\ lock_' /\ pc' = [pc EXCEPT ![t] = "store"]
      /\ UNCHANGED <<call, funcs, reap_thread, reaper, ghost, sent>>
  BY DEF RegisterLock, Goto, thread, kernel
<1>c. /\ \A u \in Threads : pc[u] # "store"
      /\ reaper.pc # "cs"
  BY <1>a, <1>b DEF LockInv, At
<1>d. pc'[t] = "store" /\ \A u \in Threads : pc'[u] = "store" => u = t
  BY <1>a, <1>b, <1>c DEF AppOK
<1>1. Entries = [i \in Ids |-> funcs[i]]
  BY <1>c, ShownIdle, EntriesShown
<1>2. Entries' = [i \in Ids |-> IF i \in call[t].ids THEN call[t].cb ELSE funcs[i]]
  <2>1. Shown(pc', call', funcs') =
          [i \in Ids |-> IF i \in call'[t].ids THEN call'[t].cb ELSE funcs'[i]]
    BY <1>d, ShownStoring
  <2>2. QED
    BY <1>b, <2>1, EntriesShown
<1>3. Entries' = [i \in Service!Ids |-> IF i \in call[t].ids THEN call[t].cb ELSE Entries[i]]
  BY <1>1, <1>2 DEF Ids, Service!Ids
<1>4. ~Jammed /\ ~Lookup.running
  BY <1>b, <1>c DEF Jammed, Lookup
<1>5. Jammed' <=> \E i \in call[t].ids : i >= MaxId
  BY <1>b, <1>c, <1>d DEF Jammed, At
<1>6. Jammed' = (\E i \in call[t].ids : i >= MaxId)
  BY <1>5, Zenon DEF Jammed
<1>7. Lookup' = Lookup /\ Phantom' = Phantom
  BY <1>b, LookupUnseen, PhantomUnseen
<1>8. QED
  BY <1>b, <1>3, <1>4, <1>6, <1>7, Zenon DEF Service!Register, Service!Free

(* From a start() that finds its socket numbered 0, two sockets may be read. *)
LEMMA DoubleSimulated ==
  ASSUME Facts, StartClose, sock.fd = 0, ~ghost.doubled
  PROVE  Service!Double
<1>a. LockInv /\ AppOK /\ ThreadOK
  BY DEF Facts, TypeInv, TypeOK
<1>b. /\ UNCHANGED <<lock_, funcs, call, reap_thread, reaper, sent>>
      /\ Goto(Owner, "open") /\ At(Owner, "idle")
      /\ ghost' = [ghost EXCEPT !.doubled = TRUE]
  BY DEF StartClose, table
<1>c. /\ ghost'.left = ghost.left /\ ghost'.reads = ghost.reads
      /\ ghost'.last = ghost.last /\ ghost'.doubled = TRUE
  BY <1>a, <1>b DEF ThreadOK
<1>d. \A t \in Threads : /\ (pc'[t] = "store") <=> At(t, "store")
                         /\ At(t, "store") => call'[t] = call[t]
  BY <1>a, <1>b DEF AppOK, Goto, At
<1>1. Entries' = Entries /\ Jammed' = Jammed /\ Lookup' = Lookup /\ Phantom' = Phantom
  BY <1>a, <1>b, <1>c, <1>d, EntriesUnseen, JammedUnseen, LookupUnseen, PhantomUnseen
<1>2. QED
  BY <1>b, <1>c, <1>1, Zenon DEF Service!Double

(* A start counts when the thread is created, a stop when it has been joined. *)
LEMMA StartSimulated ==
  ASSUME Facts, StartSpawn, ~reap_thread.joinable
  PROVE  Service!Start
<1>a. LockInv /\ QuietAfterStop /\ AppOK /\ ReaperOK /\ ThreadOK
  BY DEF Facts, TypeInv, TypeOK, ReaperInv
<1>b. /\ pc' = [pc EXCEPT ![Owner] = "idle"] /\ ~At(Owner, "store")
      /\ reap_thread' = [joinable |-> TRUE, stop |-> FALSE]
      /\ reaper' = [reaper EXCEPT !.pc = "loop"]
      /\ UNCHANGED <<call, lock_, funcs, sent>>
      /\ ghost'.last = ghost.last /\ ghost'.doubled = ghost.doubled
  <2> DEFINE some == wakeups > 0
  <2> DEFINE none == wakeups = 0
  <2>1. ghost' = Noted(some, 0, none)
    BY Zenon DEF StartSpawn
  <2> HIDE DEF some, none
  <2>2. ghost'.last = ghost.last /\ ghost'.doubled = ghost.doubled
    BY <1>a, <2>1 DEF Noted, ThreadOK
  <2>3. QED
    BY <2>2 DEF StartSpawn, Goto, Return, At, table, kernel
<1>c. reaper.pc = "none" /\ reaper'.pc = "loop"
  BY <1>a, <1>b DEF QuietAfterStop, ReaperOK
<1>d. \A t \in Threads : /\ (pc'[t] = "store") <=> At(t, "store")
                         /\ At(t, "store") => call'[t] = call[t]
  BY <1>a, <1>b DEF AppOK, At
<1>1. Entries' = Entries /\ Jammed' = Jammed /\ Lookup' = Lookup
  BY <1>a, <1>b, <1>c, <1>d, EntriesUnseen, JammedUnseen, LookupUnseen
<1>2. reap_thread'.joinable = TRUE
  BY <1>b
<1>3. Phantom' \in BOOLEAN
  BY Zenon DEF Phantom
<1>4. QED
  BY <1>b, <1>1, <1>2, <1>3, Zenon DEF Service!Start

LEMMA StopSimulated ==
  ASSUME Facts, StopJoin \/ (DestroyReap /\ reap_thread.joinable)
  PROVE  Service!Stop
<1>a. LockInv /\ QuietAfterStop /\ AppOK /\ ReaperOK /\ ThreadOK
  BY DEF Facts, TypeInv, TypeOK, ReaperInv
<1>b. /\ reaper.pc = "exited" /\ ~At(Owner, "store")
      /\ reap_thread' = [reap_thread EXCEPT !.joinable = FALSE]
      /\ reaper' = [reaper EXCEPT !.pc = "none"]
      /\ UNCHANGED <<call, lock_, funcs, sent, ghost>>
  BY DEF StopJoin, DestroyReap, Joining, At, table, kernel
<1>c. reap_thread.joinable /\ reaper'.pc = "none"
  BY <1>a, <1>b DEF QuietAfterStop, ReaperOK
<1>d. \A t \in Threads : /\ (pc'[t] = "store") <=> At(t, "store")
                         /\ At(t, "store") => call'[t] = call[t]
  BY <1>a DEF StopJoin, DestroyReap, StopReturn, Goto, AppOK, At, Joining
<1>1. Entries' = Entries /\ Jammed' = Jammed /\ Lookup' = Lookup
  BY <1>a, <1>b, <1>c, <1>d, EntriesUnseen, JammedUnseen, LookupUnseen
<1>2. ~Lookup.running
  BY <1>b DEF Lookup
<1>3. reap_thread'.joinable = FALSE
  BY <1>a, <1>b DEF ThreadOK
<1>4. Phantom' = FALSE
  BY <1>3, Zenon DEF Phantom
<1>5. QED
  BY <1>b, <1>c, <1>1, <1>2, <1>3, <1>4, Zenon DEF Service!Stop

LEMMA FrameSimulated ==
  ASSUME Facts, NEW id \in BusIds, BusFrame(id)
  PROVE  Service!Frame
<1>a. LockInv /\ AppOK /\ KernelOK
  BY DEF Facts, TypeInv, TypeOK
<1>b. UNCHANGED <<lock_, funcs, pc, call, reap_thread, ghost>> /\ sent' = sent + 1
  BY DEF BusFrame, table, app
<1>c. \/ reaper' = reaper
      \/ reaper.pc = "orphan" /\ reaper'.pc = "lock" /\ reaper'.frame.seq = sent + 1
  BY DEF BusFrame, Got, ReaperAt
<1>d. sent + 1 # 0
  BY <1>a DEF KernelOK
<1>e. \A t \in Threads : /\ (pc'[t] = "store") <=> At(t, "store")
                         /\ At(t, "store") => call'[t] = call[t]
  BY <1>b DEF At
<1>1. Entries' = Entries /\ Jammed' = Jammed /\ Lookup' = Lookup
  BY <1>a, <1>b, <1>c, <1>e, EntriesUnseen, JammedUnseen, LookupUnseen
<1>2. Phantom' = Phantom
  BY <1>b, <1>c, <1>d, PhantomUnseen
<1>3. QED
  BY <1>b, <1>1, <1>2, Zenon DEF Service!Frame

(* A look-up counts when the reaper gets the lock. *)
LEMMA BeginSimulated == ASSUME Facts, DispatchLock PROVE Service!Begin
<1>a. /\ LockInv /\ QuietAfterStop /\ OrderInv /\ ServiceInv
      /\ AppOK /\ ReaperOK /\ KernelOK /\ ThreadOK
  BY DEF Facts, TypeInv, TypeOK, ReaperInv
<1>b. /\ reaper.pc = "lock" /\ ~lock_ /\ lock_'
      /\ reaper' = [reaper EXCEPT !.pc = "cs"]
      /\ UNCHANGED <<funcs, pc, call, reap_thread, ghost, sent>>
  BY DEF DispatchLock, app, kernel
<1>c. /\ reaper'.pc = "cs" /\ reaper'.frame = reaper.frame
      /\ reaper.frame.id \in Nat /\ reaper.frame.seq \in Nat
      /\ reap_thread.joinable
  BY <1>a, <1>b DEF ReaperOK, Frames, QuietAfterStop
<1>d. \A t \in Threads : pc[t] # "store"
  BY <1>a, <1>b DEF LockInv, At
<1>1. Entries = [i \in Ids |-> funcs[i]] /\ Entries' = Entries
  <2>1. \A t \in Threads : /\ (pc'[t] = "store") <=> At(t, "store")
                           /\ At(t, "store") => call'[t] = call[t]
    BY <1>b DEF At
  <2>2. QED
    BY <1>a, <1>b, <1>d, <2>1, EntriesUnseen, ShownIdle, EntriesShown
<1>2. Jammed = FALSE /\ Jammed' = FALSE
  BY <1>b, <1>c, Zenon DEF Jammed
<1>3. Lookup.running = FALSE
  BY <1>b DEF Lookup
<1>4. Lookup' = [id |-> reaper.frame.id, seq |-> reaper.frame.seq,
                 cb |-> IF reaper.frame.id \in Service!Ids THEN Entries[reaper.frame.id]
                        ELSE NoFunc,
                 running |-> TRUE]
  <2> DEFINE cb == IF reaper.frame.id \in Ids THEN funcs[reaper.frame.id] ELSE NoFunc
  <2>a. /\ reaper'.frame.id = reaper.frame.id /\ reaper'.frame.seq = reaper.frame.seq
        /\ (IF reaper'.frame.id \in Ids THEN funcs'[reaper'.frame.id] ELSE NoFunc) = cb
    BY <1>b, <1>c
  <2>2. cb = IF reaper.frame.id \in Service!Ids THEN Entries[reaper.frame.id] ELSE NoFunc
    BY <1>1 DEF Ids, Service!Ids
  <2> HIDE DEF cb
  <2>1. Lookup' = [id |-> reaper.frame.id, seq |-> reaper.frame.seq, cb |-> cb,
                   running |-> TRUE]
    BY <1>c, <2>a, Zenon DEF Lookup
  <2>3. QED
    BY <2>1, <2>2, Zenon
<1>5. Lookup'.id = reaper.frame.id /\ Lookup'.seq = reaper.frame.seq
  BY <1>4
<1>6. \/ /\ reaper.frame.seq > 0 /\ (ghost.doubled \/ ghost.last <= reaper.frame.seq)
         /\ reaper.frame.seq <= sent /\ Phantom' = Phantom
      \/ reaper.frame.seq = 0 /\ Phantom = TRUE /\ Phantom' = FALSE
  <2>1. CASE reaper.frame.seq = 0
    <3>1. ghost.reads # 0
      BY <1>a, <1>b, <2>1 DEF ServiceInv
    <3>2. Phantom = TRUE
      BY <1>b, <1>c, <2>1, Zenon DEF Phantom
    <3>3. Phantom' = FALSE
      <4>1. ~Phantom'
        BY <1>b, <1>c, <3>1 DEF Phantom
      <4>2. QED
        BY <4>1, Zenon DEF Phantom
    <3>4. QED
      BY <2>1, <3>2, <3>3
  <2>2. CASE reaper.frame.seq > 0
    <3>1. reaper.frame.seq # 0
      BY <2>2
    <3>2. Phantom' = Phantom
      BY <1>b, <1>c, <3>1, PhantomUnseen
    <3>3. (ghost.doubled \/ ghost.last <= reaper.frame.seq) /\ reaper.frame.seq <= sent
      BY <1>a, <1>b, <2>2 DEF OrderInv, SentInv, Ordered, Holding
    <3>4. QED
      BY <2>2, <3>2, <3>3
  <2>3. reaper.frame.seq = 0 \/ reaper.frame.seq > 0
    BY <1>c
  <2>4. QED
    BY <2>1, <2>2, <2>3, Zenon
<1>7. QED
  <2>1. Service!Free
    BY <1>2, <1>3, Zenon DEF Service!Free
  <2>2. UNCHANGED <<Entries, Jammed, reap_thread.joinable, ghost.last, ghost.doubled, sent>>
    BY <1>b, <1>1, <1>2
  <2>3. \/ /\ Lookup'.seq > 0 /\ (ghost.doubled \/ ghost.last <= Lookup'.seq)
           /\ Lookup'.seq <= sent /\ Phantom' = Phantom
        \/ Lookup'.seq = 0 /\ Phantom = TRUE /\ Phantom' = FALSE
    BY <1>5, <1>6
  <2>4. Lookup' = [id |-> Lookup'.id, seq |-> Lookup'.seq,
                   cb |-> IF Lookup'.id \in Service!Ids THEN Entries[Lookup'.id]
                          ELSE NoFunc,
                   running |-> TRUE]
    BY <1>4, <1>5
  <2>5. Lookup'.id \in Nat /\ Lookup'.seq \in Nat
    BY <1>c, <1>5
  <2>6. QED
    BY <1>c, <2>1, <2>2, <2>3, <2>4, <2>5, Zenon DEF Service!Begin

LEMMA EndSimulated == ASSUME Facts, Dispatch PROVE Service!End
<1>a. LockInv /\ AppOK /\ ReaperOK /\ ThreadOK
  BY DEF Facts, TypeInv, TypeOK
<1>b. /\ reaper.pc = "cs" /\ ~lock_' /\ reaper'.pc = "loop" /\ LookedUp
      /\ UNCHANGED <<funcs, pc, call, reap_thread, sent>>
  BY DEF Dispatch, Loop, ReaperAt, app, kernel
<1>1. Entries' = Entries
  <2>1. \A t \in Threads : /\ (pc'[t] = "store") <=> At(t, "store")
                           /\ At(t, "store") => call'[t] = call[t]
    BY <1>b DEF At
  <2>2. QED
    BY <1>a, <1>b, <2>1, EntriesUnseen
<1>2. Jammed' = Jammed
  <2>1. ~Jammed /\ ~Jammed'
    BY <1>b DEF Jammed
  <2>2. QED
    BY <2>1, Zenon DEF Jammed
<1>3. /\ ghost'.left = ghost.left /\ ghost'.reads = ghost.reads
      /\ ghost'.doubled = ghost.doubled
      /\ ghost'.last = IF reaper.frame.seq = 0 THEN ghost.last ELSE reaper.frame.seq
  BY <1>a, <1>b DEF LookedUp, ThreadOK
<1>4. Phantom' = Phantom
  <2>1. Phantom' <=> Phantom
    BY <1>b, <1>3 DEF Phantom
  <2>2. QED
    BY <2>1, Zenon DEF Phantom
<1>5. /\ Lookup.running = TRUE /\ Lookup.seq = reaper.frame.seq
      /\ Lookup' = [id |-> 0, seq |-> 0, cb |-> NoFunc, running |-> FALSE]
  BY <1>b DEF Lookup
<1>6. QED
  BY <1>b, <1>1, <1>2, <1>3, <1>4, <1>5, Zenon DEF Service!End, Service!NoCall

LEMMA DieSimulated == ASSUME Facts, Crash PROVE Service!Die
<1>a. LockInv /\ AppOK /\ ReaperOK
  BY DEF Facts, TypeInv, TypeOK
<1>b. /\ reaper.pc = "cs" /\ reaper.frame.id \notin Ids /\ reaper'.pc = "crashed"
      /\ pc' = [t \in Threads |-> "dead"]
      /\ UNCHANGED <<lock_, funcs, call, reap_thread, ghost, sent>>
  BY DEF Crash, ReaperAt, table
<1>c. lock_ /\ \A t \in Threads : pc[t] # "store" /\ pc'[t] # "store"
  BY <1>a, <1>b DEF LockInv, MutualExclusion, At
<1>1. Entries' = Entries
  BY <1>a, <1>b, <1>c, EntriesUnseen DEF At
<1>2. Jammed' = TRUE
  <2>1. Jammed'
    BY <1>b, <1>c DEF Jammed, At
  <2>2. QED
    BY <2>1, Zenon DEF Jammed
<1>3. Phantom' = Phantom
  <2>1. Phantom' <=> Phantom
    BY <1>b DEF Phantom
  <2>2. QED
    BY <2>1, Zenon DEF Phantom
<1>4. /\ Lookup.running = TRUE /\ Lookup.id = reaper.frame.id
      /\ Lookup' = [id |-> 0, seq |-> 0, cb |-> NoFunc, running |-> FALSE]
  BY <1>b DEF Lookup
<1>5. reaper.frame.id \notin Service!Ids
  BY <1>b DEF Ids, Service!Ids
<1>6. QED
  BY <1>b, <1>1, <1>2, <1>3, <1>4, <1>5, Zenon DEF Service!Die, Service!NoCall

-----------------------------------------------------------------------------
LEMMA ServiceInitially == Init => Service!Init
<1> SUFFICES ASSUME Init PROVE Service!Init
  OBVIOUS
<1>1. /\ lock_ = FALSE /\ funcs = [i \in Ids |-> NoFunc]
      /\ \A t \in Threads : pc[t] # "store"
      /\ reap_thread.joinable = FALSE /\ reaper.pc = "none"
      /\ ghost.last = 0 /\ ghost.doubled = FALSE /\ sent = 0
  BY DEF Init
<1>2. Entries = [i \in Service!Ids |-> NoFunc]
  <2>1. Shown(pc, call, funcs) = [i \in Ids |-> funcs[i]]
    BY <1>1, ShownIdle
  <2>2. QED
    BY <1>1, <2>1, EntriesShown DEF Ids, Service!Ids
<1>3. Jammed = FALSE /\ Phantom = FALSE
  BY <1>1, Zenon DEF Jammed, Phantom
<1>4. Lookup = Service!NoCall
  BY <1>1 DEF Lookup, Service!NoCall
<1>5. QED
  BY <1>1, <1>2, <1>3, <1>4, Zenon DEF Service!Init

(* The Dispatcher implements DispatcherService: locks, threads, sockets and events
   make no difference to what the application sees. *)
THEOREM ImplementsService == Spec => Implements
<1>1. Facts /\ [Next]_vars => [Service!Next]_Service!vars
  <2> SUFFICES ASSUME Facts, [Next]_vars PROVE Service!Next \/ Seen' = Seen
    BY DEF Seen, Service!vars
  <2>1. ASSUME NEW t \in Threads, NEW ids \in IdSets, NEW cb \in Callbacks,
               CallRegister(t, ids, cb)
        PROVE Seen' = Seen
    BY <2>1, CallUnseen
  <2>2. ASSUME NEW t \in Threads, RegisterLock(t) PROVE Service!Next
    <3>1. call[t].ids \in IdSets /\ call[t].cb \in Callbacks
      BY <2>2 DEF RegisterLock, Facts, ServiceInv
    <3>2. QED
      BY <2>2, <3>1, RegisterSimulated DEF Service!Next
  <2>3. ASSUME NEW t \in Threads, RegisterStore(t) \/ RegisterUnlock(t) PROVE Seen' = Seen
    BY <2>3, StoreUnseen
  <2>4. CASE StartOpen \/ StartNonblock \/ StartAdd \/ StartFlush
    BY <2>4, StartUnseen
  <2>4a. CASE StartClose
    BY <2>4a, StartUnseen, DoubleSimulated DEF Service!Next
  <2>4b. CASE CloseZero
    BY <2>4b, CloseZeroUnseen
  <2>5. CASE StartSpawn
    BY <2>5, StartUnseen, StartSimulated DEF Service!Next
  <2>6. CASE StopRequest \/ StopWrite \/ Destroy \/ DestroyClose
    BY <2>6, StopUnseen
  <2>7. CASE StopJoin \/ DestroyReap
    BY <2>7, StopUnseen, StopSimulated DEF Service!Next
  <2>8. CASE \/ EpollWait \/ EpollInterrupted \/ ReadSocket \/ ReadResumes \/ ReadFails
             \/ \E fd \in reaper.events : CheckEvent(fd)
    BY <2>8, ReaperUnseen
  <2>9. CASE ReadEventFd
    BY <2>9, EventFdUnseen
  <2>10. CASE DispatchLock \/ Dispatch \/ Crash
    BY <2>10, BeginSimulated, EndSimulated, DieSimulated DEF Service!Next
  <2>11. ASSUME NEW id \in BusIds, BusFrame(id) PROVE Service!Next
    BY <2>11, FrameSimulated DEF Service!Next
  <2>12. CASE UNCHANGED vars
    <3>1. LockInv
      BY DEF Facts
    <3>2. QED
      BY <2>12, <3>1, Unseen DEF vars, app, thread, kernel, At, SameHistory
  <2>13. QED
    BY <2>1, <2>2, <2>3, <2>4, <2>4a, <2>4b, <2>5, <2>6, <2>7, <2>8, <2>9, <2>10, <2>11,
       <2>12
    DEF Next, Register, StartStep, StopStep, DestroyStep, Reaper
<1>2. QED
  BY <1>1, ServiceInitially, TypeInvariant, LockInvariant, StopInvariant, OrderInvariant,
     ServiceInvariant, PTL
  DEF Facts, Implements, Service!Spec, Spec
=============================================================================
