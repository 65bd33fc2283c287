---------------------------- MODULE SenderProofs ----------------------------
(***************************************************************************)
(* What the runs check of Sender and its Socket, proved for every number   *)
(* of Senders, every size of the descriptor table and any number of times  *)
(* the device is removed and created anew.                                 *)
(***************************************************************************)
EXTENDS Sender, TLAPS

InCall == {"close", "open", "index", "bind", "write"}

(* What a Sender knows of its descriptor: none to close while it opens one, none
   once the object is gone, and a positive number is its own socket. *)
Descriptor(s) ==
  /\ pc[s] = "open" => sock_fd[s] <= 0
  /\ pc[s] = "gone" => sock_fd[s] = -1
  /\ sock_fd[s] > 0 => Mine(s)

(* The frame of a send() that has not returned is not on the bus; the one of a
   send() that has, as its result says. *)
Sent(s) ==
  /\ pc[s] \in InCall => out[s] = 0
  /\ pc[s] = "gone" => res[s] = "none"
  /\ pc[s] = "idle" /\ res[s] # "none" /\ sock_fd[s] # 0 =>
       out[s] = IF res[s] = "ok" THEN 1 ELSE 0

(* A send() under which the link does not change: its new socket is bound to the
   device that is there, and the second write cannot fail. *)
Undisturbed(s) ==
  calm[s] =>
    /\ link.up
    /\ pc[s] \in {"index", "bind"} => sock_fd[s] > 0
    /\ pc[s] = "bind" => ifr[s] = link.index
    /\ pc[s] = "write" /\ retry[s] => sock_fd[s] > 0 /\ Works(sock_fd[s])
    /\ pc[s] = "gone" => FALSE
    /\ pc[s] = "idle" => res[s] \in {"ok", "CANSocketBufferFull", "CANSocketCreateError"}

Local(s) == Descriptor(s) /\ Sent(s) /\ Undisturbed(s)

(* A CAN socket is some Sender's. *)
Owned == \A n \in Numbers : fds[n].kind = "can" => fds[n].owner \in Senders

SenderInv ==
  /\ TypeOK /\ Owned /\ NoLeak
  /\ link.up => link.index > 0
  /\ \A s \in Senders : Local(s)

-----------------------------------------------------------------------------
(* The entries of the descriptor table. *)
FdEntry == [kind : {"free", "file", "can"}, owner : Senders \cup {NoSender},
            dev : 0..MaxIndex, err : BOOLEAN]

LEMMA EntryType ==
  ASSUME NEW kind \in {"free", "file", "can"}, NEW owner \in Senders \cup {NoSender},
         NEW dev \in 0..MaxIndex, NEW err \in BOOLEAN
  PROVE  /\ Entry(kind, owner, dev, err) \in FdEntry
         /\ Entry(kind, owner, dev, err).kind = kind
         /\ Entry(kind, owner, dev, err).owner = owner
         /\ Entry(kind, owner, dev, err).dev = dev
  BY DEF Entry, FdEntry

LEMMA EntryFresh ==
  ASSUME NEW kind \in {"free", "file", "can"}, NEW owner \in Senders \cup {NoSender}
  PROVE  /\ Entry(kind, owner, 0, FALSE) \in FdEntry
         /\ Entry(kind, owner, 0, FALSE).kind = kind
         /\ Entry(kind, owner, 0, FALSE).owner = owner
         /\ Entry(kind, owner, 0, FALSE).dev = 0
  <1>1. PICK e \in BOOLEAN : e = FALSE
    OBVIOUS
  <1>2. 0 \in 0..MaxIndex
    BY SenderAssumption
  <1>3. /\ Entry(kind, owner, 0, e) \in FdEntry
        /\ Entry(kind, owner, 0, e).kind = kind
        /\ Entry(kind, owner, 0, e).owner = owner
        /\ Entry(kind, owner, 0, e).dev = 0
    BY <1>2, EntryType
  <1> QED  BY Zenon, <1>1, <1>3

LEMMA Entries ==
  /\ Free \in FdEntry /\ Free.kind = "free" /\ Free.dev = 0
  /\ File \in FdEntry /\ File.kind = "file" /\ File.dev = 0
  /\ \A s \in Senders : /\ CanSocket(s) \in FdEntry /\ CanSocket(s).kind = "can"
                         /\ CanSocket(s).owner = s /\ CanSocket(s).dev = 0
  BY Zenon, EntryFresh DEF Free, File, CanSocket

(* A bind and a write change the device and the error of an entry alone. *)
LEMMA EntryErr ==
  ASSUME NEW x \in FdEntry, NEW err \in BOOLEAN, NEW y, y = [x EXCEPT !.err = err]
  PROVE  /\ y \in FdEntry /\ y.kind = x.kind /\ y.owner = x.owner
         /\ y.err = err /\ y.dev = x.dev
  BY DEF FdEntry

BoundTo(x, dev, err) == [x EXCEPT !.dev = dev, !.err = err]

LEMMA EntryBound ==
  ASSUME NEW x \in FdEntry, NEW dev \in 0..MaxIndex, NEW err \in BOOLEAN,
         NEW y, y = BoundTo(x, dev, err)
  PROVE  /\ y \in FdEntry /\ y.kind = x.kind /\ y.owner = x.owner
         /\ y.dev = dev /\ y.err = err
  <1>1. PICK z : z = [x EXCEPT !.dev = dev]
    OBVIOUS
  <1>2. y = [z EXCEPT !.err = err]
    BY <1>1 DEF BoundTo
  <1>3. /\ z \in FdEntry /\ z.kind = x.kind /\ z.owner = x.owner /\ z.dev = dev
    BY <1>1 DEF FdEntry
  <1>4. /\ y \in FdEntry /\ y.kind = z.kind /\ y.owner = z.owner
        /\ y.err = err /\ y.dev = z.dev
    BY <1>2, <1>3 DEF FdEntry
  <1> QED  BY Zenon, <1>3, <1>4

LEMMA TypeParts ==
  ASSUME TypeOK
  PROVE  /\ SenderOK /\ fds \in [Numbers -> FdEntry]
         /\ link.index \in 0..MaxIndex /\ link.up \in BOOLEAN
         /\ link.created \in 1..MaxIndex
         /\ out \in [Senders -> Nat] /\ calm \in [Senders -> BOOLEAN]
         /\ \A s \in Senders : pc[s] \in {"index", "bind", "write"} => sock_fd[s] \in Numbers
  <1>1. \A s \in Senders : sock_fd[s] \in Numbers \cup {-1}
    BY DEF TypeOK, SenderOK
  <1> QED  BY <1>1 DEF TypeOK, FdsOK, FdEntry, Numbers

-----------------------------------------------------------------------------
(* What a step of Sender s leaves alone: the link, the other Senders and every
   entry but the ones it closes, opens or uses. *)
StepOf(s) ==
  /\ link' = link
  /\ \A t \in Senders \ {s} :
       /\ sock_fd'[t] = sock_fd[t] /\ pc'[t] = pc[t] /\ retry'[t] = retry[t]
       /\ ifr'[t] = ifr[t] /\ res'[t] = res[t] /\ out'[t] = out[t] /\ calm'[t] = calm[t]
  /\ \A n \in Numbers \ {0, sock_fd[s], sock_fd'[s]} : fds'[n] = fds[n]
  /\ sock_fd'[s] # sock_fd[s] =>
       /\ sock_fd[s] > 0 => fds'[sock_fd[s]] = Free
       /\ sock_fd'[s] > 0 => fds[sock_fd'[s]] = Free

(* Such a step keeps what the invariant says of the others, because no two Senders
   have the same positive number. *)
LEMMA OthersKept ==
  ASSUME SenderInv, NEW s \in Senders, StepOf(s), TypeOK', Owned', Local(s)'
  PROVE  SenderInv'
  <1>0. /\ TypeOK /\ fds \in [Numbers -> FdEntry]
        /\ \A t \in Senders : sock_fd[t] \in Numbers \cup {-1} /\ Local(t)
        /\ \A t \in Senders : sock_fd'[t] \in Numbers \cup {-1}
    BY TypeParts DEF SenderInv, TypeOK, SenderOK
  <1>1. ASSUME NEW t \in Senders \ {s}, sock_fd[t] > 0
        PROVE  fds'[sock_fd[t]] = fds[sock_fd[t]]
    <2>1. sock_fd[t] # sock_fd[s]
      BY <1>0, <1>1 DEF Local, Descriptor, Mine
    <2>2. sock_fd[t] # sock_fd'[s]
      BY <1>0, <1>1, <2>1, Entries DEF Local, Descriptor, Mine, StepOf
    <2> QED  BY <1>0, <1>1, <2>1, <2>2 DEF StepOf, Numbers
  <1>2. ASSUME NEW t \in Senders \ {s} PROVE Local(t)'
    <2>1. Descriptor(t)'
      BY <1>0, <1>1, <1>2 DEF StepOf, Local, Descriptor, Mine
    <2>2. Sent(t)'
      BY <1>0, <1>2 DEF StepOf, Local, Sent
    <2>3. Undisturbed(t)'
      BY <1>0, <1>1, <1>2 DEF StepOf, Local, Undisturbed, Works
    <2> QED  BY <2>1, <2>2, <2>3 DEF Local
  <1>3. NoLeak'
    <2> SUFFICES ASSUME NEW n \in Numbers \ {0}, fds'[n].kind = "can"
                 PROVE  sock_fd'[fds'[n].owner] = n /\ pc'[fds'[n].owner] # "gone"
      BY DEF NoLeak
    <2>1. fds'[n].owner \in Senders /\ n > 0
      BY DEF Owned, Numbers
    <2>2. CASE n = sock_fd'[s]
      BY <2>1, <2>2 DEF Local, Descriptor, Mine
    <2>3. CASE n # sock_fd'[s]
      <3>1. n # sock_fd[s]
        BY <2>1, <2>3, Entries DEF StepOf
      <3>2. fds'[n] = fds[n]
        BY <2>3, <3>1 DEF StepOf
      <3>3. sock_fd[fds[n].owner] = n /\ pc[fds[n].owner] # "gone" /\ fds[n].owner # s
        BY <3>1, <3>2 DEF SenderInv, NoLeak
      <3> QED  BY <2>1, <3>2, <3>3 DEF StepOf
    <2> QED  BY <2>2, <2>3
  <1>4. (link.up => link.index > 0)'
    BY DEF SenderInv, StepOf
  <1> QED  BY <1>2, <1>3, <1>4 DEF SenderInv

(* What there is to show of a step of Sender s. *)
LEMMA StepKept ==
  ASSUME SenderInv, NEW s \in Senders, StepOf(s), Local(s)', SenderOK',
         fds' \in [Numbers -> FdEntry], out' \in [Senders -> Nat],
         calm' \in [Senders -> BOOLEAN],
         \A n \in Numbers : fds'[n].kind = "can" => fds'[n].owner \in Senders,
         pc'[s] \in {"index", "bind", "write"} => sock_fd'[s] >= 0
  PROVE  SenderInv'
  <1>1. link' \in [index : 0..MaxIndex, up : BOOLEAN, created : 1..MaxIndex]
    BY DEF StepOf, SenderInv, TypeOK
  <1>2. \A t \in Senders : pc'[t] \in {"index", "bind", "write"} => sock_fd'[t] >= 0
    BY DEF StepOf, SenderInv, TypeOK
  <1>3. TypeOK'
    BY <1>1, <1>2 DEF TypeOK, FdsOK, FdEntry
  <1>4. Owned'
    BY DEF Owned
  <1> QED  BY <1>3, <1>4, OthersKept

LEMMA ClosedIs ==
  ASSUME fds \in [Numbers -> FdEntry], NEW n \in Numbers \cup {-1}
  PROVE  /\ Closed(n) \in [Numbers -> FdEntry]
         /\ n \in Numbers => Closed(n)[n] = Free
         /\ \A m \in Numbers \ {n} : Closed(n)[m] = fds[m]
  BY Entries DEF Closed, Numbers

LEMMA InvParts ==
  ASSUME SenderInv, NEW s \in Senders
  PROVE  /\ SenderOK /\ fds \in [Numbers -> FdEntry]
         /\ link.index \in 0..MaxIndex /\ link.up \in BOOLEAN
         /\ out \in [Senders -> Nat] /\ calm \in [Senders -> BOOLEAN]
         /\ Local(s) /\ sock_fd[s] \in Numbers \cup {-1}
         /\ \A n \in Numbers : fds[n].kind = "can" => fds[n].owner \in Senders
         /\ pc[s] \in {"index", "bind", "write"} => sock_fd[s] \in Numbers
         /\ link.up => link.index > 0
  BY TypeParts DEF SenderInv, Owned, SenderOK

LEMMA CloseKeeps ==
  ASSUME SenderInv, NEW s \in Senders, ConnectClose(s)
  PROVE  SenderInv'
  <1>0. /\ SenderOK /\ fds \in [Numbers -> FdEntry] /\ Local(s)
        /\ sock_fd[s] \in Numbers \cup {-1} /\ pc[s] = "close"
    BY InvParts DEF ConnectClose, At
  <1>1. /\ pc' = [pc EXCEPT ![s] = "open"]
        /\ UNCHANGED <<retry, ifr, res, link, out, calm>>
    BY DEF ConnectClose, Goto, ghosts
  <1>2. \/ /\ sock_fd[s] > 0 /\ fds' = Closed(sock_fd[s])
           /\ sock_fd' = [sock_fd EXCEPT ![s] = -1]
        \/ sock_fd[s] <= 0 /\ UNCHANGED <<fds, sock_fd>>
    BY DEF ConnectClose
  <1>3. StepOf(s) /\ fds' \in [Numbers -> FdEntry]
    <2>1. CASE sock_fd' = sock_fd /\ fds' = fds
      BY <1>0, <1>1, <2>1 DEF StepOf, SenderOK
    <2>2. CASE /\ sock_fd[s] > 0 /\ fds' = Closed(sock_fd[s])
               /\ sock_fd' = [sock_fd EXCEPT ![s] = -1]
      <3>1. /\ sock_fd[s] \in Numbers /\ fds' \in [Numbers -> FdEntry]
            /\ fds'[sock_fd[s]] = Free
            /\ \A n \in Numbers \ {sock_fd[s]} : fds'[n] = fds[n]
        BY <1>0, <2>2, ClosedIs
      <3> QED  BY <1>0, <1>1, <2>2, <3>1 DEF StepOf, SenderOK
    <2> QED  BY <1>2, <2>1, <2>2
  <1>4. Local(s)'
    BY <1>0, <1>1, <1>2 DEF SenderOK, Local, Descriptor, Sent, Undisturbed, InCall, Numbers
  <1>5. SenderOK' /\ pc'[s] = "open"
    BY <1>0, <1>1, <1>2 DEF SenderOK
  <1>6. \A n \in Numbers : fds'[n] = fds[n] \/ fds'[n] = Free
    BY <1>0, <1>2, ClosedIs
  <1> QED
    BY <1>1, <1>3, <1>4, <1>5, <1>6, InvParts, Entries, StepKept

LEMMA OpenKeeps ==
  ASSUME SenderInv, NEW s \in Senders, ConnectOpen(s)
  PROVE  SenderInv'
  <1>0. /\ SenderOK /\ fds \in [Numbers -> FdEntry] /\ Local(s)
        /\ sock_fd[s] \in Numbers \cup {-1} /\ pc[s] = "open" /\ sock_fd[s] <= 0
        /\ calm \in [Senders -> BOOLEAN] /\ out[s] = 0
    BY InvParts DEF ConnectOpen, At, Local, Descriptor, Sent, InCall
  <1>1. UNCHANGED <<retry, ifr, link, out>>
    BY DEF ConnectOpen
  <1>2. ASSUME NEW n \in Numbers, Lowest(n),
               fds' = [fds EXCEPT ![n] = CanSocket(s)],
               sock_fd' = [sock_fd EXCEPT ![s] = n],
               calm' = [calm EXCEPT ![s] = calm[s] /\ n > 0],
               Goto(s, "index"), UNCHANGED res
        PROVE  SenderInv'
    <2>1. fds[n] = Free /\ n \in 0..MaxFd
      BY <1>2 DEF Lowest, FreeNumbers, Numbers
    <2>2. StepOf(s)
      BY <1>0, <1>1, <1>2, <2>1 DEF StepOf, SenderOK, Goto, Numbers
    <2>3. fds' \in [Numbers -> FdEntry] /\ fds'[n] = CanSocket(s)
      BY <1>0, <1>2, Entries
    <2>4. calm' \in [Senders -> BOOLEAN] /\ (calm'[s] => calm[s] /\ n > 0)
      BY <1>0, <1>2
    <2>5. Local(s)'
      BY <1>0, <1>1, <1>2, <2>3, <2>4, Entries
         DEF SenderOK, Local, Descriptor, Sent, Undisturbed, InCall, Goto, Mine
    <2>6. SenderOK' /\ pc'[s] = "index" /\ sock_fd'[s] >= 0
      BY <1>0, <1>1, <1>2, <2>1 DEF SenderOK, Goto
    <2>7. \A m \in Numbers : fds'[m] = fds[m] \/ fds'[m] = CanSocket(s)
      BY <1>0, <1>2
    <2> QED  BY <1>1, <2>2, <2>3, <2>4, <2>5, <2>6, <2>7, InvParts, Entries, StepKept
  <1>3. CASE /\ sock_fd' = [sock_fd EXCEPT ![s] = -1]
             /\ Return(s, "CANSocketCreateError") /\ UNCHANGED <<fds, calm>>
    <2>1. StepOf(s)
      BY <1>0, <1>1, <1>3 DEF StepOf, SenderOK, Return, Goto, Numbers
    <2>2. Local(s)'
      BY <1>0, <1>1, <1>3
         DEF SenderOK, Local, Descriptor, Sent, Undisturbed, InCall, Return, Goto
    <2>3. SenderOK' /\ pc'[s] = "idle"
      BY <1>0, <1>1, <1>3 DEF SenderOK, Return, Goto, Codes
    <2> QED  BY <1>1, <1>3, <2>1, <2>2, <2>3, InvParts, StepKept
  <1> QED  BY <1>2, <1>3 DEF ConnectOpen

(* The error path of ensure_connected is not taken while the link is left alone. *)
LEMMA AbandonKeeps ==
  ASSUME SenderInv, NEW s \in Senders, pc[s] \in {"index", "bind"}, ~calm[s],
         NEW code \in Codes \ {"none", "ok"}, Abandon(s, code),
         UNCHANGED <<retry, ifr, link, out, calm>>
  PROVE  SenderInv'
  <1>0. /\ SenderOK /\ fds \in [Numbers -> FdEntry] /\ Local(s)
        /\ sock_fd[s] \in Numbers /\ calm \in [Senders -> BOOLEAN] /\ out[s] = 0
    BY InvParts DEF Local, Sent, InCall
  <1>1. /\ pc' = [pc EXCEPT ![s] = "idle"] /\ res' = [res EXCEPT ![s] = code]
        /\ sock_fd' = [sock_fd EXCEPT ![s] = -1]
    BY DEF Abandon, Return, Goto
  <1>2. /\ fds' \in [Numbers -> FdEntry] /\ fds'[sock_fd[s]] = Free
        /\ \A n \in Numbers \ {sock_fd[s]} : fds'[n] = fds[n]
    BY <1>0, ClosedIs DEF Abandon
  <1>3. StepOf(s)
    BY <1>0, <1>1, <1>2 DEF StepOf, SenderOK
  <1>4. Local(s)'
    BY <1>0, <1>1 DEF SenderOK, Local, Descriptor, Sent, Undisturbed, InCall
  <1>5. SenderOK' /\ pc'[s] = "idle"
    BY <1>0, <1>1 DEF SenderOK
  <1>6. \A n \in Numbers : fds'[n] = fds[n] \/ fds'[n] = Free
    BY <1>2
  <1> QED
    BY <1>2, <1>3, <1>4, <1>5, <1>6, InvParts, Entries, StepKept

LEMMA IndexKeeps ==
  ASSUME SenderInv, NEW s \in Senders, ConnectIndex(s)
  PROVE  SenderInv'
  <1>0. /\ SenderOK /\ fds \in [Numbers -> FdEntry] /\ Local(s)
        /\ sock_fd[s] \in Numbers /\ pc[s] = "index" /\ out[s] = 0
        /\ calm \in [Senders -> BOOLEAN] /\ link.index \in 0..MaxIndex
        /\ link.up => link.index > 0
    BY InvParts DEF ConnectIndex, At, Local, Sent, InCall
  <1>1. UNCHANGED <<retry, link, out, calm>>
    BY DEF ConnectIndex, ghosts
  <1>2. CASE /\ ifr' = [ifr EXCEPT ![s] = link.index]
             /\ Goto(s, "bind") /\ UNCHANGED <<sock_fd, res, fds>>
    <2>1. StepOf(s)
      BY <1>0, <1>1, <1>2 DEF StepOf, SenderOK, Goto
    <2>2. Local(s)'
      BY <1>0, <1>1, <1>2
         DEF SenderOK, Local, Descriptor, Sent, Undisturbed, InCall, Goto, Mine
    <2>3. SenderOK' /\ sock_fd'[s] >= 0
      BY <1>0, <1>1, <1>2 DEF SenderOK, Goto, Numbers
    <2> QED  BY <1>0, <1>1, <1>2, <2>1, <2>2, <2>3, InvParts, StepKept
  <1>3. CASE /\ link.index = 0 \/ fds[sock_fd[s]].kind # "can"
             /\ Abandon(s, "CANInterfaceIndexError") /\ UNCHANGED ifr
    <2>1. ~calm[s]
      BY <1>0, <1>3 DEF Local, Undisturbed, Descriptor, Mine
    <2> QED  BY <1>0, <1>1, <1>3, <2>1, AbandonKeeps DEF Codes
  <1> QED  BY <1>2, <1>3 DEF ConnectIndex

LEMMA BindKeeps ==
  ASSUME SenderInv, NEW s \in Senders, ConnectBind(s)
  PROVE  SenderInv'
  <1>0. /\ SenderOK /\ fds \in [Numbers -> FdEntry] /\ Local(s)
        /\ sock_fd[s] \in Numbers /\ pc[s] = "bind" /\ out[s] = 0
        /\ calm \in [Senders -> BOOLEAN] /\ link.up \in BOOLEAN
        /\ ifr[s] \in 0..MaxIndex
    BY InvParts DEF ConnectBind, At, Local, Sent, InCall, SenderOK
  <1>1. UNCHANGED <<retry, ifr, link, out, calm>>
    BY DEF ConnectBind, ghosts
  <1>2. CASE /\ ifr[s] = link.index /\ fds[sock_fd[s]].kind = "can"
             /\ fds' = [fds EXCEPT ![sock_fd[s]].dev = ifr[s],
                                   ![sock_fd[s]].err = ~link.up]
             /\ Goto(s, "write") /\ UNCHANGED <<sock_fd, res>>
    <2> DEFINE n == sock_fd[s]
    <2>0. PICK e \in BOOLEAN : e = ~link.up
      OBVIOUS
    <2>1. PICK y : y = BoundTo(fds[n], ifr[s], e)
      OBVIOUS
    <2>2. fds' = [fds EXCEPT ![n] = y]
      BY <1>0, <1>2, <2>0, <2>1 DEF BoundTo
    <2>3. /\ y \in FdEntry /\ y.kind = fds[n].kind /\ y.owner = fds[n].owner
          /\ y.dev = ifr[s] /\ y.err = e
      <3>1. fds[n] \in FdEntry /\ ifr[s] \in 0..MaxIndex /\ e \in BOOLEAN
        BY <1>0
      <3> HIDE DEF n
      <3> QED  BY <2>1, <3>1, EntryBound
    <2>4. fds' \in [Numbers -> FdEntry] /\ fds'[n] = y
      BY <1>0, <2>2, <2>3
    <2>5. \A m \in Numbers \ {n} : fds'[m] = fds[m]
      BY <1>0, <2>2
    <2>6. StepOf(s)
      BY <1>0, <1>1, <1>2, <2>5 DEF StepOf, SenderOK, Goto
    <2>7. Local(s)'
      <3>1. Descriptor(s)' /\ Sent(s)'
        BY <1>0, <1>1, <1>2, <2>3, <2>4
           DEF SenderOK, Local, Descriptor, Sent, InCall, Goto, Mine
      <3>2. pc'[s] = "write" /\ sock_fd'[s] = n /\ link' = link /\ calm' = calm
        BY <1>0, <1>1, <1>2 DEF SenderOK, Goto
      <3>3. calm[s] => link.up /\ n > 0
        BY <1>0 DEF Local, Undisturbed
      <3>4. calm[s] => ~y.err
        BY <2>0, <2>3, <3>3
      <3>5. calm[s] => Works(n)'
        BY <1>2, <2>3, <2>4, <3>2, <3>3, <3>4 DEF Works
      <3>6. Undisturbed(s)'
        BY <3>2, <3>3, <3>5 DEF Undisturbed, Works
      <3> QED  BY <3>1, <3>6 DEF Local
    <2>8. SenderOK' /\ sock_fd'[s] >= 0
      BY <1>0, <1>1, <1>2 DEF SenderOK, Goto, Numbers
    <2>9. \A m \in Numbers : fds'[m].kind = "can" => fds'[m].owner \in Senders
      BY <1>0, <2>3, <2>4, <2>5, InvParts
    <2> QED  BY <1>1, <2>4, <2>6, <2>7, <2>8, <2>9, InvParts, StepKept
  <1>3. CASE /\ ifr[s] # link.index \/ fds[sock_fd[s]].kind # "can"
             /\ Abandon(s, "CANSocketBindError")
    <2>1. ~calm[s]
      BY <1>0, <1>3 DEF Local, Undisturbed, Descriptor, Mine
    <2> QED  BY <1>0, <1>1, <1>3, <2>1, AbandonKeeps DEF Codes
  <1> QED  BY <1>2, <1>3 DEF ConnectBind

LEMMA WriteKeeps ==
  ASSUME SenderInv, NEW s \in Senders, Write(s)
  PROVE  SenderInv'
  <1> DEFINE n == sock_fd[s]
  <1>0. /\ SenderOK /\ fds \in [Numbers -> FdEntry] /\ Local(s)
        /\ n \in Numbers /\ pc[s] = "write" /\ out[s] = 0
        /\ calm \in [Senders -> BOOLEAN] /\ out \in [Senders -> Nat]
    BY InvParts DEF Write, At, Local, Sent, InCall
  <1>1. UNCHANGED <<sock_fd, ifr, link, calm>>
    BY DEF Write
  <1>2. CASE Wrote(s)
    <2>1. /\ fds' = fds /\ retry' = retry
          /\ pc' = [pc EXCEPT ![s] = "idle"] /\ res' = [res EXCEPT ![s] = "ok"]
      BY <1>2 DEF Wrote, Return, Goto
    <2>2. n # 0 => fds[n].kind = "can"
      BY <1>0 DEF Local, Descriptor, Mine, Numbers
    <2>3. /\ out' \in [Senders -> Nat] /\ (n # 0 => out'[s] = 1)
          /\ \A t \in Senders \ {s} : out'[t] = out[t]
      BY <1>0, <1>2, <2>2 DEF Wrote
    <2>4. StepOf(s)
      BY <1>0, <1>1, <2>1, <2>3 DEF StepOf, SenderOK
    <2>5. Local(s)'
      BY <1>0, <1>1, <2>1, <2>3
         DEF SenderOK, Local, Descriptor, Sent, Undisturbed, InCall, Mine
    <2>6. SenderOK' /\ pc'[s] = "idle"
      BY <1>0, <1>1, <2>1 DEF SenderOK, Codes
    <2> QED  BY <1>0, <1>1, <2>1, <2>3, <2>4, <2>5, <2>6, InvParts, StepKept
  <1>3. CASE Full(s)
    <2>1. /\ fds' = fds /\ retry' = retry /\ out' = out
          /\ pc' = [pc EXCEPT ![s] = "idle"]
          /\ res' = [res EXCEPT ![s] = "CANSocketBufferFull"]
      BY <1>3 DEF Full, Return, Goto
    <2>2. StepOf(s)
      BY <1>0, <1>1, <2>1 DEF StepOf, SenderOK
    <2>3. Local(s)'
      BY <1>0, <1>1, <2>1
         DEF SenderOK, Local, Descriptor, Sent, Undisturbed, InCall, Mine
    <2>4. SenderOK' /\ pc'[s] = "idle"
      BY <1>0, <1>1, <2>1 DEF SenderOK, Codes
    <2> QED  BY <1>0, <1>1, <2>1, <2>2, <2>3, <2>4, InvParts, StepKept
  <1>4. CASE Broken(s)
    <2>1. PICK y : y = [fds[n] EXCEPT !.err = FALSE]
      OBVIOUS
    <2>2. fds' = [fds EXCEPT ![n] = y]
      BY <1>0, <1>4, <2>1 DEF Broken
    <2>3. y \in FdEntry /\ y.kind = fds[n].kind /\ y.owner = fds[n].owner
      <3>1. PICK e \in BOOLEAN : e = FALSE
        OBVIOUS
      <3>2. fds[n] \in FdEntry /\ y = [fds[n] EXCEPT !.err = e]
        BY <1>0, <2>1, <3>1
      <3> HIDE DEF n
      <3> QED  BY <3>2, EntryErr
    <2>4. /\ fds' \in [Numbers -> FdEntry] /\ fds'[n] = y
          /\ \A m \in Numbers \ {n} : fds'[m] = fds[m]
      BY <1>0, <2>2, <2>3
    <2>5. \/ retry' = [retry EXCEPT ![s] = TRUE] /\ Goto(s, "close") /\ res' = res
          \/ retry[s] /\ Return(s, "CANSocketWriteError") /\ retry' = retry
      BY <1>4 DEF Broken
    <2>6. out' = out /\ (calm[s] => ~retry[s])
      BY <1>0, <1>4 DEF Broken, Local, Undisturbed
    <2>7. StepOf(s)
      BY <1>0, <1>1, <2>4, <2>5, <2>6 DEF StepOf, SenderOK, Return, Goto
    <2>8. Local(s)'
      BY <1>0, <1>1, <2>3, <2>4, <2>5, <2>6
         DEF SenderOK, Local, Descriptor, Sent, Undisturbed, InCall, Mine, Return, Goto
    <2>9. SenderOK' /\ pc'[s] \in {"idle", "close"}
      BY <1>0, <1>1, <2>5 DEF SenderOK, Codes, Return, Goto
    <2>10. \A m \in Numbers : fds'[m].kind = "can" => fds'[m].owner \in Senders
      BY <1>0, <2>3, <2>4, InvParts
    <2> QED  BY <1>0, <1>1, <2>4, <2>6, <2>7, <2>8, <2>9, <2>10, StepKept
  <1> QED  BY <1>2, <1>3, <1>4 DEF Write

LEMMA SendKeeps ==
  ASSUME SenderInv, NEW s \in Senders, Send(s)
  PROVE  SenderInv'
  <1>0. /\ SenderOK /\ fds \in [Numbers -> FdEntry] /\ Local(s)
        /\ sock_fd[s] \in Numbers \cup {-1} /\ pc[s] = "idle"
        /\ calm \in [Senders -> BOOLEAN] /\ out \in [Senders -> Nat]
        /\ link.up \in BOOLEAN
    BY InvParts DEF Send, At
  <1>1. /\ UNCHANGED <<sock_fd, fds, link>>
        /\ retry' = [retry EXCEPT ![s] = FALSE] /\ ifr' = [ifr EXCEPT ![s] = 0]
        /\ res' = [res EXCEPT ![s] = "none"] /\ out' = [out EXCEPT ![s] = 0]
        /\ calm' = [calm EXCEPT ![s] = link.up]
        /\ pc' = [pc EXCEPT ![s] = IF sock_fd[s] <= 0 THEN "close" ELSE "write"]
    BY DEF Send, Fresh, Goto
  <1>2. StepOf(s)
    BY <1>0, <1>1 DEF StepOf, SenderOK
  <1>3. Local(s)'
    BY <1>0, <1>1 DEF SenderOK, Local, Descriptor, Sent, Undisturbed, InCall, Mine
  <1>4. SenderOK'
    BY <1>0, <1>1, SenderAssumption DEF SenderOK, Codes
  <1>5. pc'[s] \in {"index", "bind", "write"} => sock_fd'[s] >= 0
    BY <1>0, <1>1 DEF SenderOK, Numbers
  <1> QED  BY <1>0, <1>1, <1>2, <1>3, <1>4, <1>5, InvParts, StepKept

LEMMA DestroyKeeps ==
  ASSUME SenderInv, NEW s \in Senders, Destroy(s)
  PROVE  SenderInv'
  <1>0. /\ SenderOK /\ fds \in [Numbers -> FdEntry] /\ Local(s)
        /\ sock_fd[s] \in Numbers \cup {-1} /\ pc[s] = "idle"
        /\ calm \in [Senders -> BOOLEAN] /\ out \in [Senders -> Nat]
    BY InvParts DEF Destroy, At
  <1>1. /\ UNCHANGED link /\ sock_fd' = [sock_fd EXCEPT ![s] = -1]
        /\ retry' = [retry EXCEPT ![s] = FALSE] /\ ifr' = [ifr EXCEPT ![s] = 0]
        /\ res' = [res EXCEPT ![s] = "none"] /\ out' = [out EXCEPT ![s] = 0]
        /\ calm' = [calm EXCEPT ![s] = FALSE]
        /\ pc' = [pc EXCEPT ![s] = "gone"]
    BY DEF Destroy, Vanish, Fresh, Goto
  <1>2. /\ fds' \in [Numbers -> FdEntry]
        /\ sock_fd[s] \in Numbers => fds'[sock_fd[s]] = Free
        /\ \A n \in Numbers \ {sock_fd[s]} : fds'[n] = fds[n]
    BY <1>0, ClosedIs DEF Destroy
  <1>3. StepOf(s)
    BY <1>0, <1>1, <1>2 DEF StepOf, SenderOK
  <1>4. Local(s)'
    BY <1>0, <1>1 DEF SenderOK, Local, Descriptor, Sent, Undisturbed, InCall
  <1>5. SenderOK' /\ pc'[s] = "gone" /\ calm' \in [Senders -> BOOLEAN]
        /\ out' \in [Senders -> Nat]
    BY <1>0, <1>1, SenderAssumption DEF SenderOK, Codes
  <1>6. \A n \in Numbers : fds'[n] = fds[n] \/ fds'[n] = Free
    BY <1>2
  <1> QED
    BY <1>2, <1>3, <1>4, <1>5, <1>6, InvParts, Entries, StepKept

LEMMA ConstructKeeps ==
  ASSUME SenderInv, NEW s \in Senders, Construct(s)
  PROVE  SenderInv'
  <1>0. /\ SenderOK /\ fds \in [Numbers -> FdEntry] /\ Local(s) /\ pc[s] = "gone"
        /\ calm \in [Senders -> BOOLEAN] /\ out \in [Senders -> Nat]
    BY InvParts DEF Construct, At
  <1>1. /\ UNCHANGED <<retry, ifr, res, fds, link, out, calm>>
        /\ sock_fd' = [sock_fd EXCEPT ![s] = 0] /\ pc' = [pc EXCEPT ![s] = "idle"]
    BY DEF Construct, Goto, ghosts
  <1>2. sock_fd[s] = -1 /\ 0 \in Numbers /\ ~calm[s]
    BY <1>0, SenderAssumption DEF Local, Descriptor, Undisturbed, Numbers
  <1>3. StepOf(s)
    BY <1>0, <1>1, <1>2 DEF StepOf, SenderOK
  <1>4. Local(s)'
    BY <1>0, <1>1, <1>2 DEF SenderOK, Local, Descriptor, Sent, Undisturbed, InCall
  <1>5. SenderOK' /\ pc'[s] = "idle"
    BY <1>0, <1>1, <1>2 DEF SenderOK
  <1> QED  BY <1>0, <1>1, <1>3, <1>4, <1>5, InvParts, StepKept

-----------------------------------------------------------------------------
(* A step of the rest of the program changes no entry of a CAN socket but its device
   and its error, and that ends every calm. *)
LEMMA OutsideKeeps ==
  ASSUME SenderInv, UNCHANGED <<sender, out>>,
         link' \in [index : 0..MaxIndex, up : BOOLEAN, created : 1..MaxIndex],
         (link.up => link.index > 0)',
         fds' \in [Numbers -> FdEntry],
         \A n \in Numbers :
           \/ fds[n].kind # "can" /\ fds'[n].kind # "can"
           \/ fds'[n].kind = fds[n].kind /\ fds'[n].owner = fds[n].owner,
         \/ calm' = [s \in Senders |-> FALSE]
         \/ /\ calm' = calm /\ link' = link
            /\ \A n \in Numbers : fds[n].kind = "can" => fds'[n] = fds[n]
  PROVE  SenderInv'
  <1>0. /\ TypeOK /\ SenderOK /\ fds \in [Numbers -> FdEntry]
        /\ \A s \in Senders : sock_fd[s] \in Numbers \cup {-1} /\ Local(s)
        /\ UNCHANGED <<sock_fd, pc, retry, ifr, res, out>>
    BY TypeParts DEF SenderInv, TypeOK, SenderOK, sender
  <1>1. TypeOK'
    <2>1. calm' \in [Senders -> BOOLEAN]
      BY <1>0 DEF TypeOK
    <2> QED  BY <1>0, <2>1 DEF TypeOK, SenderOK, FdsOK, FdEntry
  <1>2. Owned' /\ NoLeak'
    BY <1>0 DEF SenderInv, Owned, NoLeak
  <1>3. ASSUME NEW s \in Senders PROVE Local(s)'
    <2>1. Descriptor(s)' /\ Sent(s)'
      BY <1>0, <1>3 DEF Local, Descriptor, Sent, Mine, Numbers
    <2>2. CASE calm' = [t \in Senders |-> FALSE]
      BY <2>1, <2>2 DEF Local, Undisturbed
    <2>3. CASE /\ calm' = calm /\ link' = link
               /\ \A n \in Numbers : fds[n].kind = "can" => fds'[n] = fds[n]
      <3>1. sock_fd[s] > 0 => fds'[sock_fd[s]] = fds[sock_fd[s]]
        BY <1>0, <1>3, <2>3 DEF Local, Descriptor, Mine, Numbers
      <3>2. Undisturbed(s)'
        BY <1>0, <1>3, <2>3, <3>1 DEF Local, Undisturbed, Works
      <3> QED  BY <2>1, <3>2 DEF Local
    <2> QED  BY <2>2, <2>3
  <1> QED  BY <1>1, <1>2, <1>3 DEF SenderInv

LEMMA FileKeeps ==
  ASSUME SenderInv, OpenFile \/ CloseFile
  PROVE  SenderInv'
  <1>0. /\ fds \in [Numbers -> FdEntry] /\ UNCHANGED <<sender, link, out, calm>>
        /\ link \in [index : 0..MaxIndex, up : BOOLEAN, created : 1..MaxIndex]
        /\ link.up => link.index > 0
    BY TypeParts DEF SenderInv, TypeOK, OpenFile, CloseFile, ghosts
  <1>1. PICK n \in Numbers, x \in {Free, File} :
          fds[n] \in {Free, File} /\ fds' = [fds EXCEPT ![n] = x]
    BY DEF OpenFile, CloseFile, Lowest, FreeNumbers, Closed
  <1>2. fds' \in [Numbers -> FdEntry]
    BY <1>0, <1>1, Entries
  <1>3. \A m \in Numbers : \/ fds[m].kind # "can" /\ fds'[m].kind # "can"
                           \/ fds'[m] = fds[m]
    BY <1>0, <1>1, Entries
  <1> QED  BY <1>0, <1>2, <1>3, OutsideKeeps

LEMMA LinkChangeKeeps ==
  ASSUME SenderInv, NEW index \in 0..MaxIndex, NEW up \in BOOLEAN, up => index > 0,
         LinkChange(index, up)
  PROVE  SenderInv'
  <1>0. /\ fds \in [Numbers -> FdEntry] /\ UNCHANGED <<sender, out>>
        /\ link.created \in 1..MaxIndex
        /\ calm' = [s \in Senders |-> FALSE]
    BY TypeParts DEF SenderInv, LinkChange
  <1>1. /\ link' \in [index : 0..MaxIndex, up : BOOLEAN, created : 1..MaxIndex]
        /\ (link.up => link.index > 0)'
    <2>1. PICK c \in 1..MaxIndex : c = IF index > link.created THEN index ELSE link.created
      BY <1>0, SenderAssumption
    <2>2. link' = [index |-> index, up |-> up, created |-> c]
      BY <2>1 DEF LinkChange
    <2> QED  BY <2>2
  <1>2. ASSUME NEW n \in Numbers
        PROVE  /\ fds'[n] \in FdEntry
               /\ fds'[n].kind = fds[n].kind /\ fds'[n].owner = fds[n].owner
    <2>1. fds'[n] \in {fds[n], BoundTo(fds[n], index, fds[n].err \/ ~up)}
      BY DEF LinkChange, BoundTo
    <2>2. PICK e \in BOOLEAN : e = (fds[n].err \/ ~up)
      OBVIOUS
    <2>3. fds'[n] = fds[n] \/ fds'[n] = BoundTo(fds[n], index, e)
      BY Zenon, <2>1, <2>2
    <2>4. fds[n] \in FdEntry
      BY <1>0
    <2> QED  BY <2>3, <2>4, EntryBound
  <1>3. fds' \in [Numbers -> FdEntry]
    BY <1>2 DEF LinkChange
  <1> QED  BY <1>0, <1>1, <1>2, <1>3, OutsideKeeps

LEMMA LinkKeeps ==
  ASSUME SenderInv, LinkUp \/ LinkDown \/ Remove \/ Create
  PROVE  SenderInv'
  <1>0. /\ link.index \in 0..MaxIndex /\ link.created \in 1..MaxIndex /\ MaxIndex \in Nat
    BY TypeParts, SenderAssumption DEF SenderInv
  <1>1. PICK index \in 0..MaxIndex, up \in BOOLEAN :
          (up => index > 0) /\ LinkChange(index, up)
    <2>1. CASE LinkUp  BY <1>0, <2>1 DEF LinkUp
    <2>2. CASE LinkDown  BY <1>0, <2>2 DEF LinkDown
    <2>3. CASE Remove
      <3>1. 0 \in 0..MaxIndex
        BY <1>0
      <3> QED  BY Zenon, <2>3, <3>1 DEF Remove
    <2>4. CASE Create
      <3>1. link.created + 1 \in 0..MaxIndex
        BY <1>0, <2>4 DEF Create
      <3> QED  BY <2>4, <3>1 DEF Create
    <2> QED  BY <2>1, <2>2, <2>3, <2>4
  <1> QED  BY <1>1, LinkChangeKeeps

LEMMA SenderInitially == Init => SenderInv
  <1> SUFFICES ASSUME Init PROVE SenderInv
    OBVIOUS
  <1>1. fds \in [Numbers -> FdEntry] /\ \A n \in Numbers : fds[n].kind # "can"
    BY Entries DEF Init
  <1>2. SenderOK
    BY SenderAssumption DEF Init, SenderOK, Numbers, Codes
  <1>3. link \in [index : 0..MaxIndex, up : BOOLEAN, created : 1..MaxIndex] /\ link.index > 0
    <2>1. 1 \in 0..MaxIndex /\ 1 \in 1..MaxIndex
      BY SenderAssumption
    <2>2. PICK b \in BOOLEAN : b = TRUE
      OBVIOUS
    <2>3. link = [index |-> 1, up |-> b, created |-> 1]
      BY Zenon, <2>2 DEF Init
    <2> QED  BY <2>1, <2>3
  <1>4. TypeOK
    BY <1>1, <1>2, <1>3 DEF Init, TypeOK, FdsOK, FdEntry
  <1>5. ASSUME NEW s \in Senders PROVE Local(s)
    <2>1. /\ sock_fd[s] = 0 /\ pc[s] = "idle" /\ res[s] = "none" /\ ~calm[s]
      BY DEF Init
    <2> QED  BY <2>1 DEF Local, Descriptor, Sent, Undisturbed, InCall
  <1> QED  BY <1>1, <1>3, <1>4, <1>5 DEF SenderInv, Owned, NoLeak

LEMMA SenderStep == SenderInv /\ [Next]_vars => SenderInv'
  <1> SUFFICES ASSUME SenderInv, [Next]_vars PROVE SenderInv'
    OBVIOUS
  <1>1. CASE UNCHANGED vars
    <2>1. UNCHANGED <<sender, out, link, fds, calm>>
      BY <1>1 DEF vars, ghosts
    <2>2. /\ fds \in [Numbers -> FdEntry]
          /\ link \in [index : 0..MaxIndex, up : BOOLEAN, created : 1..MaxIndex]
          /\ link.up => link.index > 0
      BY TypeParts DEF SenderInv, TypeOK
    <2> QED  BY <2>1, <2>2, OutsideKeeps
  <1>2. ASSUME NEW s \in Senders,
               Send(s) \/ Connect(s) \/ Write(s) \/ Destroy(s) \/ Construct(s)
        PROVE  SenderInv'
    BY <1>2, SendKeeps, CloseKeeps, OpenKeeps, IndexKeeps, BindKeeps, WriteKeeps,
       DestroyKeeps, ConstructKeeps DEF Connect
  <1> QED  BY <1>1, <1>2, FileKeeps, LinkKeeps DEF Next

-----------------------------------------------------------------------------
(* The inductive invariant of the process' Senders: what each knows of its
   descriptor, that the table has no CAN socket nobody uses, and how far the frame
   of each send() has got. *)
THEOREM SenderInvariant == Spec => []SenderInv
  BY SenderInitially, SenderStep, PTL DEF Spec

(* Every variable keeps its type, and a thread is at ioctl, bind or write only with
   a descriptor number. *)
THEOREM TypeCorrect == Spec => []TypeOK
  <1>1. SenderInv => TypeOK  BY DEF SenderInv
  <1> QED  BY <1>1, SenderInvariant, PTL

(* A positive sock_fd is the Sender's own socket, whatever numbers the other threads
   close and reuse. *)
THEOREM DescriptorCorrect == Spec => []OwnsDescriptor
  <1>1. SenderInv => OwnsDescriptor
    BY DEF SenderInv, Local, Descriptor, OwnsDescriptor
  <1> QED  BY <1>1, SenderInvariant, PTL

(* No path of ensure_connected, no retry of send() and no destructor leaks a
   socket: each one that is open is in use by a Sender that exists. *)
THEOREM LeakCorrect == Spec => []NoLeak
  <1>1. SenderInv => NoLeak  BY DEF SenderInv
  <1> QED  BY <1>1, SenderInvariant, PTL

(* send() answers success if and only if its frame is on the bus, exactly once. *)
THEOREM SentCorrect == Spec => []SentOnce
  <1>1. SenderInv => SentOnce
    BY DEF SenderInv, Local, Sent, SentOnce, At
  <1> QED  BY <1>1, SenderInvariant, PTL

(* One reconnection is enough while the link is left alone. *)
THEOREM RecoveryCorrect == Spec => []SendRecovers
  <1>1. SenderInv => SendRecovers
    BY DEF SenderInv, Local, Undisturbed, SendRecovers, At
  <1> QED  BY <1>1, SenderInvariant, PTL
=============================================================================
