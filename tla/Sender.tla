------------------------------- MODULE Sender -------------------------------
(***************************************************************************)
(* HyCAN::Sender: the sending half of an interface.  send() connects its   *)
(* Socket when it has none, writes the frame, and after an error that      *)
(* means "this socket is dead" connects once more and writes once more.    *)
(*                                                                         *)
(* A process has several Senders, each used by a thread of its own.  What  *)
(* they share, with each other and with the rest of the program, is the    *)
(* process' descriptor table, in which a number is free as soon as it is   *)
(* closed and socket() takes the lowest free one.  The link they write to  *)
(* goes up and down, is removed and is created anew under them.  A step is *)
(* one system call.                                                        *)
(***************************************************************************)
EXTENDS Integers

CONSTANTS
  Senders,    \* the Sender objects of the process
  NoSender,   \* the owner of a descriptor that is no CAN socket
  MaxFd,      \* bound: the largest descriptor number
  MaxIndex    \* bound: how often the device is created

ASSUME SenderAssumption ==
  /\ NoSender \notin Senders
  /\ MaxFd \in Nat /\ MaxIndex \in Nat \ {0}

VARIABLES
  sock_fd,   \* each Sender's socket.sock_fd
  pc,        \* where its thread is; "gone" when the object does not exist
  retry,     \* send() has connected again after a fatal error
  ifr,       \* the index ioctl() returned
  res,       \* how its last send() ended
  fds,       \* the process' descriptor table
  link,      \* the device: its index (0: there is none), whether it is up, how
             \* often it was created
  out,       \* history: frames this send() has put on the bus
  calm       \* history: this send() began with the link up, which has not
             \* changed since, and opened no socket with number 0

sender == <<sock_fd, pc, retry, ifr, res>>
ghosts == <<out, calm>>
vars   == <<sender, fds, link, ghosts>>

Numbers == 0..MaxFd

(* A descriptor: what it refers to, whose socket it is, the device it is bound
   to, and whether the socket holds an error to report. *)
Entry(kind, owner, dev, err) ==
  [kind |-> kind, owner |-> owner, dev |-> dev, err |-> err]
Free         == Entry("free", NoSender, 0, FALSE)
File         == Entry("file", NoSender, 0, FALSE)
CanSocket(s) == Entry("can", s, 0, FALSE)

FreeNumbers == {n \in Numbers : fds[n] = Free}
Lowest(n)   == n \in FreeNumbers /\ \A other \in FreeNumbers : n <= other

Init ==
  /\ sock_fd = [s \in Senders |-> 0]
  /\ pc = [s \in Senders |-> "idle"]
  /\ retry = [s \in Senders |-> FALSE]
  /\ ifr = [s \in Senders |-> 0]
  /\ res = [s \in Senders |-> "none"]
  /\ fds = [n \in Numbers |-> IF n = 0 THEN File ELSE Free]
  /\ link = [index |-> 1, up |-> TRUE, created |-> 1]
  /\ out = [s \in Senders |-> 0]
  /\ calm = [s \in Senders |-> FALSE]

At(s, at)       == pc[s] = at
Goto(s, to)     == pc' = [pc EXCEPT ![s] = to]
Return(s, code) == Goto(s, "idle") /\ res' = [res EXCEPT ![s] = code]
Closed(n)       == IF n \in Numbers THEN [fds EXCEPT ![n] = Free] ELSE fds

-----------------------------------------------------------------------------
(***************************************************************************)
(* Socket::ensure_connected: close, socket, ioctl, bind.                   *)
(***************************************************************************)
\* Mutant of ConnectClose: the old socket is not closed.
ConnectNoClose(s) ==
  /\ At(s, "close") /\ Goto(s, "open")
  /\ sock_fd' = [sock_fd EXCEPT ![s] = -1]
  /\ UNCHANGED <<retry, ifr, res, fds, link, ghosts>>

ConnectClose(s) ==
  /\ At(s, "close") /\ Goto(s, "open")
  /\ \/ /\ sock_fd[s] > 0
        /\ fds' = Closed(sock_fd[s])
        /\ sock_fd' = [sock_fd EXCEPT ![s] = -1]
     \/ sock_fd[s] <= 0 /\ UNCHANGED <<fds, sock_fd>>
  /\ UNCHANGED <<retry, ifr, res, link, ghosts>>

\* Mutant of ConnectOpen: the failure of socket() is not noticed.
ConnectOpenUnchecked(s) ==
  /\ At(s, "open") /\ Goto(s, "index")
  /\ \/ \E n \in Numbers :
          /\ Lowest(n)
          /\ fds' = [fds EXCEPT ![n] = CanSocket(s)]
          /\ sock_fd' = [sock_fd EXCEPT ![s] = n]
     \/ /\ FreeNumbers = {}
        /\ sock_fd' = [sock_fd EXCEPT ![s] = -1] /\ UNCHANGED fds
  /\ UNCHANGED <<retry, ifr, res, link, ghosts>>

ConnectOpen(s) ==
  /\ At(s, "open")
  /\ \/ \E n \in Numbers :
          /\ Lowest(n)
          /\ fds' = [fds EXCEPT ![n] = CanSocket(s)]
          /\ sock_fd' = [sock_fd EXCEPT ![s] = n]
          /\ calm' = [calm EXCEPT ![s] = @ /\ n > 0]
          /\ Goto(s, "index") /\ UNCHANGED res
     \/ /\ FreeNumbers = {}
        /\ sock_fd' = [sock_fd EXCEPT ![s] = -1]
        /\ Return(s, "CANSocketCreateError") /\ UNCHANGED <<fds, calm>>
  /\ UNCHANGED <<retry, ifr, link, out>>

Abandon(s, code) ==
  /\ fds' = Closed(sock_fd[s])
  /\ sock_fd' = [sock_fd EXCEPT ![s] = -1]
  /\ Return(s, code)

\* Mutant of ConnectIndex: the failure leaves the closed descriptor in sock_fd.
ConnectIndexStale(s) ==
  /\ At(s, "index")
  /\ \/ /\ link.index > 0 /\ fds[sock_fd[s]].kind = "can"
        /\ ifr' = [ifr EXCEPT ![s] = link.index]
        /\ Goto(s, "bind") /\ UNCHANGED <<sock_fd, res, fds>>
     \/ /\ link.index = 0 \/ fds[sock_fd[s]].kind # "can"
        /\ fds' = Closed(sock_fd[s])
        /\ Return(s, "CANInterfaceIndexError") /\ UNCHANGED <<ifr, sock_fd>>
  /\ UNCHANGED <<retry, link, ghosts>>

(* The ioctl fails when there is no such device, and on a descriptor that
   somebody else has closed or that is no socket any more. *)
ConnectIndex(s) ==
  /\ At(s, "index")
  /\ \/ /\ link.index > 0 /\ fds[sock_fd[s]].kind = "can"
        /\ ifr' = [ifr EXCEPT ![s] = link.index]
        /\ Goto(s, "bind") /\ UNCHANGED <<sock_fd, res, fds>>
     \/ /\ link.index = 0 \/ fds[sock_fd[s]].kind # "can"
        /\ Abandon(s, "CANInterfaceIndexError") /\ UNCHANGED ifr
  /\ UNCHANGED <<retry, link, ghosts>>

(* A socket that is bound to a device that is down has ENETDOWN to report. *)
ConnectBind(s) ==
  /\ At(s, "bind")
  /\ \/ /\ ifr[s] = link.index /\ fds[sock_fd[s]].kind = "can"
        /\ fds' = [fds EXCEPT ![sock_fd[s]].dev = ifr[s],
                              ![sock_fd[s]].err = ~link.up]
        /\ Goto(s, "write") /\ UNCHANGED <<sock_fd, res>>
     \/ /\ ifr[s] # link.index \/ fds[sock_fd[s]].kind # "can"
        /\ Abandon(s, "CANSocketBindError")
  /\ UNCHANGED <<retry, ifr, link, ghosts>>

-----------------------------------------------------------------------------
(***************************************************************************)
(* send().                                                                 *)
(***************************************************************************)
(* The locals and the history of a call that begins. *)
Fresh(s, quiet) ==
  /\ retry' = [retry EXCEPT ![s] = FALSE]
  /\ ifr' = [ifr EXCEPT ![s] = 0]
  /\ res' = [res EXCEPT ![s] = "none"]
  /\ out' = [out EXCEPT ![s] = 0]
  /\ calm' = [calm EXCEPT ![s] = quiet]

Send(s) ==
  /\ At(s, "idle") /\ Fresh(s, link.up)
  /\ Goto(s, IF sock_fd[s] <= 0 THEN "close" ELSE "write")
  /\ UNCHANGED <<sock_fd, fds, link>>

(* What a write to descriptor n does: it puts the frame on the bus, appends it
   to a file, finds no room, or fails with an error that send() calls fatal
   (EBADF, also from a file that is not open for writing; ENETDOWN, which a
   socket reports once even if its device is up again; ENXIO, when the device the
   socket was bound to has been removed). *)
Works(n) == /\ fds[n].kind = "can" /\ ~fds[n].err
            /\ fds[n].dev = link.index /\ link.up

Wrote(s) ==
  /\ \/ fds[sock_fd[s]].kind = "file" /\ UNCHANGED out
     \/ Works(sock_fd[s]) /\ out' = [out EXCEPT ![s] = @ + 1]
  /\ Return(s, "ok") /\ UNCHANGED <<fds, retry>>

Full(s) ==
  /\ Works(sock_fd[s])
  /\ Return(s, "CANSocketBufferFull") /\ UNCHANGED <<fds, retry, out>>

\* Mutant of Broken: the answer to a fatal error is an error.
BrokenNoRetry(s) ==
  /\ ~Works(sock_fd[s])
  /\ fds' = [fds EXCEPT ![sock_fd[s]].err = FALSE]
  /\ Return(s, "CANSocketWriteError")
  /\ UNCHANGED <<retry, out>>

Broken(s) ==
  /\ ~Works(sock_fd[s])
  /\ fds' = [fds EXCEPT ![sock_fd[s]].err = FALSE]
  /\ \/ /\ ~retry[s]
        /\ retry' = [retry EXCEPT ![s] = TRUE]
        /\ Goto(s, "close") /\ UNCHANGED res
     \/ retry[s] /\ Return(s, "CANSocketWriteError") /\ UNCHANGED retry
  /\ UNCHANGED out

\* Mutant of Write: the frame is written again after a first success.
WriteTwice(s) ==
  /\ At(s, "write")
  /\ \/ /\ Works(sock_fd[s]) /\ ~retry[s]
        /\ out' = [out EXCEPT ![s] = @ + 1]
        /\ retry' = [retry EXCEPT ![s] = TRUE]
        /\ UNCHANGED <<pc, res, fds>>
     \/ Works(sock_fd[s]) /\ retry[s] /\ Wrote(s)
     \/ Full(s) \/ Broken(s)
  /\ UNCHANGED <<sock_fd, ifr, link, calm>>

Write(s) ==
  /\ At(s, "write")
  /\ Wrote(s) \/ Full(s) \/ Broken(s)
  /\ UNCHANGED <<sock_fd, ifr, link, calm>>

-----------------------------------------------------------------------------
(***************************************************************************)
(* The object's life.  A Sender that never connected still has sock_fd 0,  *)
(* and its destructor closes that descriptor.                              *)
(***************************************************************************)
(* What the object knew goes with it. *)
Vanish(s) ==
  /\ Goto(s, "gone") /\ Fresh(s, FALSE)
  /\ sock_fd' = [sock_fd EXCEPT ![s] = -1]

Destroy(s) ==
  /\ At(s, "idle") /\ Vanish(s)
  /\ fds' = Closed(sock_fd[s])
  /\ UNCHANGED link

Construct(s) ==
  /\ At(s, "gone") /\ Goto(s, "idle")
  /\ sock_fd' = [sock_fd EXCEPT ![s] = 0]
  /\ UNCHANGED <<retry, ifr, res, fds, link, ghosts>>

-----------------------------------------------------------------------------
(* The rest of the program opens files and closes the ones it has (external). *)
OpenFile ==
  /\ \E n \in Numbers : Lowest(n) /\ fds' = [fds EXCEPT ![n] = File]
  /\ UNCHANGED <<sender, link, ghosts>>

CloseFile ==
  /\ \E n \in Numbers : fds[n] = File /\ fds' = Closed(n)
  /\ UNCHANGED <<sender, link, ghosts>>

(* The device (external).  A socket is told when its device goes down, and it is
   unbound when the device is removed. *)
LinkChange(index, up) ==
  /\ link' = [index |-> index, up |-> up,
              created |-> IF index > link.created THEN index ELSE link.created]
  /\ fds' = [n \in Numbers |->
               IF fds[n].dev > 0 /\ fds[n].dev = link.index
               THEN [fds[n] EXCEPT !.dev = index, !.err = @ \/ ~up] ELSE fds[n]]
  /\ calm' = [s \in Senders |-> FALSE]
  /\ UNCHANGED <<sender, out>>

LinkUp   == link.index > 0 /\ ~link.up /\ LinkChange(link.index, TRUE)
LinkDown == link.up /\ LinkChange(link.index, FALSE)
Remove   == link.index > 0 /\ LinkChange(0, FALSE)
Create   == /\ link.index = 0 /\ link.created < MaxIndex
            /\ LinkChange(link.created + 1, FALSE)

-----------------------------------------------------------------------------
Connect(s) == ConnectClose(s) \/ ConnectOpen(s) \/ ConnectIndex(s) \/ ConnectBind(s)

Next ==
  \/ \E s \in Senders : Send(s) \/ Connect(s) \/ Write(s) \/ Destroy(s) \/ Construct(s)
  \/ OpenFile \/ CloseFile
  \/ LinkUp \/ LinkDown \/ Remove \/ Create

Spec == Init /\ [][Next]_vars

-----------------------------------------------------------------------------
(***************************************************************************)
(* Properties.                                                             *)
(***************************************************************************)
Codes == {"none", "ok", "CANSocketCreateError", "CANInterfaceIndexError",
          "CANSocketBindError", "CANSocketBufferFull", "CANSocketWriteError"}

SenderOK ==
  /\ sock_fd \in [Senders -> Numbers \cup {-1}]
  /\ pc \in [Senders -> {"idle", "close", "open", "index", "bind", "write", "gone"}]
  /\ retry \in [Senders -> BOOLEAN]
  /\ ifr \in [Senders -> 0..MaxIndex]
  /\ res \in [Senders -> Codes]

FdsOK ==
  fds \in [Numbers -> [kind : {"free", "file", "can"}, owner : Senders \cup {NoSender},
                       dev : 0..MaxIndex, err : BOOLEAN]]

(* The variables keep their types; in particular a thread is at the ioctl, the
   bind or the write only with a descriptor number, never with -1. *)
TypeOK ==
  /\ SenderOK /\ FdsOK
  /\ link \in [index : 0..MaxIndex, up : BOOLEAN, created : 1..MaxIndex]
  /\ out \in [Senders -> Nat] /\ calm \in [Senders -> BOOLEAN]
  /\ \A s \in Senders : pc[s] \in {"index", "bind", "write"} => sock_fd[s] >= 0

Mine(s) == fds[sock_fd[s]].kind = "can" /\ fds[sock_fd[s]].owner = s

(* A positive sock_fd is a socket the Sender opened itself and has not closed,
   whatever descriptors the other threads close and reuse meanwhile: no frame is
   written into somebody else's file, and no error path of ensure_connected or
   destructor closes it. *)
OwnsDescriptor ==
  \A s \in Senders : pc[s] # "gone" /\ sock_fd[s] > 0 => Mine(s)

(* No reconnection, error path or destructor leaks a socket: every CAN socket
   the process has open, except one that got number 0, is the one its Sender
   uses. *)
NoLeak ==
  \A n \in Numbers \ {0} :
    fds[n].kind = "can" => /\ sock_fd[fds[n].owner] = n
                           /\ pc[fds[n].owner] # "gone"

(* send() answers success when the frame is on the bus, once, and an error when
   it is not, also when it had to connect and write again; not so for a socket
   with number 0, which somebody else may have closed. *)
SentOnce ==
  \A s \in Senders : At(s, "idle") /\ res[s] # "none" /\ sock_fd[s] # 0 =>
    out[s] = IF res[s] = "ok" THEN 1 ELSE 0

(* One reconnection is enough: a send() during which the link was up all the
   time delivers the frame or reports a full buffer (or a full descriptor
   table), whatever has happened to the device since the socket was bound.  Here
   too a socket with number 0 is excepted. *)
SendRecovers ==
  \A s \in Senders : At(s, "idle") /\ calm[s] =>
    res[s] \in {"ok", "CANSocketBufferFull", "CANSocketCreateError"}
=============================================================================
