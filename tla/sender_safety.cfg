\* Two Senders, a table of four descriptors that files can fill, and a device
\* that is created twice.
SPECIFICATION Spec
CONSTANTS
  snd1 = snd1  snd2 = snd2
  Senders = {snd1, snd2}
  NoSender = NoSender
  MaxFd = 3
  MaxIndex = 2
SYMMETRY SenderSymmetry
INVARIANTS TypeOK OwnsDescriptor NoLeak SentOnce SendRecovers
