SPECIFICATION FairSpec
CONSTANTS
  t1 = t1
  t2 = t2
  t3 = t3
  Threads = {t1, t2, t3}
  Objects = {b1}
  Keys = {1}
  Observers = {o1, o2}
  IrqPackets = {i1}
  Prog <- LiveProg
  kMaxAllocatedPacketCountPerPort = 1
  MaxPortObservers = 2
  SizeBits = 2
  MaxSema = 2
  Null = Null
CHECK_DEADLOCK FALSE
INVARIANT NoLostPacket
PROPERTIES
  DequeueUnblocked
  CloseCompletes
