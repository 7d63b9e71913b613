SPECIFICATION Spec
CONSTANTS
  t1 = t1
  t2 = t2
  t3 = t3
  Threads = {t1, t2, t3}
  Objects = {b1}
  Keys = {1}
  Observers = {o1, o2}
  IrqPackets = {}
  Prog <- PacketProg
  kMaxAllocatedPacketCountPerPort = 1
  MaxPortObservers = 2
  SizeBits = 2
  MaxSema = 2
  Null = Null
SYMMETRY Symmetry
CHECK_DEADLOCK FALSE
INVARIANTS
  TypeOK
  DeliveredOnce
  ObserversSafe
  CloseReclaims
  EphemeralCounted
  NoLostPacket
