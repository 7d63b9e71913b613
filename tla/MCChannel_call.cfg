SPECIFICATION Spec
CONSTANTS
  c1 = c1
  c2 = c2
  s = s
  P = P
  Q = Q
  Threads = {c1, c2, s}
  Procs = {P, Q}
  ProcOf <- ThreeProcOf
  FirstOwner <- Apart
  Prog <- CallProg
  TxidBits = 3
  UserTxids = {1}
  MaxPending = 1
  MaxQueue = 2
  MaxCalls = 2
  Killable = {P}
  NoMsg = NoMsg
CHECK_DEADLOCK FALSE
INVARIANTS
  WaiterListSound
  NoCallWithoutPeer
  ReplyAnswersCall
  DeliveredReplyReturned
PROPERTIES
  PeerClosedFinal
