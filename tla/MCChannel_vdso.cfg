SPECIFICATION Spec
CONSTANTS
  c1 = c1
  c2 = c2
  s = s
  P = P
  Q = Q
  Threads = {c1, c2, s}
  Procs = {P, Q}
  ProcOf <- ThreeProcOf
  FirstOwner <- Together
  Prog <- TransferProg
  TxidBits = 3
  UserTxids = {1}
  MaxPending = 1
  MaxQueue = 1
  MaxCalls = 2
  Killable = {}
  NoMsg = NoMsg
CHECK_DEADLOCK FALSE
INVARIANT VdsoKillDeserved
