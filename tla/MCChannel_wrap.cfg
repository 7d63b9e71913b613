SPECIFICATION Spec
CONSTANTS
  c1 = c1
  c2 = c2
  s = s
  P = P
  Q = Q
  Threads = {c1, c2}
  Procs = {P, Q}
  ProcOf <- TwoProcOf
  FirstOwner <- Together
  Prog <- WrapProg
  TxidBits = 2
  UserTxids = {1}
  MaxPending = 2
  MaxQueue = 1
  MaxCalls = 5
  Killable = {}
  NoMsg = NoMsg
CHECK_DEADLOCK FALSE
INVARIANTS
  TypeOK
  TxidsUnique
