---------------------------- MODULE ChannelProofs ----------------------------
(***************************************************************************)
(* What Channel guarantees of calls, ownership and the READABLE signal for *)
(* any number of threads and processes, any width of txid_, any queue and  *)
(* any number of calls.                                                    *)
(*                                                                         *)
(* Everything rests on one inductive invariant, IInv.  The properties are  *)
(* not inductive by themselves: that no call waits without a peer needs to *)
(* know who holds get_lock() while the two halves of a close run, and that *)
(* the waiter erased on a timeout is linked needs to know how its status   *)
(* and its list membership change together.  One lemma per action shows    *)
(* that it preserves IInv.                                                 *)
(***************************************************************************)
EXTENDS Channel, FiniteSetTheorems, WellFoundedInduction, TLAPS

\* A thread refers to an endpoint exactly while it is inside an operation on it.
InOperation ==
  {"read", "write", "call", "notify_write", "notify_call", "waiting", "ending",
   "recv_observers", "recv_waiters", "recv_add", "close"}
RefInv == \A t \in Threads : pc[t] \in InOperation <=> ref[t] \in Endpoints

\* get_lock() is held by at most one thread: one that notifies observers, or
\* one that is between the two halves of on_zero_handles.
Notifying(t) == pc[t] \in {"notify_write", "notify_call"}
Zeroing(e)   == handle[e] = "zeroing"
LockInv ==
  /\ \A t \in Threads : Notifying(t) => glock /\ \A e \in Endpoints : ~Zeroing(e)
  /\ \A t, u \in Threads : Notifying(t) /\ Notifying(u) => t = u
  /\ \A e \in Endpoints : Zeroing(e) => glock /\ ~Zeroing(Other(e))

\* A call waits only on an endpoint with a peer, or whose peer is just being
\* closed by the holder of get_lock().
CallHasPeer ==
  \A e \in Endpoints :
    /\ waiters[e] # {} => peer[e] \/ Zeroing(Other(e))
    /\ Zeroing(e) => waiters[e] = {}

\* owner_ names the process whose table has the handle, if one has it.
OwnerInv == \A e \in Endpoints : handle[e] \in Procs => owner[e] = handle[e]

\* The inductive invariant.
IInv ==
  /\ TypeOK /\ RefInv /\ LockInv
  /\ WaiterListSound /\ DeliveredReplyReturned /\ CallHasPeer /\ TxidsUnique
  /\ ReadableIffMessages /\ OwnerInv

USE DEF endVars, waitVars, obsVars, lockVars, retVars, procVars
-----------------------------------------------------------------------------
\* The two endpoints are each other's peer.
LEMMA EndpointFacts ==
  \A e \in Endpoints : Other(e) \in Endpoints /\ Other(e) # e /\ Other(Other(e)) = e
                      /\ e # NoChannel /\ \A i \in Endpoints : i = e \/ i = Other(e)
  BY DEF Endpoints, Other, NoChannel

\* A process is not mistaken for a state of a handle outside all tables.
LEMMA ProcFacts ==
  /\ \A t \in Threads : ProcOf[t] \in Procs
  /\ \A p \in Procs : p \notin HandleLimbo
  BY ConstantsAssumption

\* A nonempty set of naturals has a least element.
LEMMA LeastNat ==
  ASSUME NEW S \in SUBSET Nat, S # {}
  PROVE  \E k \in S : \A j \in S : k <= j
<1>1. PICK k \in S : \A j \in S : ~(<<j, k>> \in OpToRel(<, Nat))
  BY NatLessThanWellFounded, WFMin, Zenon
<1>2. \A j \in S : ~(j < k)
  <2>1. SUFFICES ASSUME NEW j \in S, j < k PROVE FALSE
    OBVIOUS
  <2>2. <<j, k>> \in OpToRel(<, Nat)
    BY <2>1, Zenon DEF OpToRel
  <2> QED BY <1>1, <2>2, Zenon
<1> QED BY <1>2

\* alloc_txid terminates and its txid is not in use: the other threads are too
\* few to occupy every kernel generated txid, wherever the counter stands.
LEMMA AllocTxidSound ==
  ASSUME EndpointType, WaiterType, NEW e \in Endpoints,
         NEW t \in Threads, t \notin waiters[e]
  PROVE  /\ AllocTxid(e) \in 1 .. TxidCount
         /\ GenerateTxid(e, AllocTxid(e)) \notin InUse(e)
<1> DEFINE kernel == kMinKernelTxid .. TxidCount - 1
<1>1. IsFiniteSet(waiters[e]) /\ Cardinality(waiters[e]) < kMinKernelTxid
       /\ Cardinality(waiters[e]) \in Nat
  <2>1. waiters[e] \in SUBSET (Threads \ {t})
    BY DEF WaiterType
  <2>2. IsFiniteSet(Threads \ {t}) /\ Cardinality(Threads \ {t}) = Cardinality(Threads) - 1
        /\ Cardinality(Threads) \in Nat
    BY ConstantsAssumption, FS_RemoveElement, FS_CardinalityType
  <2>3. IsFiniteSet(waiters[e]) /\ Cardinality(waiters[e]) <= Cardinality(Threads \ {t})
    BY <2>1, <2>2, FS_Subset
  <2>4. Cardinality(waiters[e]) \in Nat
    BY <2>3, FS_CardinalityType
  <2> QED BY <2>2, <2>3, <2>4, ConstantsAssumption, TxidAssumption
<1>2. IsFiniteSet(InUse(e)) /\ Cardinality(InUse(e)) < kMinKernelTxid
       /\ Cardinality(InUse(e)) \in Nat
  <2> DEFINE f == [w \in waiters[e] |-> wtxid[w]]
  <2>1. f \in Surjection(waiters[e], InUse(e))
    BY DEF Surjection, InUse
  <2>2. IsFiniteSet(InUse(e)) /\ Cardinality(InUse(e)) <= Cardinality(waiters[e])
    BY <1>1, <2>1, FS_Surjection
  <2>3. Cardinality(InUse(e)) \in Nat
    BY <2>2, FS_CardinalityType
  <2> QED BY <1>1, <2>2, <2>3, ConstantsAssumption
<1>3. Fresh(e) # {}
  <2>1. SUFFICES ASSUME Fresh(e) = {} PROVE FALSE
    OBVIOUS
  <2>2. ASSUME NEW y \in kernel PROVE y \in InUse(e)
    <3> DEFINE k == IF y > txid[e] THEN y - txid[e] ELSE y - txid[e] + TxidCount
    <3>1. txid[e] \in 0 .. TxidCount - 1
      BY DEF EndpointType, Txids
    <3>2. k \in 1 .. TxidCount /\ TxidAfter(e, k) = y
      BY <3>1, ConstantsAssumption DEF TxidAfter
    <3>3. GenerateTxid(e, k) = y
      BY <3>2, ConstantsAssumption DEF GenerateTxid
    <3> QED BY <2>1, <3>2, <3>3 DEF Fresh
  <2>3. kernel \in SUBSET InUse(e)
    BY <2>2
  <2>4. Cardinality(kernel) <= Cardinality(InUse(e))
    BY <1>2, <2>3, FS_Subset
  <2>5. Cardinality(kernel) = kMinKernelTxid
    <3>1. kMinKernelTxid \in Int /\ TxidCount - 1 \in Int
      BY ConstantsAssumption
    <3>2. Cardinality(kernel) =
            IF kMinKernelTxid > TxidCount - 1 THEN 0 ELSE TxidCount - 1 - kMinKernelTxid + 1
      BY <3>1, FS_Interval
    <3> QED BY <3>2, ConstantsAssumption
  <2> QED BY <1>2, <2>4, <2>5, ConstantsAssumption
<1>4. \E k \in Fresh(e) : \A j \in Fresh(e) : k <= j
  <2>1. Fresh(e) \in SUBSET Nat
    BY ConstantsAssumption DEF Fresh
  <2> QED BY <1>3, <2>1, LeastNat
<1>5. AllocTxid(e) \in Fresh(e)
  BY <1>4 DEF AllocTxid
<1> QED BY <1>5 DEF Fresh

\* GenerateTxid yields a kernel generated txid of the right width.
LEMMA GenerateTxidType ==
  ASSUME EndpointType, NEW e \in Endpoints, NEW k \in 1 .. TxidCount
  PROVE  /\ TxidAfter(e, k) \in Txids /\ GenerateTxid(e, k) \in Txids
         /\ IsKernelGenerated(GenerateTxid(e, k))
<1>1. TxidAfter(e, k) \in 0 .. TxidCount - 1
  BY ConstantsAssumption DEF EndpointType, Txids, TxidAfter
<1> QED BY <1>1, ConstantsAssumption DEF GenerateTxid, Txids, IsKernelGenerated

\* A queue something was appended to is not empty.
LEMMA AppendNotEmpty ==
  ASSUME NEW S, NEW q \in Seq(S), NEW x \in S
  PROVE  Append(q, x) # <<>>
<1>1. Len(Append(q, x)) = Len(q) + 1 /\ Len(q) \in Nat
  OBVIOUS
<1>2. Len(<<>>) = 0
  OBVIOUS
<1> QED
  BY <1>1, <1>2

\* What a program writes is a message.
LEMMA OutgoingType ==
  ASSUME TypeOK, NEW t \in Threads, NEW m \in Outgoing(t)
  PROVE  m \in Message
  BY ConstantsAssumption DEF Outgoing, TypeOK, ThreadType, Message
-----------------------------------------------------------------------------
\* The invariant holds when the channel has just been created.
LEMMA InitInv == Init => IInv
<1> SUFFICES ASSUME Init PROVE IInv
  OBVIOUS
<1>1. TypeOK
  <2>1. EndpointType
    BY ConstantsAssumption DEF Init, EndpointType, Signals, Txids
  <2>2. WaiterType
    BY ConstantsAssumption DEF Init, WaiterType, Statuses, Txids
  <2>3. ObserverType
    BY DEF Init, ObserverType
  <2>4. ThreadType
    BY DEF Init, ThreadType, Statuses, PCs
  <2>5. SystemType
    <3>1. glock \in BOOLEAN
      BY Zenon DEF Init
    <3> QED
      BY <3>1, ConstantsAssumption DEF Init, SystemType
  <2> QED
    BY <2>1, <2>2, <2>3, <2>4, <2>5 DEF TypeOK
<1>2. RefInv /\ OwnerInv
  BY DEF Init, RefInv, InOperation, OwnerInv, Endpoints, NoChannel
<1>3. LockInv /\ CallHasPeer
  <2>1. \A t \in Threads : ~Notifying(t)
    BY DEF Init, Notifying
  <2>2. \A e \in Endpoints : ~Zeroing(e) /\ waiters[e] = {}
    BY ConstantsAssumption, ProcFacts DEF Init, Zeroing, HandleLimbo
  <2> QED
    BY <2>1, <2>2, EndpointFacts DEF LockInv, CallHasPeer
<1>4. WaiterListSound /\ DeliveredReplyReturned /\ TxidsUnique /\ ReadableIffMessages
  BY DEF Init, WaiterListSound, DeliveredReplyReturned, TxidsUnique, ReadableIffMessages
<1> QED
  BY <1>1, <1>2, <1>3, <1>4 DEF IInv

\* Lookup: a handle lookup only gives the thread a reference to the endpoint.
LEMMA LookupStep ==
  ASSUME IInv, NEW t \in Threads, NEW e \in Endpoints, NEW op \in Ops,
         Lookup(t, e, op)
  PROVE  IInv'
<1> USE DEF Lookup, MayCall, Goto, Returns, IInv, TypeOK
<1>1. EndpointType' /\ WaiterType' /\ ObserverType' /\ SystemType' /\ DeliveredReplyReturned' /\
      CallHasPeer' /\ TxidsUnique' /\ ReadableIffMessages' /\ OwnerInv'
  BY DEF EndpointType, WaiterType, ObserverType, SystemType, DeliveredReplyReturned,
         CallHasPeer, TxidsUnique, ReadableIffMessages, OwnerInv, Notifying, Zeroing
<1>2. ThreadType'
  BY ConstantsAssumption DEF ThreadType, PCs, Statuses, Ops
<1>3. RefInv'
  BY DEF RefInv, ThreadType, InOperation, Endpoints, NoChannel
<1>4. LockInv'
  BY EndpointFacts, ProcFacts DEF LockInv, EndpointType, ThreadType, SystemType, Notifying,
         Zeroing, HandleLimbo
<1>5. WaiterListSound'
  BY DEF WaiterListSound, WaiterType, ThreadType, DeliveredReplyReturned
<1> QED
  BY <1>1, <1>2, <1>3, <1>4, <1>5

\* WaitOneBegin: object_wait_one touches observers only.
LEMMA WaitOneBeginStep ==
  ASSUME IInv, NEW t \in Threads, NEW e \in Endpoints, NEW m \in SUBSET Signals,
         WaitOneBegin(t, e, m)
  PROVE  IInv'
<1> USE DEF WaitOneBegin, MayCall, Goto, Returns, IInv, TypeOK
<1>1. EndpointType' /\ WaiterType' /\ SystemType' /\ DeliveredReplyReturned' /\ CallHasPeer' /\
      TxidsUnique' /\ ReadableIffMessages' /\ OwnerInv'
  BY DEF EndpointType, WaiterType, SystemType, DeliveredReplyReturned, CallHasPeer,
         TxidsUnique, ReadableIffMessages, OwnerInv, Notifying, Zeroing
<1>2. ObserverType'
  <2>1. CASE signals[e] \cap m # {}
    BY <2>1 DEF ObserverType, EndpointType
  <2>2. CASE signals[e] \cap m = {}
    BY <2>2 DEF ObserverType
  <2> QED
    BY <2>1, <2>2
<1>3. ThreadType'
  BY ConstantsAssumption DEF ThreadType, PCs, Statuses, Ops
<1>4. RefInv'
  BY DEF RefInv, ThreadType, InOperation, Endpoints, NoChannel
<1>5. LockInv'
  BY EndpointFacts, ProcFacts DEF LockInv, EndpointType, ThreadType, SystemType, Notifying,
         Zeroing, HandleLimbo
<1>6. WaiterListSound'
  BY DEF WaiterListSound, WaiterType, ThreadType, DeliveredReplyReturned
<1> QED
  BY <1>1, <1>2, <1>3, <1>4, <1>5, <1>6

\* WaitOneDone: the end of the wait changes only the thread itself.
LEMMA WaitOneDoneStep ==
  ASSUME IInv, NEW t \in Threads,
         WaitOneDone(t)
  PROVE  IInv'
<1> USE DEF WaitOneDone, Goto, IInv, TypeOK
<1>1. EndpointType' /\ WaiterType' /\ ObserverType' /\ SystemType' /\ DeliveredReplyReturned' /\
      CallHasPeer' /\ TxidsUnique' /\ ReadableIffMessages' /\ OwnerInv'
  BY DEF EndpointType, WaiterType, ObserverType, SystemType, DeliveredReplyReturned,
         CallHasPeer, TxidsUnique, ReadableIffMessages, OwnerInv, Notifying, Zeroing
<1>2. ThreadType'
  BY ConstantsAssumption DEF ThreadType, PCs, Statuses, Ops, ObserverType
<1>3. RefInv'
  BY DEF RefInv, ThreadType, InOperation, Endpoints, NoChannel
<1>4. LockInv'
  BY EndpointFacts, ProcFacts DEF LockInv, EndpointType, ThreadType, SystemType, Notifying,
         Zeroing, HandleLimbo
<1>5. WaiterListSound'
  BY DEF WaiterListSound, WaiterType, ThreadType, DeliveredReplyReturned
<1> QED
  BY <1>1, <1>2, <1>3, <1>4, <1>5

\* WaitOneEnd: removing the observer touches observers only.
LEMMA WaitOneEndStep ==
  ASSUME IInv, NEW t \in Threads,
         WaitOneEnd(t)
  PROVE  IInv'
<1> USE DEF WaitOneEnd, Return, Goto, Returns, IInv, TypeOK
<1>1. EndpointType' /\ WaiterType' /\ SystemType' /\ DeliveredReplyReturned' /\ CallHasPeer' /\
      TxidsUnique' /\ ReadableIffMessages' /\ OwnerInv'
  BY DEF EndpointType, WaiterType, SystemType, DeliveredReplyReturned, CallHasPeer,
         TxidsUnique, ReadableIffMessages, OwnerInv, Notifying, Zeroing
<1>2. ObserverType'
  BY ConstantsAssumption DEF ObserverType, Signals, ThreadType, RefInv, InOperation
<1>3. ThreadType'
  BY ConstantsAssumption DEF ThreadType, PCs, Statuses, Ops
<1>4. RefInv'
  BY DEF RefInv, ThreadType, InOperation, Endpoints, NoChannel
<1>5. LockInv'
  BY EndpointFacts, ProcFacts DEF LockInv, EndpointType, ThreadType, SystemType, Notifying,
         Zeroing, HandleLimbo, RefInv, InOperation
<1>6. WaiterListSound'
  BY DEF WaiterListSound, WaiterType, ThreadType, DeliveredReplyReturned, RefInv,
         InOperation
<1> QED
  BY <1>1, <1>2, <1>3, <1>4, <1>5, <1>6

\* WriteFails: a refused Write returns and changes nothing else.
LEMMA WriteFailsStep ==
  ASSUME IInv, NEW t \in Threads,
         WriteFails(t)
  PROVE  IInv'
<1> USE DEF WriteFails, Return, Goto, Returns, IInv, TypeOK
<1>1. EndpointType' /\ WaiterType' /\ ObserverType' /\ SystemType' /\ DeliveredReplyReturned' /\
      CallHasPeer' /\ TxidsUnique' /\ ReadableIffMessages' /\ OwnerInv'
  BY DEF EndpointType, WaiterType, ObserverType, SystemType, DeliveredReplyReturned,
         CallHasPeer, TxidsUnique, ReadableIffMessages, OwnerInv, Notifying, Zeroing
<1>2. ThreadType'
  BY ConstantsAssumption DEF ThreadType, PCs, Statuses, Ops
<1>3. RefInv'
  BY DEF RefInv, ThreadType, InOperation, Endpoints, NoChannel
<1>4. LockInv'
  BY EndpointFacts, ProcFacts DEF LockInv, EndpointType, ThreadType, SystemType, Notifying,
         Zeroing, HandleLimbo, RefInv, InOperation
<1>5. WaiterListSound'
  BY DEF WaiterListSound, WaiterType, ThreadType, DeliveredReplyReturned, RefInv,
         InOperation
<1> QED
  BY <1>1, <1>2, <1>3, <1>4, <1>5

\* WriteToWaiter: Deliver unlinks the waiter it hands the reply to, so the waiter
\* list and the waiter's status change together.
LEMMA WriteToWaiterStep ==
  ASSUME IInv, NEW t \in Threads, NEW m \in Message, NEW w \in Threads,
         WriteToWaiter(t, m, w)
  PROVE  IInv'
<1> USE DEF WriteToWaiter, Return, Deliver, Answered, Goto, Returns, IInv, TypeOK
<1>1. EndpointType' /\ ObserverType' /\ SystemType' /\ ReadableIffMessages' /\ OwnerInv'
  BY DEF EndpointType, ObserverType, SystemType, ReadableIffMessages, OwnerInv
<1>2. WaiterType'
  BY EndpointFacts, ConstantsAssumption DEF WaiterType, Statuses, ThreadType, RefInv,
         InOperation
<1>3. ThreadType'
  BY EndpointFacts, ConstantsAssumption DEF ThreadType, PCs, Statuses, Ops
<1>4. RefInv'
  BY EndpointFacts DEF RefInv, ThreadType, InOperation, Endpoints, NoChannel
<1>5. LockInv'
  BY EndpointFacts, ProcFacts DEF LockInv, EndpointType, ThreadType, SystemType, Notifying,
         Zeroing, HandleLimbo, RefInv, InOperation
<1>6. WaiterListSound'
  BY EndpointFacts DEF WaiterListSound, WaiterType, ThreadType, DeliveredReplyReturned,
         RefInv, InOperation
<1>7. DeliveredReplyReturned'
  BY EndpointFacts, ConstantsAssumption DEF DeliveredReplyReturned, WaiterType, ThreadType,
         WaiterListSound, RefInv, InOperation
<1>8. CallHasPeer'
  BY EndpointFacts, ProcFacts DEF CallHasPeer, EndpointType, WaiterType, ThreadType,
         Zeroing, LockInv, HandleLimbo, RefInv, InOperation
<1>9. TxidsUnique'
  BY EndpointFacts DEF TxidsUnique, WaiterType, ThreadType, WaiterListSound, RefInv,
         InOperation
<1> QED
  BY <1>1, <1>2, <1>3, <1>4, <1>5, <1>6, <1>7, <1>8, <1>9

\* WriteToQueue: WriteSelf queues and raises READABLE together, and keeps
\* get_lock() if it still has observers to notify.
LEMMA WriteToQueueStep ==
  ASSUME IInv, NEW t \in Threads, NEW m \in Message,
         WriteToQueue(t, m)
  PROVE  IInv'
<1> USE DEF WriteToQueue, Returns, WriteSelf, Answered, Goto, IInv, TypeOK
<1>1. WaiterType' /\ ObserverType' /\ DeliveredReplyReturned' /\ CallHasPeer' /\ TxidsUnique' /\
      OwnerInv'
  BY DEF WaiterType, ObserverType, DeliveredReplyReturned, CallHasPeer, TxidsUnique,
         OwnerInv, Notifying, Zeroing
<1>2. EndpointType'
  BY EndpointFacts, ProcFacts, ConstantsAssumption DEF EndpointType, Signals, HandleLimbo,
         ThreadType, RefInv, InOperation
<1>3. ThreadType'
  BY EndpointFacts, ConstantsAssumption DEF ThreadType, PCs, Statuses, Ops
<1>4. SystemType'
  <2>1. Other(ref[t]) \in Endpoints
    BY EndpointFacts DEF RefInv, InOperation
  <2> QED
    BY <2>1 DEF SystemType, EndpointType, Signals
<1>5. RefInv'
  BY EndpointFacts DEF RefInv, ThreadType, InOperation, Endpoints, NoChannel
<1>6. LockInv'
  BY EndpointFacts, ProcFacts DEF LockInv, EndpointType, ThreadType, SystemType, Notifying,
         Zeroing, HandleLimbo, RefInv, InOperation
<1>7. WaiterListSound'
  <2>1. pc'[t] \in {"idle", "notify_write"} /\ \A u \in Threads \ {t} : pc'[u] = pc[u]
    BY DEF ThreadType
  <2>2. UNCHANGED <<chan, status, waiters, wmsg>>
    OBVIOUS
  <2>3. \A i \in Endpoints : t \notin waiters[i]
    BY DEF WaiterListSound
  <2> QED
    BY <2>1, <2>2, <2>3 DEF WaiterListSound, WaiterType
<1>8. ReadableIffMessages'
  <2>1. Other(ref[t]) \in Endpoints
    BY EndpointFacts DEF RefInv, InOperation
  <2>2. messages'[Other(ref[t])] = Append(messages[Other(ref[t])], m)
    BY <2>1 DEF EndpointType
  <2>3. messages'[Other(ref[t])] # <<>>
    BY <2>1, <2>2, AppendNotEmpty DEF EndpointType
  <2> QED
    BY <2>1, <2>3 DEF ReadableIffMessages, EndpointType
<1> QED
  BY <1>1, <1>2, <1>3, <1>4, <1>5, <1>6, <1>7, <1>8

\* NotifyReadable: the only notifying thread releases get_lock().
LEMMA NotifyReadableStep ==
  ASSUME IInv, NEW t \in Threads,
         NotifyReadable(t)
  PROVE  IInv'
<1> USE DEF NotifyReadable, Goto, NotifyObserversLocked, Matching, IInv, TypeOK
<1>1. EndpointType' /\ WaiterType' /\ DeliveredReplyReturned' /\ CallHasPeer' /\ TxidsUnique' /\
      ReadableIffMessages' /\ OwnerInv'
  BY DEF EndpointType, WaiterType, DeliveredReplyReturned, CallHasPeer, TxidsUnique,
         ReadableIffMessages, OwnerInv, Notifying, Zeroing
<1>2. ObserverType'
  BY EndpointFacts, ConstantsAssumption DEF ObserverType, Signals, ThreadType, RefInv,
         InOperation, SystemType
<1>3. ThreadType'
  BY EndpointFacts, ConstantsAssumption DEF ThreadType, PCs, Statuses, Ops
<1>4. SystemType'
  BY EndpointFacts, ConstantsAssumption DEF SystemType, Signals, ThreadType, RefInv,
         InOperation
<1>5. RefInv'
  BY EndpointFacts DEF RefInv, ThreadType, InOperation, Endpoints, NoChannel
<1>6. LockInv'
  BY EndpointFacts, ProcFacts DEF LockInv, EndpointType, ThreadType, SystemType, Notifying,
         Zeroing, HandleLimbo, RefInv, InOperation
<1>7. WaiterListSound'
  BY EndpointFacts DEF WaiterListSound, WaiterType, ThreadType, DeliveredReplyReturned,
         RefInv, InOperation
<1> QED
  BY <1>1, <1>2, <1>3, <1>4, <1>5, <1>6, <1>7

\* ReadFails: a Read that takes no message changes nothing else.
LEMMA ReadFailsStep ==
  ASSUME IInv, NEW t \in Threads,
         ReadFails(t)
  PROVE  IInv'
<1> USE DEF ReadFails, Return, Goto, Returns, IInv, TypeOK
<1>1. EndpointType' /\ WaiterType' /\ ObserverType' /\ SystemType' /\ DeliveredReplyReturned' /\
      CallHasPeer' /\ TxidsUnique' /\ ReadableIffMessages' /\ OwnerInv'
  BY DEF EndpointType, WaiterType, ObserverType, SystemType, DeliveredReplyReturned,
         CallHasPeer, TxidsUnique, ReadableIffMessages, OwnerInv, Notifying, Zeroing
<1>2. ThreadType'
  BY ConstantsAssumption DEF ThreadType, PCs, Statuses, Ops
<1>3. RefInv'
  BY DEF RefInv, ThreadType, InOperation, Endpoints, NoChannel
<1>4. LockInv'
  BY EndpointFacts, ProcFacts DEF LockInv, EndpointType, ThreadType, SystemType, Notifying,
         Zeroing, HandleLimbo, RefInv, InOperation
<1>5. WaiterListSound'
  <2>1. pc' = [pc EXCEPT ![t] = "idle"]
    OBVIOUS
  <2> QED
    BY <2>1 DEF WaiterListSound, WaiterType, ThreadType
<1> QED
  BY <1>1, <1>2, <1>3, <1>4, <1>5

\* ReadPops: Read clears READABLE exactly when it takes the last message.
LEMMA ReadPopsStep ==
  ASSUME IInv, NEW t \in Threads, NEW fits \in BOOLEAN,
         ReadPops(t, fits)
  PROVE  IInv'
<1> USE DEF ReadPops, Return, Goto, Returns, IInv, TypeOK
<1>1. WaiterType' /\ ObserverType' /\ SystemType' /\ DeliveredReplyReturned' /\ CallHasPeer' /\
      TxidsUnique' /\ OwnerInv'
  BY DEF WaiterType, ObserverType, SystemType, DeliveredReplyReturned, CallHasPeer,
         TxidsUnique, OwnerInv, Notifying, Zeroing
<1>2. EndpointType'
  BY EndpointFacts, ProcFacts, ConstantsAssumption DEF EndpointType, Signals, HandleLimbo,
         ThreadType, RefInv, InOperation
<1>3. ThreadType'
  BY ConstantsAssumption DEF ThreadType, PCs, Statuses, Ops, EndpointType, RefInv,
         InOperation
<1>4. RefInv'
  BY DEF RefInv, ThreadType, InOperation, Endpoints, NoChannel
<1>5. LockInv'
  BY EndpointFacts, ProcFacts DEF LockInv, EndpointType, ThreadType, SystemType, Notifying,
         Zeroing, HandleLimbo, RefInv, InOperation
<1>6. WaiterListSound'
  BY DEF WaiterListSound, WaiterType, ThreadType, DeliveredReplyReturned, RefInv,
         InOperation
<1>7. ReadableIffMessages'
  BY DEF ReadableIffMessages, EndpointType, ThreadType, RefInv, InOperation
<1> QED
  BY <1>1, <1>2, <1>3, <1>4, <1>5, <1>6, <1>7

\* CallTwice: shooting the process leaves the channel as it is.
LEMMA CallTwiceStep ==
  ASSUME IInv, NEW t \in Threads,
         CallTwice(t)
  PROVE  IInv'
<1> USE DEF CallTwice, Return, Goto, Returns, IInv, TypeOK
<1>1. EndpointType' /\ WaiterType' /\ ObserverType' /\ DeliveredReplyReturned' /\ CallHasPeer' /\
      TxidsUnique' /\ ReadableIffMessages' /\ OwnerInv'
  BY DEF EndpointType, WaiterType, ObserverType, DeliveredReplyReturned, CallHasPeer,
         TxidsUnique, ReadableIffMessages, OwnerInv, Notifying, Zeroing
<1>2. ThreadType'
  BY ConstantsAssumption DEF ThreadType, PCs, Statuses, Ops
<1>3. SystemType'
  BY ConstantsAssumption DEF SystemType, Signals
<1>4. RefInv'
  BY DEF RefInv, ThreadType, InOperation, Endpoints, NoChannel
<1>5. LockInv'
  BY EndpointFacts, ProcFacts DEF LockInv, EndpointType, ThreadType, SystemType, Notifying,
         Zeroing, HandleLimbo
<1>6. WaiterListSound'
  BY DEF WaiterListSound, WaiterType, ThreadType, DeliveredReplyReturned
<1> QED
  BY <1>1, <1>2, <1>3, <1>4, <1>5, <1>6

\* CallNotOwner: the refused Call leaves channel_ set but links no waiter.
LEMMA CallNotOwnerStep ==
  ASSUME IInv, NEW t \in Threads,
         CallNotOwner(t)
  PROVE  IInv'
<1> USE DEF CallNotOwner, Return, BeginWait, Goto, Returns, IInv, TypeOK
<1>1. EndpointType' /\ ObserverType' /\ SystemType' /\ CallHasPeer' /\ TxidsUnique' /\
      ReadableIffMessages' /\ OwnerInv'
  BY DEF EndpointType, ObserverType, SystemType, CallHasPeer, TxidsUnique,
         ReadableIffMessages, OwnerInv, Notifying, Zeroing
<1>2. WaiterType'
  BY ConstantsAssumption DEF WaiterType, Statuses, ThreadType, RefInv, InOperation
<1>3. ThreadType'
  BY ConstantsAssumption DEF ThreadType, PCs, Statuses, Ops
<1>4. RefInv'
  BY DEF RefInv, ThreadType, InOperation, Endpoints, NoChannel
<1>5. LockInv'
  BY EndpointFacts, ProcFacts DEF LockInv, EndpointType, ThreadType, SystemType, Notifying,
         Zeroing, HandleLimbo, RefInv, InOperation
<1>6. WaiterListSound'
  BY DEF WaiterListSound, WaiterType, ThreadType, DeliveredReplyReturned, RefInv,
         InOperation
<1>7. DeliveredReplyReturned'
  BY ConstantsAssumption DEF DeliveredReplyReturned, WaiterType, ThreadType,
         WaiterListSound, RefInv, InOperation
<1> QED
  BY <1>1, <1>2, <1>3, <1>4, <1>5, <1>6, <1>7

\* CallNoPeer: Call without a peer links no waiter.
LEMMA CallNoPeerStep ==
  ASSUME IInv, NEW t \in Threads,
         CallNoPeer(t)
  PROVE  IInv'
<1> USE DEF CallNoPeer, Return, Goto, Returns, IInv, TypeOK
<1>1. EndpointType' /\ ObserverType' /\ SystemType' /\ CallHasPeer' /\ TxidsUnique' /\
      ReadableIffMessages' /\ OwnerInv'
  BY DEF EndpointType, ObserverType, SystemType, CallHasPeer, TxidsUnique,
         ReadableIffMessages, OwnerInv, Notifying, Zeroing
<1>2. WaiterType'
  BY ConstantsAssumption DEF WaiterType, Statuses, ThreadType, RefInv, InOperation
<1>3. ThreadType'
  BY ConstantsAssumption DEF ThreadType, PCs, Statuses, Ops
<1>4. RefInv'
  BY DEF RefInv, ThreadType, InOperation, Endpoints, NoChannel
<1>5. LockInv'
  BY EndpointFacts, ProcFacts DEF LockInv, EndpointType, ThreadType, SystemType, Notifying,
         Zeroing, HandleLimbo, RefInv, InOperation
<1>6. WaiterListSound'
  BY DEF WaiterListSound, WaiterType, ThreadType, DeliveredReplyReturned, RefInv,
         InOperation
<1>7. DeliveredReplyReturned'
  BY ConstantsAssumption DEF DeliveredReplyReturned, WaiterType, ThreadType,
         WaiterListSound, RefInv, InOperation
<1> QED
  BY <1>1, <1>2, <1>3, <1>4, <1>5, <1>6, <1>7

\* CallSends: Call links the waiter with a txid no other waiter has.  This is
\* where all parts of the invariant meet.
LEMMA CallSendsStep ==
  ASSUME IInv, NEW t \in Threads,
         CallSends(t)
  PROVE  IInv'
<1> DEFINE e == ref[t]
           o == Other(e)
           k == AllocTxid(e)
           x == GenerateTxid(e, k)
           m == [txid |-> x, id |-> calls + 1, re |-> 0]
<1> USE DEF IInv, TypeOK
<1>a. e \in Endpoints /\ o \in Endpoints /\ o # e
  BY EndpointFacts DEF CallSends, RefInv, InOperation
<1>b. chan[t] = NoChannel /\ \A i \in Endpoints : t \notin waiters[i]
  BY EndpointFacts DEF CallSends, BeginWait, WaiterListSound
<1>c. k \in 1 .. TxidCount /\ x \notin InUse(e)
  BY <1>a, <1>b, AllocTxidSound
<1>d. x \in Txids /\ TxidAfter(e, k) \in Txids /\ IsKernelGenerated(x)
  BY <1>a, <1>c, GenerateTxidType
<1>e. m \in Message /\ calls + 1 \in 0 .. MaxCalls
  BY <1>d, ConstantsAssumption DEF CallSends, SystemType, Message
<1>f. /\ messages' = [messages EXCEPT ![o] = Append(@, m)]
      /\ signals' = [signals EXCEPT ![o] = @ \cup {"READABLE"}]
      /\ txid' = [txid EXCEPT ![e] = TxidAfter(e, k)]
      /\ UNCHANGED <<handle, owner, peer, peerHasClosed>>
  BY DEF CallSends, WriteSelf
<1>g. /\ waiters' = [waiters EXCEPT ![e] = @ \cup {t}]
      /\ chan' = [chan EXCEPT ![t] = e]
      /\ status' = [status EXCEPT ![t] = "TIMED_OUT"]
      /\ event' = [event EXCEPT ![t] = FALSE]
      /\ wtxid' = [wtxid EXCEPT ![t] = x]
      /\ call' = [call EXCEPT ![t] = calls + 1]
      /\ UNCHANGED wmsg
  BY DEF CallSends, BeginWait
<1>h. /\ pc' \in {[pc EXCEPT ![t] = "blocked"], [pc EXCEPT ![t] = "notify_call"]}
      /\ ref' = IF "READABLE" \in signals[o] THEN [ref EXCEPT ![t] = NoChannel] ELSE ref
      /\ (pc' = [pc EXCEPT ![t] = "blocked"]) <=> "READABLE" \in signals[o]
      /\ ~glock
      /\ IF "READABLE" \in signals[o] THEN UNCHANGED glock ELSE glock' = TRUE
  BY DEF CallSends, WriteSelf, Goto, ThreadType
<1>1. OwnerInv' /\ ObserverType'
  BY <1>f DEF CallSends, OwnerInv, ObserverType
<1>2. EndpointType'
  BY <1>a, <1>d, <1>e, <1>f DEF EndpointType, Signals
<1>3. WaiterType'
  BY <1>a, <1>d, <1>e, <1>g DEF WaiterType, Statuses
<1>4. ThreadType'
  BY <1>h DEF CallSends, ThreadType, PCs
<1>5. SystemType'
  BY <1>a, <1>e DEF CallSends, WriteSelf, SystemType, EndpointType, Signals
<1>6. RefInv'
  BY <1>a, <1>h, EndpointFacts DEF RefInv, InOperation, ThreadType
<1>7. LockInv'
  <2>1. \A u \in Threads : Notifying(u)' => u = t
    BY <1>h DEF LockInv, Notifying, ThreadType
  <2>2. \A i \in Endpoints : ~Zeroing(i)'
    BY <1>f, <1>h DEF LockInv, Zeroing
  <2>3. Notifying(t)' => glock'
    BY <1>h DEF Notifying, ThreadType
  <2> QED
    BY <2>1, <2>2, <2>3 DEF LockInv
<1>8. WaiterListSound'
  <2>1. pc'[t] \in {"blocked", "notify_call"} /\ \A u \in Threads \ {t} : pc'[u] = pc[u]
    BY <1>h DEF ThreadType
  <2>2. chan'[t] = e /\ status'[t] = "TIMED_OUT" /\ wmsg'[t] = NoMsg
    BY <1>b, <1>g DEF DeliveredReplyReturned, WaiterType
  <2>3. \A u \in Threads \ {t} : chan'[u] = chan[u] /\ status'[u] = status[u] /\ wmsg'[u] = wmsg[u]
    BY <1>g DEF WaiterType
  <2>4. \A i \in Endpoints : waiters'[i] = IF i = e THEN waiters[i] \cup {t} ELSE waiters[i]
    BY <1>g DEF WaiterType
  <2>5. ASSUME NEW u \in Threads,
                pc'[u] \in {"notify_call", "blocked", "woken", "retry"}
        PROVE  chan'[u] # NoChannel /\ (status'[u] = "TIMED_OUT" => u \in waiters'[chan'[u]])
    <3>1. CASE u = t
      BY <1>a, <2>2, <2>4, <3>1, EndpointFacts
    <3>2. CASE u # t
      <4>1. chan[u] \in Endpoints /\ (status[u] = "TIMED_OUT" => u \in waiters[chan[u]])
        BY <2>1, <2>5, <3>2 DEF WaiterListSound, WaiterType
      <4> QED
        BY <2>3, <2>4, <3>2, <4>1, EndpointFacts
    <3> QED
      BY <3>1, <3>2
  <2>6. ASSUME NEW i \in Endpoints, NEW u \in waiters'[i]
        PROVE  /\ chan'[u] = i /\ status'[u] = "TIMED_OUT" /\ wmsg'[u] = NoMsg
               /\ pc'[u] \in {"notify_call", "blocked", "woken", "retry", "dead"}
    <3>1. CASE u = t
      BY <1>b, <2>1, <2>2, <2>4, <3>1
    <3>2. CASE u # t
      <4>1. u \in waiters[i] /\ u \in Threads
        BY <2>4, <3>2 DEF WaiterType
      <4>2. /\ chan[u] = i /\ status[u] = "TIMED_OUT" /\ wmsg[u] = NoMsg
            /\ pc[u] \in {"notify_call", "blocked", "woken", "retry", "dead"}
        BY <4>1 DEF WaiterListSound
      <4> QED
        BY <2>1, <2>3, <3>2, <4>1, <4>2
    <3> QED
      BY <3>1, <3>2
  <2> QED
    BY <2>5, <2>6 DEF WaiterListSound
<1>9. DeliveredReplyReturned'
  BY <1>b, <1>g DEF DeliveredReplyReturned, WaiterType
<1>10. CallHasPeer'
  BY <1>a, <1>f, <1>g, <1>h, EndpointFacts DEF CallSends, CallHasPeer, LockInv, Zeroing, WaiterType
<1>11. TxidsUnique'
  <2>1. \A u \in waiters[e] : wtxid[u] # x
    BY <1>c DEF InUse
  <2>2. \A i \in Endpoints : \A u \in waiters[i] : u # t /\ u \in Threads
    BY <1>b DEF WaiterType
  <2>3. wtxid'[t] = x /\ \A u \in Threads \ {t} : wtxid'[u] = wtxid[u]
    BY <1>g DEF WaiterType
  <2> QED
    BY <1>a, <1>d, <1>g, <2>1, <2>2, <2>3 DEF TxidsUnique, WaiterType
<1>12. ReadableIffMessages'
  <2>1. messages'[o] = Append(messages[o], m) /\ messages'[e] = messages[e]
    BY <1>a, <1>f DEF EndpointType
  <2>2. messages'[o] # <<>>
    BY <1>a, <1>e, <2>1, AppendNotEmpty DEF EndpointType
  <2> QED
    BY <1>a, <1>f, <2>1, <2>2, EndpointFacts DEF ReadableIffMessages, EndpointType
<1> QED
  BY <1>1, <1>2, <1>3, <1>4, <1>5, <1>6, <1>7, <1>8, <1>9, <1>10, <1>11, <1>12

\* WaitDone: waking up changes only the thread's control point.
LEMMA WaitDoneStep ==
  ASSUME IInv, NEW t \in Threads,
         WaitDone(t)
  PROVE  IInv'
<1> USE DEF WaitDone, Goto, IInv, TypeOK
<1>1. EndpointType' /\ WaiterType' /\ ObserverType' /\ SystemType' /\ DeliveredReplyReturned' /\
      CallHasPeer' /\ TxidsUnique' /\ ReadableIffMessages' /\ OwnerInv'
  BY DEF EndpointType, WaiterType, ObserverType, SystemType, DeliveredReplyReturned,
         CallHasPeer, TxidsUnique, ReadableIffMessages, OwnerInv, Notifying, Zeroing
<1>2. ThreadType'
  BY ConstantsAssumption DEF ThreadType, PCs, Statuses, Ops
<1>3. RefInv'
  BY DEF RefInv, ThreadType, InOperation, Endpoints, NoChannel
<1>4. LockInv'
  BY EndpointFacts, ProcFacts DEF LockInv, EndpointType, ThreadType, SystemType, Notifying,
         Zeroing, HandleLimbo
<1>5. WaiterListSound'
  BY DEF WaiterListSound, WaiterType, ThreadType, DeliveredReplyReturned
<1> QED
  BY <1>1, <1>2, <1>3, <1>4, <1>5

\* WaitInterrupted: a suspended thread leaves its waiter linked.
LEMMA WaitInterruptedStep ==
  ASSUME IInv, NEW t \in Threads,
         WaitInterrupted(t)
  PROVE  IInv'
<1> USE DEF WaitInterrupted, Goto, IInv, TypeOK
<1>1. EndpointType' /\ WaiterType' /\ ObserverType' /\ SystemType' /\ DeliveredReplyReturned' /\
      CallHasPeer' /\ TxidsUnique' /\ ReadableIffMessages' /\ OwnerInv'
  BY DEF EndpointType, WaiterType, ObserverType, SystemType, DeliveredReplyReturned,
         CallHasPeer, TxidsUnique, ReadableIffMessages, OwnerInv, Notifying, Zeroing
<1>2. ThreadType'
  BY ConstantsAssumption DEF ThreadType, PCs, Statuses, Ops
<1>3. RefInv'
  BY DEF RefInv, ThreadType, InOperation, Endpoints, NoChannel
<1>4. LockInv'
  BY EndpointFacts, ProcFacts DEF LockInv, EndpointType, ThreadType, SystemType, Notifying,
         Zeroing, HandleLimbo
<1>5. WaiterListSound'
  BY DEF WaiterListSound, WaiterType, ThreadType, DeliveredReplyReturned
<1> QED
  BY <1>1, <1>2, <1>3, <1>4, <1>5

\* CallFinish: the resumed call waits on the waiter it left behind.
LEMMA CallFinishStep ==
  ASSUME IInv, NEW t \in Threads,
         CallFinish(t)
  PROVE  IInv'
<1> USE DEF CallFinish, Goto, Return, Returns, IInv, TypeOK
<1>1. EndpointType' /\ WaiterType' /\ ObserverType' /\ SystemType' /\ DeliveredReplyReturned' /\
      CallHasPeer' /\ TxidsUnique' /\ ReadableIffMessages' /\ OwnerInv'
  BY DEF EndpointType, WaiterType, ObserverType, SystemType, DeliveredReplyReturned,
         CallHasPeer, TxidsUnique, ReadableIffMessages, OwnerInv, Notifying, Zeroing
<1>2. ThreadType'
  BY ConstantsAssumption DEF ThreadType, PCs, Statuses, Ops
<1>3. RefInv'
  BY DEF RefInv, ThreadType, InOperation, Endpoints, NoChannel
<1>4. LockInv'
  BY EndpointFacts, ProcFacts DEF LockInv, EndpointType, ThreadType, SystemType, Notifying,
         Zeroing, HandleLimbo
<1>5. WaiterListSound'
  BY DEF WaiterListSound, WaiterType, ThreadType, DeliveredReplyReturned
<1> QED
  BY <1>1, <1>2, <1>3, <1>4, <1>5

\* EndWait: a waiter that still says TIMED_OUT is linked, and is unlinked; any
\* other has been unlinked by whoever set its status.
LEMMA EndWaitStep ==
  ASSUME IInv, NEW t \in Threads,
         EndWait(t)
  PROVE  IInv'
<1> USE DEF EndWait, Goto, Returns, IInv, TypeOK
<1>1. EndpointType' /\ ObserverType' /\ SystemType' /\ ReadableIffMessages' /\ OwnerInv'
  BY DEF EndpointType, ObserverType, SystemType, ReadableIffMessages, OwnerInv
<1>2. WaiterType'
  BY ConstantsAssumption DEF WaiterType, Statuses
<1>3. ThreadType'
  BY ConstantsAssumption DEF ThreadType, PCs, Statuses, Ops, WaiterType
<1>4. RefInv'
  BY DEF RefInv, ThreadType, InOperation, Endpoints, NoChannel
<1>5. LockInv'
  BY EndpointFacts, ProcFacts DEF LockInv, EndpointType, ThreadType, SystemType, Notifying,
         Zeroing, HandleLimbo
<1>6. WaiterListSound'
  BY DEF WaiterListSound, WaiterType, ThreadType, DeliveredReplyReturned
<1>7. DeliveredReplyReturned'
  BY ConstantsAssumption DEF DeliveredReplyReturned, WaiterType, ThreadType, WaiterListSound
<1>8. CallHasPeer'
  BY EndpointFacts, ProcFacts DEF CallHasPeer, EndpointType, WaiterType, ThreadType,
         Zeroing, LockInv, HandleLimbo
<1>9. TxidsUnique'
  BY DEF TxidsUnique, WaiterType, ThreadType, WaiterListSound
<1> QED
  BY <1>1, <1>2, <1>3, <1>4, <1>5, <1>6, <1>7, <1>8, <1>9

\* SendHandle: the handle leaves the table; owner_ keeps its value.
LEMMA SendHandleStep ==
  ASSUME IInv, NEW t \in Threads, NEW e \in Endpoints,
         SendHandle(t, e)
  PROVE  IInv'
<1> USE DEF SendHandle, MayCall, IInv, TypeOK
<1>1. WaiterType' /\ ObserverType' /\ ThreadType' /\ SystemType' /\ RefInv' /\ WaiterListSound' /\
      DeliveredReplyReturned' /\ TxidsUnique' /\ ReadableIffMessages'
  BY DEF WaiterType, ObserverType, ThreadType, SystemType, RefInv, WaiterListSound,
         DeliveredReplyReturned, TxidsUnique, ReadableIffMessages
<1>2. EndpointType'
  BY EndpointFacts, ProcFacts, ConstantsAssumption DEF EndpointType, Signals, HandleLimbo
<1>3. LockInv'
  <2>1. \A i \in Endpoints : Zeroing(i)' => Zeroing(i)
    BY ProcFacts DEF Zeroing, EndpointType, HandleLimbo
  <2>2. \A u \in Threads : Notifying(u)' => Notifying(u)
    BY DEF Notifying, ThreadType
  <2> QED
    BY <2>1, <2>2, EndpointFacts DEF LockInv
<1>4. CallHasPeer'
  BY EndpointFacts, ProcFacts DEF CallHasPeer, EndpointType, WaiterType, ThreadType,
         Zeroing, LockInv, HandleLimbo
<1>5. OwnerInv'
  BY EndpointFacts, ProcFacts DEF OwnerInv, EndpointType, ThreadType, HandleLimbo
<1> QED
  BY <1>1, <1>2, <1>3, <1>4, <1>5

\* ReceiveMessage: taking the message out moves only the handle.
LEMMA ReceiveMessageStep ==
  ASSUME IInv, NEW t \in Threads, NEW e \in Endpoints,
         ReceiveMessage(t, e)
  PROVE  IInv'
<1> USE DEF ReceiveMessage, MayCall, Goto, IInv, TypeOK
<1>1. WaiterType' /\ ObserverType' /\ SystemType' /\ DeliveredReplyReturned' /\ TxidsUnique' /\
      ReadableIffMessages'
  BY DEF WaiterType, ObserverType, SystemType, DeliveredReplyReturned, TxidsUnique,
         ReadableIffMessages
<1>2. EndpointType'
  BY EndpointFacts, ProcFacts, ConstantsAssumption DEF EndpointType, Signals, HandleLimbo
<1>3. ThreadType'
  BY ConstantsAssumption DEF ThreadType, PCs, Statuses, Ops
<1>4. RefInv'
  BY DEF RefInv, ThreadType, InOperation, Endpoints, NoChannel
<1>5. LockInv'
  <2>1. \A i \in Endpoints : Zeroing(i)' => Zeroing(i)
    BY ProcFacts DEF Zeroing, EndpointType, HandleLimbo
  <2>2. \A u \in Threads : Notifying(u)' => Notifying(u)
    BY DEF Notifying, ThreadType
  <2> QED
    BY <2>1, <2>2, EndpointFacts DEF LockInv
<1>6. WaiterListSound'
  BY DEF WaiterListSound, WaiterType, ThreadType, DeliveredReplyReturned
<1>7. CallHasPeer'
  BY EndpointFacts, ProcFacts DEF CallHasPeer, EndpointType, WaiterType, ThreadType,
         Zeroing, LockInv, HandleLimbo
<1>8. OwnerInv'
  BY EndpointFacts, ProcFacts DEF OwnerInv, EndpointType, ThreadType, HandleLimbo
<1> QED
  BY <1>1, <1>2, <1>3, <1>4, <1>5, <1>6, <1>7, <1>8

\* DiscardMessage: discarding the message moves only the handle.
LEMMA DiscardMessageStep ==
  ASSUME IInv, NEW e \in Endpoints,
         DiscardMessage(e)
  PROVE  IInv'
<1> USE DEF DiscardMessage, IInv, TypeOK
<1>1. WaiterType' /\ ObserverType' /\ ThreadType' /\ SystemType' /\ RefInv' /\ WaiterListSound' /\
      DeliveredReplyReturned' /\ TxidsUnique' /\ ReadableIffMessages'
  BY DEF WaiterType, ObserverType, ThreadType, SystemType, RefInv, WaiterListSound,
         DeliveredReplyReturned, TxidsUnique, ReadableIffMessages
<1>2. EndpointType'
  BY EndpointFacts, ProcFacts, ConstantsAssumption DEF EndpointType, Signals, HandleLimbo
<1>3. LockInv'
  <2>1. \A i \in Endpoints : Zeroing(i)' => Zeroing(i)
    BY ProcFacts DEF Zeroing, EndpointType, HandleLimbo
  <2>2. \A u \in Threads : Notifying(u)' => Notifying(u)
    BY DEF Notifying, ThreadType
  <2> QED
    BY <2>1, <2>2, EndpointFacts DEF LockInv
<1>4. CallHasPeer'
  BY EndpointFacts, ProcFacts DEF CallHasPeer, EndpointType, WaiterType, ThreadType,
         Zeroing, LockInv, HandleLimbo
<1>5. OwnerInv'
  BY EndpointFacts, ProcFacts DEF OwnerInv, EndpointType, ThreadType, HandleLimbo
<1> QED
  BY <1>1, <1>2, <1>3, <1>4, <1>5

\* ReceiveCancelObservers: Cancel(handle) touches observers only.
LEMMA ReceiveCancelObserversStep ==
  ASSUME IInv, NEW t \in Threads,
         ReceiveCancelObservers(t)
  PROVE  IInv'
<1> USE DEF ReceiveCancelObservers, Goto, CancelObservers, IInv, TypeOK
<1>1. EndpointType' /\ WaiterType' /\ SystemType' /\ DeliveredReplyReturned' /\ CallHasPeer' /\
      TxidsUnique' /\ ReadableIffMessages' /\ OwnerInv'
  BY DEF EndpointType, WaiterType, SystemType, DeliveredReplyReturned, CallHasPeer,
         TxidsUnique, ReadableIffMessages, OwnerInv, Notifying, Zeroing
<1>2. ObserverType'
  BY ConstantsAssumption DEF ObserverType, Signals, ThreadType, RefInv, InOperation,
         EndpointType
<1>3. ThreadType'
  BY ConstantsAssumption DEF ThreadType, PCs, Statuses, Ops
<1>4. RefInv'
  BY DEF RefInv, ThreadType, InOperation, Endpoints, NoChannel
<1>5. LockInv'
  BY EndpointFacts, ProcFacts DEF LockInv, EndpointType, ThreadType, SystemType, Notifying,
         Zeroing, HandleLimbo, RefInv, InOperation
<1>6. WaiterListSound'
  BY DEF WaiterListSound, WaiterType, ThreadType, DeliveredReplyReturned, RefInv,
         InOperation
<1> QED
  BY <1>1, <1>2, <1>3, <1>4, <1>5, <1>6

\* ReceiveCancelWaiters: every waiter that is unlinked is canceled.
LEMMA ReceiveCancelWaitersStep ==
  ASSUME IInv, NEW t \in Threads,
         ReceiveCancelWaiters(t)
  PROVE  IInv'
<1> USE DEF ReceiveCancelWaiters, Goto, CancelMessageWaitersLocked, IInv, TypeOK
<1>1. EndpointType' /\ ObserverType' /\ SystemType' /\ ReadableIffMessages' /\ OwnerInv'
  BY DEF EndpointType, ObserverType, SystemType, ReadableIffMessages, OwnerInv
<1>2. WaiterType'
  BY ConstantsAssumption DEF WaiterType, Statuses, ThreadType, RefInv, InOperation
<1>3. ThreadType'
  BY ConstantsAssumption DEF ThreadType, PCs, Statuses, Ops
<1>4. RefInv'
  BY DEF RefInv, ThreadType, InOperation, Endpoints, NoChannel
<1>5. LockInv'
  BY EndpointFacts, ProcFacts DEF LockInv, EndpointType, ThreadType, SystemType, Notifying,
         Zeroing, HandleLimbo, RefInv, InOperation
<1>6. WaiterListSound'
  BY DEF WaiterListSound, WaiterType, ThreadType, DeliveredReplyReturned, RefInv,
         InOperation
<1>7. DeliveredReplyReturned'
  BY ConstantsAssumption DEF DeliveredReplyReturned, WaiterType, ThreadType,
         WaiterListSound, RefInv, InOperation
<1>8. CallHasPeer'
  BY EndpointFacts, ProcFacts DEF CallHasPeer, EndpointType, WaiterType, ThreadType,
         Zeroing, LockInv, HandleLimbo, RefInv, InOperation
<1>9. TxidsUnique'
  BY DEF TxidsUnique, WaiterType, ThreadType, WaiterListSound, RefInv, InOperation
<1> QED
  BY <1>1, <1>2, <1>3, <1>4, <1>5, <1>6, <1>7, <1>8, <1>9

\* ReceiveAddHandle: the handle and owner_ change together.
LEMMA ReceiveAddHandleStep ==
  ASSUME IInv, NEW t \in Threads,
         ReceiveAddHandle(t)
  PROVE  IInv'
<1> USE DEF ReceiveAddHandle, Goto, IInv, TypeOK
<1>1. WaiterType' /\ ObserverType' /\ SystemType' /\ DeliveredReplyReturned' /\ TxidsUnique' /\
      ReadableIffMessages'
  BY DEF WaiterType, ObserverType, SystemType, DeliveredReplyReturned, TxidsUnique,
         ReadableIffMessages
<1>2. EndpointType'
  BY EndpointFacts, ProcFacts, ConstantsAssumption DEF EndpointType, Signals, HandleLimbo,
         ThreadType, RefInv, InOperation
<1>3. ThreadType'
  BY ConstantsAssumption DEF ThreadType, PCs, Statuses, Ops
<1>4. RefInv'
  BY DEF RefInv, ThreadType, InOperation, Endpoints, NoChannel
<1>5. LockInv'
  BY EndpointFacts, ProcFacts DEF LockInv, EndpointType, ThreadType, SystemType, Notifying,
         Zeroing, HandleLimbo, RefInv, InOperation
<1>6. WaiterListSound'
  BY DEF WaiterListSound, WaiterType, ThreadType, DeliveredReplyReturned, RefInv,
         InOperation
<1>7. CallHasPeer'
  BY EndpointFacts, ProcFacts DEF CallHasPeer, EndpointType, WaiterType, ThreadType,
         Zeroing, LockInv, HandleLimbo, RefInv, InOperation
<1>8. OwnerInv'
  BY EndpointFacts, ProcFacts DEF OwnerInv, EndpointType, ThreadType, HandleLimbo, RefInv,
         InOperation
<1> QED
  BY <1>1, <1>2, <1>3, <1>4, <1>5, <1>6, <1>7, <1>8

\* CloseHandle: the handle leaves the table.
LEMMA CloseHandleStep ==
  ASSUME IInv, NEW t \in Threads, NEW e \in Endpoints,
         CloseHandle(t, e)
  PROVE  IInv'
<1> USE DEF CloseHandle, MayCall, Goto, IInv, TypeOK
<1>1. WaiterType' /\ ObserverType' /\ SystemType' /\ DeliveredReplyReturned' /\ TxidsUnique' /\
      ReadableIffMessages'
  BY DEF WaiterType, ObserverType, SystemType, DeliveredReplyReturned, TxidsUnique,
         ReadableIffMessages
<1>2. EndpointType'
  BY EndpointFacts, ProcFacts, ConstantsAssumption DEF EndpointType, Signals, HandleLimbo
<1>3. ThreadType'
  BY ConstantsAssumption DEF ThreadType, PCs, Statuses, Ops
<1>4. RefInv'
  BY DEF RefInv, ThreadType, InOperation, Endpoints, NoChannel
<1>5. LockInv'
  <2>1. \A i \in Endpoints : Zeroing(i)' => Zeroing(i)
    BY ProcFacts DEF Zeroing, EndpointType, HandleLimbo
  <2>2. \A u \in Threads : Notifying(u)' => Notifying(u)
    BY DEF Notifying, ThreadType
  <2> QED
    BY <2>1, <2>2, EndpointFacts DEF LockInv
<1>6. WaiterListSound'
  BY DEF WaiterListSound, WaiterType, ThreadType, DeliveredReplyReturned
<1>7. CallHasPeer'
  BY EndpointFacts, ProcFacts DEF CallHasPeer, EndpointType, WaiterType, ThreadType,
         Zeroing, LockInv, HandleLimbo
<1>8. OwnerInv'
  BY EndpointFacts, ProcFacts DEF OwnerInv, EndpointType, ThreadType, HandleLimbo
<1> QED
  BY <1>1, <1>2, <1>3, <1>4, <1>5, <1>6, <1>7, <1>8

\* DeleteCancel: Cancel(handle) touches observers only.
LEMMA DeleteCancelStep ==
  ASSUME IInv, NEW e \in Endpoints,
         DeleteCancel(e)
  PROVE  IInv'
<1> USE DEF DeleteCancel, CancelObservers, IInv, TypeOK
<1>1. WaiterType' /\ ThreadType' /\ SystemType' /\ RefInv' /\ WaiterListSound' /\
      DeliveredReplyReturned' /\ TxidsUnique' /\ ReadableIffMessages'
  BY DEF WaiterType, ThreadType, SystemType, RefInv, WaiterListSound,
         DeliveredReplyReturned, TxidsUnique, ReadableIffMessages
<1>2. EndpointType'
  BY EndpointFacts, ProcFacts, ConstantsAssumption DEF EndpointType, Signals, HandleLimbo
<1>3. ObserverType'
  BY ConstantsAssumption DEF ObserverType, Signals, EndpointType
<1>4. LockInv'
  BY EndpointFacts, ProcFacts DEF LockInv, EndpointType, ThreadType, SystemType, Notifying,
         Zeroing, HandleLimbo
<1>5. CallHasPeer'
  BY EndpointFacts, ProcFacts DEF CallHasPeer, EndpointType, WaiterType, ThreadType,
         Zeroing, LockInv, HandleLimbo
<1>6. OwnerInv'
  BY EndpointFacts, ProcFacts DEF OwnerInv, EndpointType, ThreadType, HandleLimbo
<1> QED
  BY <1>1, <1>2, <1>3, <1>4, <1>5, <1>6

\* OnZeroHandles: both endpoints lose their peer; the closing one has no waiter
\* left, and get_lock() is kept while the other may still have some.
LEMMA OnZeroHandlesStep ==
  ASSUME IInv, NEW e \in Endpoints,
         OnZeroHandles(e)
  PROVE  IInv'
<1> USE DEF OnZeroHandles, CancelMessageWaitersLocked, IInv, TypeOK
<1>1. ObserverType' /\ ThreadType' /\ RefInv' /\ ReadableIffMessages'
  BY DEF ObserverType, ThreadType, RefInv, ReadableIffMessages
<1>2. EndpointType'
  <2>1. CASE peer[e]
    <3>1. peer' \in [Endpoints -> BOOLEAN] /\ peerHasClosed' \in [Endpoints -> BOOLEAN]
      BY <2>1, Zenon DEF EndpointType
    <3> QED
      BY <2>1, <3>1 DEF EndpointType, HandleLimbo
  <2>2. CASE ~peer[e]
    BY <2>2 DEF EndpointType, HandleLimbo
  <2> QED
    BY <2>1, <2>2
<1>3. WaiterType'
  BY EndpointFacts, ConstantsAssumption DEF WaiterType, Statuses
<1>4. SystemType'
  BY EndpointFacts, ConstantsAssumption DEF SystemType, Signals
<1>5. LockInv'
  BY EndpointFacts, ProcFacts DEF LockInv, EndpointType, ThreadType, SystemType, Notifying,
         Zeroing, HandleLimbo
<1>6. WaiterListSound'
  BY EndpointFacts DEF WaiterListSound, WaiterType, ThreadType, DeliveredReplyReturned
<1>7. DeliveredReplyReturned'
  BY EndpointFacts, ConstantsAssumption DEF DeliveredReplyReturned, WaiterType, ThreadType,
         WaiterListSound
<1>8. CallHasPeer'
  BY EndpointFacts, ProcFacts DEF CallHasPeer, EndpointType, WaiterType, ThreadType,
         Zeroing, LockInv, HandleLimbo
<1>9. TxidsUnique'
  BY EndpointFacts DEF TxidsUnique, WaiterType, ThreadType, WaiterListSound
<1>10. OwnerInv'
  <2>1. \A i \in Endpoints : handle'[i] \in Procs => handle'[i] = handle[i]
    <3>1. CASE peer[e]
      BY <3>1, ProcFacts DEF EndpointType, HandleLimbo
    <3>2. CASE ~peer[e]
      BY <3>2, ProcFacts DEF EndpointType, HandleLimbo
    <3> QED
      BY <3>1, <3>2
  <2> QED
    BY <2>1 DEF OwnerInv
<1> QED
  BY <1>1, <1>2, <1>3, <1>4, <1>5, <1>6, <1>7, <1>8, <1>9, <1>10

\* OnPeerZeroHandles: the other endpoint's waiters are canceled before get_lock()
\* is released.
LEMMA OnPeerZeroHandlesStep ==
  ASSUME IInv, NEW e \in Endpoints,
         OnPeerZeroHandles(e)
  PROVE  IInv'
<1> USE DEF OnPeerZeroHandles, NotifyObserversLocked, CancelMessageWaitersLocked, Matching,
            IInv, TypeOK
<1>1. ThreadType' /\ RefInv'
  BY DEF ThreadType, RefInv
<1>2. EndpointType'
  BY EndpointFacts, ProcFacts, ConstantsAssumption DEF EndpointType, Signals, HandleLimbo
<1>3. WaiterType'
  BY EndpointFacts, ConstantsAssumption DEF WaiterType, Statuses
<1>4. ObserverType'
  BY EndpointFacts, ConstantsAssumption DEF ObserverType, Signals, EndpointType, SystemType
<1>5. SystemType'
  BY EndpointFacts, ConstantsAssumption DEF SystemType, Signals
<1>6. LockInv'
  BY EndpointFacts, ProcFacts DEF LockInv, EndpointType, ThreadType, SystemType, Notifying,
         Zeroing, HandleLimbo
<1>7. WaiterListSound'
  BY EndpointFacts DEF WaiterListSound, WaiterType, ThreadType, DeliveredReplyReturned
<1>8. DeliveredReplyReturned'
  BY EndpointFacts, ConstantsAssumption DEF DeliveredReplyReturned, WaiterType, ThreadType,
         WaiterListSound
<1>9. CallHasPeer'
  BY EndpointFacts, ProcFacts DEF CallHasPeer, EndpointType, WaiterType, ThreadType,
         Zeroing, LockInv, HandleLimbo
<1>10. TxidsUnique'
  BY EndpointFacts DEF TxidsUnique, WaiterType, ThreadType, WaiterListSound
<1>11. ReadableIffMessages'
  BY EndpointFacts DEF ReadableIffMessages, EndpointType, ThreadType
<1>12. OwnerInv'
  BY EndpointFacts, ProcFacts DEF OwnerInv, EndpointType, ThreadType, HandleLimbo
<1> QED
  BY <1>1, <1>2, <1>3, <1>4, <1>5, <1>6, <1>7, <1>8, <1>9, <1>10, <1>11, <1>12

\* CloseReturns: the closing thread returns.
LEMMA CloseReturnsStep ==
  ASSUME IInv, NEW t \in Threads,
         CloseReturns(t)
  PROVE  IInv'
<1> USE DEF CloseReturns, Goto, IInv, TypeOK
<1>1. EndpointType' /\ WaiterType' /\ ObserverType' /\ SystemType' /\ DeliveredReplyReturned' /\
      CallHasPeer' /\ TxidsUnique' /\ ReadableIffMessages' /\ OwnerInv'
  BY DEF EndpointType, WaiterType, ObserverType, SystemType, DeliveredReplyReturned,
         CallHasPeer, TxidsUnique, ReadableIffMessages, OwnerInv, Notifying, Zeroing
<1>2. ThreadType'
  BY ConstantsAssumption DEF ThreadType, PCs, Statuses, Ops
<1>3. RefInv'
  BY DEF RefInv, ThreadType, InOperation, Endpoints, NoChannel
<1>4. LockInv'
  BY EndpointFacts, ProcFacts DEF LockInv, EndpointType, ThreadType, SystemType, Notifying,
         Zeroing, HandleLimbo, RefInv, InOperation
<1>5. WaiterListSound'
  BY DEF WaiterListSound, WaiterType, ThreadType, DeliveredReplyReturned, RefInv,
         InOperation
<1> QED
  BY <1>1, <1>2, <1>3, <1>4, <1>5

\* Destroy: the queue of a destroyed endpoint is emptied.
LEMMA DestroyStep ==
  ASSUME IInv, NEW e \in Endpoints,
         Destroy(e)
  PROVE  IInv'
<1> USE DEF Destroy, IInv, TypeOK
<1>1. WaiterType' /\ ObserverType' /\ ThreadType' /\ SystemType' /\ RefInv' /\ LockInv' /\
      WaiterListSound' /\ DeliveredReplyReturned' /\ CallHasPeer' /\ TxidsUnique' /\ OwnerInv'
  BY DEF WaiterType, ObserverType, ThreadType, SystemType, RefInv, LockInv,
         WaiterListSound, DeliveredReplyReturned, CallHasPeer, TxidsUnique, OwnerInv,
         Notifying, Zeroing
<1>2. EndpointType'
  BY EndpointFacts, ProcFacts, ConstantsAssumption DEF EndpointType, Signals, HandleLimbo,
         ThreadType, RefInv, InOperation
<1>3. ReadableIffMessages'
  BY EndpointFacts DEF ReadableIffMessages, EndpointType, ThreadType, RefInv, InOperation
<1> QED
  BY <1>1, <1>2, <1>3

\* Kill: a kill only marks the process.
LEMMA KillStep ==
  ASSUME IInv, NEW p \in Procs,
         Kill(p)
  PROVE  IInv'
<1> USE DEF Kill, IInv, TypeOK
<1>1. EndpointType' /\ WaiterType' /\ ObserverType' /\ ThreadType' /\ RefInv' /\ LockInv' /\
      WaiterListSound' /\ DeliveredReplyReturned' /\ CallHasPeer' /\ TxidsUnique' /\
      ReadableIffMessages' /\ OwnerInv'
  BY DEF EndpointType, WaiterType, ObserverType, ThreadType, RefInv, LockInv,
         WaiterListSound, DeliveredReplyReturned, CallHasPeer, TxidsUnique,
         ReadableIffMessages, OwnerInv, Notifying, Zeroing
<1>2. SystemType'
  BY ConstantsAssumption DEF SystemType, Signals
<1> QED
  BY <1>1, <1>2

\* ResumeException: handling the exception only clears it.
LEMMA ResumeExceptionStep ==
  ASSUME IInv, NEW t \in Threads,
         ResumeException(t)
  PROVE  IInv'
<1> USE DEF ResumeException, IInv, TypeOK
<1>1. EndpointType' /\ WaiterType' /\ ObserverType' /\ ThreadType' /\ RefInv' /\ LockInv' /\
      WaiterListSound' /\ DeliveredReplyReturned' /\ CallHasPeer' /\ TxidsUnique' /\
      ReadableIffMessages' /\ OwnerInv'
  BY DEF EndpointType, WaiterType, ObserverType, ThreadType, RefInv, LockInv,
         WaiterListSound, DeliveredReplyReturned, CallHasPeer, TxidsUnique,
         ReadableIffMessages, OwnerInv, Notifying, Zeroing
<1>2. SystemType'
  BY ConstantsAssumption DEF SystemType, Signals
<1> QED
  BY <1>1, <1>2

\* Exit: a thread that exits between two halves of a call leaves its waiter
\* linked; the last thread empties the handle table.
LEMMA ExitStep ==
  ASSUME IInv, NEW t \in Threads,
         Exit(t)
  PROVE  IInv'
<1> USE DEF Exit, Goto, IInv, TypeOK
<1>1. WaiterType' /\ ObserverType' /\ SystemType' /\ DeliveredReplyReturned' /\ TxidsUnique' /\
      ReadableIffMessages'
  BY DEF WaiterType, ObserverType, SystemType, DeliveredReplyReturned, TxidsUnique,
         ReadableIffMessages
<1>2. EndpointType'
  BY EndpointFacts, ProcFacts, ConstantsAssumption DEF EndpointType, Signals, HandleLimbo
<1>3. ThreadType'
  BY ConstantsAssumption DEF ThreadType, PCs, Statuses, Ops
<1>4. RefInv'
  BY DEF RefInv, ThreadType, InOperation, Endpoints, NoChannel
<1>5. LockInv'
  <2>1. \A i \in Endpoints : Zeroing(i)' => Zeroing(i)
    BY ProcFacts DEF Zeroing, EndpointType, HandleLimbo
  <2>2. \A u \in Threads : Notifying(u)' => Notifying(u)
    BY DEF Notifying, ThreadType
  <2> QED
    BY <2>1, <2>2, EndpointFacts DEF LockInv
<1>6. WaiterListSound'
  BY DEF WaiterListSound, WaiterType, ThreadType, DeliveredReplyReturned
<1>7. CallHasPeer'
  BY EndpointFacts, ProcFacts DEF CallHasPeer, EndpointType, WaiterType, ThreadType,
         Zeroing, LockInv, HandleLimbo
<1>8. OwnerInv'
  BY EndpointFacts, ProcFacts DEF OwnerInv, EndpointType, ThreadType, HandleLimbo
<1> QED
  BY <1>1, <1>2, <1>3, <1>4, <1>5, <1>6, <1>7, <1>8

\* DestroyThread: ~MessageWaiter unlinks the waiter from the one list it can be in.
LEMMA DestroyThreadStep ==
  ASSUME IInv, NEW t \in Threads,
         DestroyThread(t)
  PROVE  IInv'
<1> USE DEF DestroyThread, Goto, IInv, TypeOK
<1>1. EndpointType' /\ ObserverType' /\ SystemType' /\ ReadableIffMessages' /\ OwnerInv'
  BY DEF EndpointType, ObserverType, SystemType, ReadableIffMessages, OwnerInv
<1>2. WaiterType'
  BY ConstantsAssumption DEF WaiterType, Statuses
<1>3. ThreadType'
  BY ConstantsAssumption DEF ThreadType, PCs, Statuses, Ops
<1>4. RefInv'
  BY DEF RefInv, ThreadType, InOperation, Endpoints, NoChannel
<1>5. LockInv'
  BY EndpointFacts, ProcFacts DEF LockInv, EndpointType, ThreadType, SystemType, Notifying,
         Zeroing, HandleLimbo
<1>6. WaiterListSound'
  <2>1. \A i \in Endpoints : t \in waiters[i] => chan[t] = i
    BY DEF WaiterListSound
  <2>2. \A i \in Endpoints : waiters'[i] = waiters[i] \ {t}
    <3>1. CASE chan[t] = NoChannel
      BY <2>1, <3>1, EndpointFacts
    <3>2. CASE chan[t] # NoChannel
      BY <2>1, <3>2 DEF WaiterType
    <3> QED
      BY <3>1, <3>2
  <2>3. /\ pc'[t] = "gone"
        /\ \A u \in Threads \ {t} :
             pc'[u] = pc[u] /\ chan'[u] = chan[u] /\ status'[u] = status[u] /\ wmsg'[u] = wmsg[u]
    BY DEF WaiterType, ThreadType
  <2> QED
    BY <2>2, <2>3 DEF WaiterListSound, WaiterType
<1>7. DeliveredReplyReturned'
  BY ConstantsAssumption DEF DeliveredReplyReturned, WaiterType, ThreadType, WaiterListSound
<1>8. CallHasPeer'
  <2>1. \A i \in Endpoints : waiters'[i] \subseteq waiters[i]
    BY DEF WaiterType
  <2> QED
    BY <2>1 DEF CallHasPeer, Zeroing
<1>9. TxidsUnique'
  BY DEF TxidsUnique, WaiterType, ThreadType, WaiterListSound
<1> QED
  BY <1>1, <1>2, <1>3, <1>4, <1>5, <1>6, <1>7, <1>8, <1>9

-----------------------------------------------------------------------------
\* Every step preserves the invariant.
LEMMA NextInv == IInv /\ [Next]_vars => IInv'
<1> SUFFICES ASSUME IInv, [Next]_vars PROVE IInv'
  OBVIOUS
<1>1. CASE UNCHANGED vars
  BY <1>1 DEF vars, IInv, TypeOK, EndpointType, WaiterType, ObserverType, ThreadType, SystemType,
     RefInv, LockInv, Notifying, Zeroing, WaiterListSound, DeliveredReplyReturned, CallHasPeer,
     TxidsUnique, ReadableIffMessages, OwnerInv
<1>2. ASSUME NEW t \in Threads, UserStep(t) PROVE IInv'
  <2> PICK e \in Endpoints :
        \/ \E op \in {"read", "write", "call"} : Lookup(t, e, op)
        \/ \E m \in (SUBSET Signals) \ {{}} : WaitOneBegin(t, e, m)
        \/ SendHandle(t, e) \/ ReceiveMessage(t, e) \/ CloseHandle(t, e)
    BY <1>2 DEF UserStep
  <2>1. ASSUME NEW op \in {"read", "write", "call"}, Lookup(t, e, op) PROVE IInv'
    BY <2>1, LookupStep DEF Ops
  <2>2. ASSUME NEW m \in SUBSET Signals, WaitOneBegin(t, e, m) PROVE IInv'
    BY <2>2, WaitOneBeginStep
  <2> QED
    BY <2>1, <2>2, SendHandleStep, ReceiveMessageStep, CloseHandleStep
<1>3. ASSUME NEW t \in Threads, KernelStep(t) PROVE IInv'
  <2>1. ASSUME NEW m \in Outgoing(t), WriteToQueue(t, m) PROVE IInv'
    BY <2>1, OutgoingType, WriteToQueueStep DEF IInv
  <2>2. ASSUME NEW m \in Outgoing(t), NEW w \in Threads, WriteToWaiter(t, m, w) PROVE IInv'
    BY <2>2, OutgoingType, WriteToWaiterStep DEF IInv
  <2>3. ASSUME NEW fits \in BOOLEAN, ReadPops(t, fits) PROVE IInv'
    BY <2>3, ReadPopsStep
  <2> QED
    BY <1>3, <2>1, <2>2, <2>3, WriteFailsStep, NotifyReadableStep, ReadFailsStep,
       CallTwiceStep, CallNotOwnerStep, CallNoPeerStep, CallSendsStep, EndWaitStep,
       WaitOneEndStep, ReceiveCancelObserversStep, ReceiveCancelWaitersStep,
       ReceiveAddHandleStep, CloseReturnsStep DEF KernelStep
<1>4. ASSUME NEW t \in Threads,
             \/ WaitDone(t) \/ WaitInterrupted(t) \/ CallFinish(t) \/ WaitOneDone(t)
             \/ ResumeException(t) \/ Exit(t) \/ DestroyThread(t)
      PROVE  IInv'
  BY <1>4, WaitDoneStep, WaitInterruptedStep, CallFinishStep, WaitOneDoneStep,
     ResumeExceptionStep, ExitStep, DestroyThreadStep
<1>5. ASSUME NEW e \in Endpoints, DeleteStep(e) \/ DiscardMessage(e) \/ Destroy(e)
      PROVE  IInv'
  BY <1>5, DeleteCancelStep, OnZeroHandlesStep, OnPeerZeroHandlesStep, DiscardMessageStep,
     DestroyStep DEF DeleteStep
<1>6. ASSUME NEW p \in Procs, Kill(p) PROVE IInv'
  BY <1>6, KillStep
<1> QED
  BY <1>1, <1>2, <1>3, <1>4, <1>5, <1>6 DEF Next

\* The inductive invariant holds in every state a channel reaches.
THEOREM Invariance == Spec => []IInv
  BY InitInv, NextInv, PTL DEF Spec

\* Every variable keeps to its type; in particular Call always finds a txid.
THEOREM TypeCorrect == Spec => []TypeOK
<1>1. IInv => TypeOK
  BY DEF IInv
<1> QED
  BY <1>1, Invariance, PTL

\* The waiter that ResumeInterruptedCall erases on a timeout is linked in the
\* list it is erased from, whatever raced the deadline.
THEOREM WaiterListCorrect == Spec => []WaiterListSound
<1>1. IInv => WaiterListSound
  BY DEF IInv
<1> QED
  BY <1>1, Invariance, PTL

\* No call is left waiting on an endpoint without a peer, however closes,
\* transfers, replies and calls interleave.
THEOREM CallsHavePeers == Spec => []NoCallWithoutPeer
<1>1. IInv => NoCallWithoutPeer
  BY EndpointFacts DEF IInv, CallHasPeer, LockInv, NoCallWithoutPeer
<1> QED
  BY <1>1, Invariance, PTL

\* A delivered reply stays with a call that will return ZX_OK, and no call
\* returns ZX_OK without one.
THEOREM RepliesCorrect == Spec => []DeliveredReplyReturned
<1>1. IInv => DeliveredReplyReturned
  BY DEF IInv
<1> QED
  BY <1>1, Invariance, PTL

\* Calls waiting on one endpoint have different kernel generated txids, for
\* every width of the counter that exceeds the number of threads.
THEOREM TxidsCorrect == Spec => []TxidsUnique
<1>1. IInv => TxidsUnique
  BY DEF IInv
<1> QED
  BY <1>1, Invariance, PTL

\* READABLE is active exactly when a message is queued.
THEOREM ReadableCorrect == Spec => []ReadableIffMessages
<1>1. IInv => ReadableIffMessages
  BY DEF IInv
<1> QED
  BY <1>1, Invariance, PTL
=============================================================================
