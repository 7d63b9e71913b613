-------------------------- MODULE ChannelWaitProofs --------------------------
(***************************************************************************)
(* What Channel guarantees of object_wait_one, of a transferred handle and *)
(* of a closed peer, for any number of threads, processes and messages.    *)
(*                                                                         *)
(* WInv is the inductive invariant of the observers, relative to IInv of   *)
(* ChannelProofs.  That no wakeup is lost is not inductive: between the    *)
(* two halves of WriteSelf an observer may match an active signal, and     *)
(* what saves it is that the holder of get_lock() is about to notify it    *)
(* with signals that include every active one.  That a wait ends with its  *)
(* handle needs who receives a handle, and what it has already canceled.   *)
(***************************************************************************)
EXTENDS ChannelProofs

\* An observer is queued at the endpoint its thread waits on, while it waits.
ObserversWait ==
  \A e \in Endpoints : \A t \in observers[e] : ref[t] = e /\ pc[t] \in {"waiting", "ending"}

\* A handle taken out of a message belongs to the one thread that receives it,
\* which finds no observer once it has canceled them.
Receiving(t) == pc[t] \in {"recv_observers", "recv_waiters", "recv_add"}
ReceiverInv ==
  /\ \A t \in Threads : Receiving(t) => handle[ref[t]] = "received"
  /\ \A t, u \in Threads : Receiving(t) /\ Receiving(u) /\ ref[t] = ref[u] => t = u
  /\ \A t \in Threads : pc[t] \in {"recv_waiters", "recv_add"} => observers[ref[t]] = {}

\* While WriteSelf has released channel_lock_, the signals it will notify with
\* include all those that are active, readers having at most cleared some.
NotifyInv == \A u \in Threads : Notifying(u) => signals[Other(ref[u])] \subseteq notify

\* An observer matches an active signal only if it is about to be notified.
ToBeNotified(e) == \E u \in Threads : Notifying(u) /\ Other(ref[u]) = e
WakeupInv ==
  \A e \in Endpoints : \A t \in observers[e] : mask[t] \cap signals[e] = {} \/ ToBeNotified(e)

\* The endpoints lose each other at the same time.
PeerInv ==
  \A e \in Endpoints : (peer[e] <=> peer[Other(e)]) /\ (peerHasClosed[e] => ~peer[e])

\* The inductive invariant, relative to IInv.
WInv == ObserversWait /\ ReceiverInv /\ NotifyInv /\ WakeupInv /\ WaitEndsWithHandle /\ PeerInv

USE DEF endVars, waitVars, obsVars, lockVars, retVars, procVars
-----------------------------------------------------------------------------
\* Steps that neither wait, notify nor receive, and leave the observers alone.
Passive(l) == l \notin {"waiting", "ending", "notify_write", "notify_call",
                        "recv_observers", "recv_waiters", "recv_add"}
SameThread(u) == pc'[u] = pc[u] /\ ref'[u] = ref[u]
Unwatched ==
  /\ UNCHANGED <<peer, peerHasClosed, observers, mask, notify>>
  /\ \A e \in Endpoints : signals'[e] \subseteq signals[e]
  /\ \A u \in Threads : SameThread(u) \/ (Passive(pc[u]) /\ Passive(pc'[u]))

\* The handle stays where it is, or leaves for a message or for deletion.
HandlesLeave ==
  \A e \in Endpoints :
    handle'[e] = handle[e] \/ (handle[e] # "received" /\ handle'[e] \in {"transit", "deleting"})

\* A step that leaves the observers alone, adds no signal, puts no handle in a
\* table and moves only threads that neither wait, notify nor receive keeps WInv.
LEMMA UnwatchedStep ==
  ASSUME IInv, WInv, Unwatched, HandlesLeave
  PROVE  WInv'
<1> USE DEF WInv, Unwatched, SameThread
<1>1. ObserversWait'
  BY DEF ObserversWait, Passive, IInv, TypeOK, ObserverType
<1>2. ReceiverInv'
  <2>1. ASSUME NEW u \in Threads, Receiving(u)'
        PROVE  Receiving(u) /\ SameThread(u) /\ ref[u] \in Endpoints
    BY <2>1 DEF Receiving, Passive, IInv, RefInv, InOperation
  <2> QED BY <2>1 DEF ReceiverInv, Receiving, HandlesLeave
<1>3. NotifyInv'
  <2>1. ASSUME NEW u \in Threads, Notifying(u)' PROVE Notifying(u) /\ SameThread(u)
    BY <2>1 DEF Notifying, Passive
  <2>2. ASSUME NEW u \in Threads, Notifying(u) PROVE Other(ref[u]) \in Endpoints
    BY <2>2, EndpointFacts DEF Notifying, IInv, RefInv, InOperation
  <2> QED BY <2>1, <2>2 DEF NotifyInv
<1>4. WakeupInv'
  <2>1. ASSUME NEW u \in Threads, Notifying(u) PROVE Notifying(u)' /\ SameThread(u)
    BY <2>1 DEF Notifying, Passive
  <2>2. \A e \in Endpoints : ToBeNotified(e) => ToBeNotified(e)'
    BY <2>1 DEF ToBeNotified
  <2> QED BY <2>2 DEF WakeupInv
<1>5. WaitEndsWithHandle'
  BY ProcFacts DEF WaitEndsWithHandle, HandlesLeave, HandleLimbo
<1>6. PeerInv'
  BY DEF PeerInv
<1> QED BY <1>1, <1>2, <1>3, <1>4, <1>5, <1>6

\* A lookup waits for nothing; a handle that is sent or closed leaves its table
\* with its waits still queued.
LEMMA UserStepUnwatched ==
  ASSUME IInv, NEW t \in Threads, NEW e \in Endpoints,
         \/ \E op \in {"read", "write", "call"} : Lookup(t, e, op)
         \/ SendHandle(t, e) \/ CloseHandle(t, e)
  PROVE  Unwatched /\ HandlesLeave
<1> USE EndpointFacts, ProcFacts DEF IInv, TypeOK, EndpointType, ThreadType, RefInv,
        InOperation, HandleLimbo, Unwatched, HandlesLeave, SameThread, Passive, MayCall,
        Goto
<1>1. ASSUME NEW op \in {"read", "write", "call"}, Lookup(t, e, op)
      PROVE  Unwatched /\ HandlesLeave
  BY <1>1 DEF Lookup
<1>2. CASE SendHandle(t, e)
  BY <1>2 DEF SendHandle
<1>3. CASE CloseHandle(t, e)
  BY <1>3 DEF CloseHandle
<1> QED BY <1>1, <1>2, <1>3

\* What the kernel does for a thread that neither waits, notifies nor receives: a
\* Read at most clears READABLE, a delivered reply activates no signal.
LEMMA KernelStepUnwatched ==
  ASSUME IInv, NEW t \in Threads,
         \/ WriteFails(t) \/ ReadFails(t) \/ \E fits \in BOOLEAN : ReadPops(t, fits)
         \/ \E m \in Outgoing(t) : \E w \in Threads : WriteToWaiter(t, m, w)
         \/ CallTwice(t) \/ CallNotOwner(t) \/ CallNoPeer(t) \/ EndWait(t) \/ CloseReturns(t)
  PROVE  Unwatched /\ HandlesLeave
<1> USE EndpointFacts, ProcFacts DEF IInv, TypeOK, EndpointType, ThreadType, RefInv,
        InOperation, HandleLimbo, Unwatched, HandlesLeave, SameThread, Passive, Goto,
        Return, Returns
<1>1. CASE WriteFails(t)
  BY <1>1 DEF WriteFails
<1>2. CASE ReadFails(t)
  BY <1>2 DEF ReadFails
<1>3. CASE \E fits \in BOOLEAN : ReadPops(t, fits)
  BY <1>3 DEF ReadPops
<1>4. CASE \E m \in Outgoing(t) : \E w \in Threads : WriteToWaiter(t, m, w)
  BY <1>4 DEF WriteToWaiter
<1>5. CASE CallTwice(t)
  BY <1>5 DEF CallTwice
<1>6. CASE CallNotOwner(t)
  BY <1>6 DEF CallNotOwner
<1>7. CASE CallNoPeer(t)
  BY <1>7 DEF CallNoPeer
<1>8. CASE EndWait(t)
  BY <1>8 DEF EndWait
<1>9. CASE CloseReturns(t)
  BY <1>9 DEF CloseReturns
<1> QED BY <1>1, <1>2, <1>3, <1>4, <1>5, <1>6, <1>7, <1>8, <1>9

\* The rest of a thread's life: the last thread of a process empties its table.
LEMMA ThreadStepUnwatched ==
  ASSUME IInv, NEW t \in Threads,
         \/ WaitDone(t) \/ WaitInterrupted(t) \/ CallFinish(t)
         \/ ResumeException(t) \/ Exit(t) \/ DestroyThread(t)
  PROVE  Unwatched /\ HandlesLeave
<1> USE EndpointFacts, ProcFacts DEF IInv, TypeOK, EndpointType, ThreadType, RefInv,
        InOperation, HandleLimbo, Unwatched, HandlesLeave, SameThread, Passive, Goto,
        Return, Returns
<1>1. CASE WaitDone(t)
  BY <1>1 DEF WaitDone
<1>2. CASE WaitInterrupted(t)
  BY <1>2 DEF WaitInterrupted
<1>3. CASE CallFinish(t)
  BY <1>3 DEF CallFinish
<1>4. CASE ResumeException(t)
  BY <1>4 DEF ResumeException
<1>5. CASE Exit(t)
  BY <1>5 DEF Exit
<1>6. CASE DestroyThread(t)
  BY <1>6 DEF DestroyThread
<1> QED BY <1>1, <1>2, <1>3, <1>4, <1>5, <1>6

\* A discarded message sends its handle to be deleted; a destroyed endpoint at
\* most loses READABLE; a kill only marks the process.
LEMMA EndpointStepUnwatched ==
  ASSUME IInv, \/ \E e \in Endpoints : DiscardMessage(e) \/ Destroy(e)
               \/ \E p \in Procs : Kill(p)
  PROVE  Unwatched /\ HandlesLeave
<1> USE EndpointFacts, ProcFacts DEF IInv, TypeOK, EndpointType, ThreadType, RefInv,
        InOperation, HandleLimbo, Unwatched, HandlesLeave, SameThread, Passive
<1>1. CASE \E e \in Endpoints : DiscardMessage(e)
  BY <1>1 DEF DiscardMessage
<1>2. CASE \E e \in Endpoints : Destroy(e)
  BY <1>2 DEF Destroy
<1>3. CASE \E p \in Procs : Kill(p)
  BY <1>3 DEF Kill
<1> QED BY <1>1, <1>2, <1>3
-----------------------------------------------------------------------------
\* WaitOneBegin: the observer is queued only if no active signal matches it,
\* and only while the handle is in the table of the waiting process.
LEMMA WaitOneBeginWaits ==
  ASSUME IInv, WInv, NEW t \in Threads, NEW e \in Endpoints, NEW m \in SUBSET Signals,
         WaitOneBegin(t, e, m)
  PROVE  WInv'
<1> USE DEF WaitOneBegin, MayCall, Goto, Returns, IInv, TypeOK, WInv
<1>1. /\ pc'[t] = "waiting" /\ ref'[t] = e /\ pc[t] = "idle" /\ mask'[t] = m
      /\ \A u \in Threads \ {t} : SameThread(u) /\ mask'[u] = mask[u]
  BY DEF ThreadType, ObserverType, SameThread
<1>2. \A i \in Endpoints : t \notin observers[i]
  BY <1>1 DEF ObserversWait
<1>3. /\ \A i \in Endpoints : observers'[i] \subseteq Threads
      /\ \A i \in Endpoints : i # e => observers'[i] = observers[i]
      /\ observers'[e] = observers[e]
         \/ (observers'[e] = observers[e] \cup {t} /\ signals[e] \cap m = {})
  BY DEF ObserverType
<1>4. ObserversWait'
  BY <1>1, <1>2, <1>3 DEF ObserversWait, SameThread
<1>5. ReceiverInv'
  <2>1. ASSUME NEW u \in Threads, Receiving(u)'
        PROVE  Receiving(u) /\ SameThread(u) /\ ref[u] \in Endpoints /\ ref[u] # e
    BY <1>1, <2>1, ProcFacts
       DEF Receiving, ReceiverInv, RefInv, InOperation, SameThread, HandleLimbo
  <2> QED BY <1>3, <2>1 DEF ReceiverInv, Receiving, SameThread
<1>6. NotifyInv'
  BY <1>1 DEF NotifyInv, Notifying, SameThread
<1>7. WakeupInv'
  <2>1. \A i \in Endpoints : ~ToBeNotified(i)
    BY DEF ToBeNotified, LockInv
  <2>2. signals' = signals
    OBVIOUS
  <2>3. ASSUME NEW i \in Endpoints, NEW u \in observers'[i]
        PROVE  mask'[u] \cap signals[i] = {}
    <3>1. CASE u = t
      BY <1>1, <1>2, <1>3, <3>1
    <3>2. CASE u # t
      BY <1>1, <1>3, <2>1, <3>2 DEF WakeupInv
    <3> QED BY <3>1, <3>2
  <2> QED BY <2>2, <2>3 DEF WakeupInv
<1>8. WaitEndsWithHandle'
  BY <1>3, ProcFacts DEF WaitEndsWithHandle, HandleLimbo
<1>9. PeerInv'
  BY DEF PeerInv
<1> QED BY <1>4, <1>5, <1>6, <1>7, <1>8, <1>9

\* WaitOneDone: the thread is woken; its observer stays until WaitOneEnd.
LEMMA WaitOneDoneWaits ==
  ASSUME IInv, WInv, NEW t \in Threads,
         WaitOneDone(t)
  PROVE  WInv'
<1> USE DEF WaitOneDone, Goto, IInv, TypeOK, WInv
<1>1. /\ pc'[t] = "ending" /\ pc[t] = "waiting" /\ ref' = ref
      /\ \A u \in Threads \ {t} : pc'[u] = pc[u]
  BY DEF ThreadType
<1>2. ObserversWait'
  BY <1>1 DEF ObserversWait, ObserverType
<1>3. ReceiverInv' /\ NotifyInv'
  BY <1>1 DEF ReceiverInv, Receiving, NotifyInv, Notifying
<1>4. WakeupInv'
  <2>1. \A i \in Endpoints : ToBeNotified(i) => ToBeNotified(i)'
    BY <1>1 DEF ToBeNotified, Notifying
  <2> QED BY <2>1 DEF WakeupInv
<1>5. WaitEndsWithHandle' /\ PeerInv'
  BY DEF WaitEndsWithHandle, PeerInv
<1> QED BY <1>2, <1>3, <1>4, <1>5

\* WaitOneEnd: RemoveObserver, at the one endpoint the observer can be queued at.
LEMMA WaitOneEndWaits ==
  ASSUME IInv, WInv, NEW t \in Threads,
         WaitOneEnd(t)
  PROVE  WInv'
<1> USE DEF WaitOneEnd, Return, Goto, Returns, IInv, TypeOK, WInv
<1>1. /\ pc'[t] = "idle" /\ pc[t] = "ending" /\ ref[t] \in Endpoints
      /\ \A u \in Threads \ {t} : SameThread(u)
  BY DEF ThreadType, SameThread, RefInv, InOperation
<1>2. \A i \in Endpoints : observers'[i] = observers[i] \ {t}
  BY <1>1 DEF ObserversWait, ObserverType
<1>3. ObserversWait'
  BY <1>1, <1>2 DEF ObserversWait, ObserverType, SameThread
<1>4. ReceiverInv'
  <2>1. ASSUME NEW u \in Threads, Receiving(u)'
        PROVE  Receiving(u) /\ SameThread(u) /\ ref[u] \in Endpoints
    BY <1>1, <2>1 DEF Receiving, RefInv, InOperation, SameThread
  <2> QED BY <1>2, <2>1 DEF ReceiverInv, Receiving, SameThread
<1>5. NotifyInv'
  BY <1>1 DEF NotifyInv, Notifying, SameThread
<1>6. WakeupInv'
  <2>1. \A i \in Endpoints : ~ToBeNotified(i)
    BY DEF ToBeNotified, LockInv
  <2> QED BY <1>2, <2>1 DEF WakeupInv
<1>7. WaitEndsWithHandle' /\ PeerInv'
  BY <1>2 DEF WaitEndsWithHandle, PeerInv
<1> QED BY <1>3, <1>4, <1>5, <1>6, <1>7

\* WriteSelf: an observer that READABLE wakes is notified by the writer, which
\* keeps get_lock() until then.
LEMMA WriteSelfWaits ==
  ASSUME IInv, WInv, NEW t \in Threads, NEW m, NEW next \in {"idle", "blocked"},
         pc[t] \in {"write", "call"}, ~glock,
         WriteSelf(Other(ref[t]), m, t, next),
         ref' = IF "READABLE" \in signals[Other(ref[t])]
                THEN [ref EXCEPT ![t] = NoChannel] ELSE ref,
         UNCHANGED <<handle, peer, peerHasClosed, observers, mask>>
  PROVE  WInv'
<1> DEFINE o == Other(ref[t])
<1> USE DEF IInv, TypeOK
<1>1. ref[t] \in Endpoints /\ o \in Endpoints
  BY EndpointFacts DEF RefInv, InOperation
<1>2. CASE "READABLE" \in signals[o]
  <2>1. signals' = signals /\ notify' = notify
    BY <1>1, <1>2 DEF WriteSelf, EndpointType
  <2>2. \A u \in Threads : SameThread(u) \/ (Passive(pc[u]) /\ Passive(pc'[u]))
    BY <1>2 DEF WriteSelf, Goto, SameThread, Passive, ThreadType
  <2>3. Unwatched /\ HandlesLeave
    BY <2>1, <2>2 DEF Unwatched, HandlesLeave
  <2> QED BY <2>3, UnwatchedStep
<1>3. CASE "READABLE" \notin signals[o]
  <2> USE DEF WInv
  <2>1. /\ pc'[t] \in {"notify_write", "notify_call"} /\ ref' = ref
        /\ \A u \in Threads \ {t} : pc'[u] = pc[u]
    BY <1>3 DEF WriteSelf, Goto, ThreadType
  <2>2. /\ signals'[o] = signals[o] \cup {"READABLE"} /\ notify' = signals'[o]
        /\ \A i \in Endpoints : i # o => signals'[i] = signals[i]
    BY <1>1, <1>3 DEF WriteSelf, EndpointType
  <2>3. \A u \in Threads : ~Notifying(u)
    BY DEF LockInv
  <2>4. ObserversWait'
    BY <2>1 DEF ObserversWait, ObserverType
  <2>5. ReceiverInv'
    BY <2>1 DEF ReceiverInv, Receiving
  <2>6. NotifyInv'
    <3>1. \A u \in Threads : Notifying(u)' => u = t
      BY <2>1, <2>3 DEF Notifying
    <3> QED BY <2>1, <2>2, <3>1 DEF NotifyInv
  <2>7. WakeupInv'
    <3>1. \A i \in Endpoints : i = o => ToBeNotified(i)'
      BY <2>1 DEF ToBeNotified, Notifying
    <3>2. \A i \in Endpoints : ~ToBeNotified(i)
      BY <2>3 DEF ToBeNotified
    <3>3. \A i \in Endpoints : i # o => \A u \in observers'[i] : mask'[u] \cap signals'[i] = {}
      BY <2>2, <3>2 DEF WakeupInv
    <3> QED BY <3>1, <3>3 DEF WakeupInv
  <2>8. WaitEndsWithHandle' /\ PeerInv'
    BY DEF WaitEndsWithHandle, PeerInv
  <2> QED BY <2>4, <2>5, <2>6, <2>7, <2>8
<1> QED BY <1>2, <1>3

\* WriteToQueue: Write queues the message with WriteSelf.
LEMMA WriteToQueueWaits ==
  ASSUME IInv, WInv, NEW t \in Threads, NEW m \in Message,
         WriteToQueue(t, m)
  PROVE  WInv'
  BY WriteSelfWaits DEF WriteToQueue

\* CallSends: Call queues its request with WriteSelf.
LEMMA CallSendsWaits ==
  ASSUME IInv, WInv, NEW t \in Threads,
         CallSends(t)
  PROVE  WInv'
<1> DEFINE m == [txid |-> GenerateTxid(ref[t], AllocTxid(ref[t])), id |-> calls + 1, re |-> 0]
<1>1. /\ pc[t] \in {"write", "call"} /\ ~glock
      /\ WriteSelf(Other(ref[t]), m, t, "blocked")
      /\ ref' = IF "READABLE" \in signals[Other(ref[t])]
                THEN [ref EXCEPT ![t] = NoChannel] ELSE ref
      /\ UNCHANGED <<handle, peer, peerHasClosed, observers, mask>>
  BY DEF CallSends
<1> QED BY <1>1, WriteSelfWaits

\* NotifyReadable: the observers left over match none of the signals notified,
\* so none of the active ones.
LEMMA NotifyReadableWaits ==
  ASSUME IInv, WInv, NEW t \in Threads,
         NotifyReadable(t)
  PROVE  WInv'
<1> DEFINE o == Other(ref[t])
<1> USE DEF NotifyReadable, NotifyObserversLocked, Goto, IInv, TypeOK, WInv
<1>1. /\ Notifying(t) /\ pc'[t] \in {"idle", "blocked"}
      /\ ref[t] \in Endpoints /\ o \in Endpoints
      /\ \A u \in Threads \ {t} : SameThread(u) /\ ~Notifying(u)
  BY EndpointFacts DEF ThreadType, SameThread, RefInv, InOperation, Notifying, LockInv
<1>2. /\ observers'[o] = observers[o] \ Matching(o, notify)
      /\ \A i \in Endpoints : i # o => observers'[i] = observers[i]
  BY <1>1 DEF ObserverType
<1>3. \A i \in Endpoints : observers'[i] \subseteq observers[i]
  BY <1>2
<1>4. ObserversWait'
  <2>1. \A i \in Endpoints : t \notin observers[i]
    BY <1>1 DEF ObserversWait, Notifying
  <2> QED BY <1>1, <1>3, <2>1 DEF ObserversWait, ObserverType, SameThread
<1>5. ReceiverInv'
  <2>1. ASSUME NEW u \in Threads, Receiving(u)'
        PROVE  Receiving(u) /\ SameThread(u) /\ ref[u] \in Endpoints
    BY <1>1, <2>1 DEF Receiving, RefInv, InOperation, SameThread
  <2> QED BY <1>3, <2>1 DEF ReceiverInv, Receiving, SameThread
<1>6. NotifyInv'
  BY <1>1 DEF NotifyInv, Notifying, SameThread
<1>7. WakeupInv'
  <2>1. signals[o] \subseteq notify
    BY <1>1 DEF NotifyInv
  <2>2. \A u \in observers'[o] : mask[u] \cap signals[o] = {}
    BY <1>2, <2>1 DEF Matching
  <2>3. \A i \in Endpoints : i # o => ~ToBeNotified(i)
    BY <1>1 DEF ToBeNotified
  <2>4. \A i \in Endpoints : \A u \in observers'[i] : mask[u] \cap signals[i] = {}
    BY <1>2, <2>2, <2>3 DEF WakeupInv
  <2> QED BY <2>4 DEF WakeupInv
<1>8. WaitEndsWithHandle' /\ PeerInv'
  BY <1>3 DEF WaitEndsWithHandle, PeerInv
<1> QED BY <1>4, <1>5, <1>6, <1>7, <1>8

\* ReceiveMessage: the handle goes to one thread.
LEMMA ReceiveMessageWaits ==
  ASSUME IInv, WInv, NEW t \in Threads, NEW e \in Endpoints,
         ReceiveMessage(t, e)
  PROVE  WInv'
<1> USE DEF ReceiveMessage, MayCall, Goto, IInv, TypeOK, WInv
<1>1. /\ pc[t] = "idle" /\ pc'[t] = "recv_observers" /\ ref'[t] = e
      /\ handle[e] = "transit" /\ handle'[e] = "received"
      /\ \A i \in Endpoints : i # e => handle'[i] = handle[i]
      /\ \A u \in Threads \ {t} : SameThread(u)
  BY DEF ThreadType, EndpointType, SameThread
<1>2. ObserversWait'
  BY <1>1 DEF ObserversWait, ObserverType, SameThread
<1>3. ReceiverInv'
  <2>1. ASSUME NEW u \in Threads, Receiving(u)', u # t
        PROVE  Receiving(u) /\ SameThread(u) /\ ref[u] \in Endpoints /\ ref[u] # e
    BY <1>1, <2>1 DEF Receiving, ReceiverInv, RefInv, InOperation, SameThread
  <2> QED BY <1>1, <2>1 DEF ReceiverInv, Receiving, SameThread
<1>4. NotifyInv'
  BY <1>1 DEF NotifyInv, Notifying, SameThread
<1>5. WakeupInv'
  <2>1. \A i \in Endpoints : ToBeNotified(i) => ToBeNotified(i)'
    BY <1>1 DEF ToBeNotified, Notifying, SameThread
  <2> QED BY <2>1 DEF WakeupInv
<1>6. WaitEndsWithHandle' /\ PeerInv'
  BY <1>1, ProcFacts DEF WaitEndsWithHandle, PeerInv, HandleLimbo
<1> QED BY <1>2, <1>3, <1>4, <1>5, <1>6

\* CancelObservers only removes observers.
LEMMA CancelObserversRemoves ==
  ASSUME ObserverType, NEW e \in Endpoints, CancelObservers(e)
  PROVE  /\ observers'[e] = {} /\ mask' = mask
         /\ \A i \in Endpoints : observers'[i] \subseteq observers[i]
  BY DEF ObserverType, CancelObservers

\* ReceiveCancelObservers: no wait of the previous owner is left.
LEMMA ReceiveCancelObserversWaits ==
  ASSUME IInv, WInv, NEW t \in Threads,
         ReceiveCancelObservers(t)
  PROVE  WInv'
<1> USE DEF ReceiveCancelObservers, Goto, IInv, TypeOK, WInv
<1>1. /\ pc[t] = "recv_observers" /\ pc'[t] = "recv_waiters" /\ ref' = ref
      /\ ref[t] \in Endpoints
      /\ \A u \in Threads \ {t} : pc'[u] = pc[u]
  BY DEF ThreadType, RefInv, InOperation
<1>2. /\ observers'[ref[t]] = {} /\ mask' = mask
      /\ \A i \in Endpoints : observers'[i] \subseteq observers[i]
  BY <1>1, CancelObserversRemoves
<1>3. ObserversWait'
  BY <1>1, <1>2 DEF ObserversWait, ObserverType
<1>4. ReceiverInv'
  <2>1. ASSUME NEW u \in Threads, Receiving(u)' PROVE Receiving(u) /\ ref[u] \in Endpoints
    BY <1>1, <2>1 DEF Receiving, RefInv, InOperation
  <2>2. ASSUME NEW u \in Threads, pc'[u] \in {"recv_waiters", "recv_add"}
        PROVE  observers'[ref[u]] = {}
    BY <1>1, <1>2, <2>1, <2>2 DEF ReceiverInv, Receiving
  <2> QED BY <1>1, <2>1, <2>2 DEF ReceiverInv, Receiving
<1>5. NotifyInv'
  BY <1>1 DEF NotifyInv, Notifying
<1>6. WakeupInv'
  <2>1. \A i \in Endpoints : ~ToBeNotified(i)
    BY DEF ToBeNotified, LockInv
  <2> QED BY <1>2, <2>1 DEF WakeupInv
<1>7. WaitEndsWithHandle' /\ PeerInv'
  BY <1>2 DEF WaitEndsWithHandle, PeerInv
<1> QED BY <1>3, <1>4, <1>5, <1>6, <1>7

\* ReceiveCancelWaiters: still no wait, for the handle is in no table.
LEMMA ReceiveCancelWaitersWaits ==
  ASSUME IInv, WInv, NEW t \in Threads,
         ReceiveCancelWaiters(t)
  PROVE  WInv'
<1> USE DEF ReceiveCancelWaiters, Goto, IInv, TypeOK, WInv
<1>1. /\ pc[t] = "recv_waiters" /\ pc'[t] = "recv_add" /\ ref' = ref
      /\ \A u \in Threads \ {t} : pc'[u] = pc[u]
  BY DEF ThreadType
<1>2. ObserversWait' /\ NotifyInv'
  BY <1>1 DEF ObserversWait, ObserverType, NotifyInv, Notifying
<1>3. ReceiverInv'
  BY <1>1 DEF ReceiverInv, Receiving
<1>4. WakeupInv'
  <2>1. \A i \in Endpoints : ~ToBeNotified(i)
    BY DEF ToBeNotified, LockInv
  <2> QED BY <2>1 DEF WakeupInv
<1>5. WaitEndsWithHandle' /\ PeerInv'
  BY DEF WaitEndsWithHandle, PeerInv
<1> QED BY <1>2, <1>3, <1>4, <1>5

\* ReceiveAddHandle: the handle enters its new table with no wait pending.
LEMMA ReceiveAddHandleWaits ==
  ASSUME IInv, WInv, NEW t \in Threads,
         ReceiveAddHandle(t)
  PROVE  WInv'
<1> USE DEF ReceiveAddHandle, Goto, IInv, TypeOK, WInv
<1>1. /\ pc[t] = "recv_add" /\ pc'[t] = "idle" /\ ref[t] \in Endpoints
      /\ handle'[ref[t]] = ProcOf[t]
      /\ \A i \in Endpoints : i # ref[t] => handle'[i] = handle[i]
      /\ \A u \in Threads \ {t} : SameThread(u)
  BY DEF ThreadType, EndpointType, SameThread, RefInv, InOperation
<1>2. observers[ref[t]] = {}
  BY <1>1 DEF ReceiverInv
<1>3. ObserversWait'
  BY <1>1 DEF ObserversWait, ObserverType, SameThread
<1>4. ReceiverInv'
  <2>1. ASSUME NEW u \in Threads, Receiving(u)'
        PROVE  Receiving(u) /\ SameThread(u) /\ ref[u] \in Endpoints /\ ref[u] # ref[t]
    <3>1. Receiving(u) /\ SameThread(u) /\ u # t
      BY <1>1, <2>1 DEF Receiving, SameThread
    <3> QED BY <1>1, <3>1 DEF Receiving, ReceiverInv, RefInv, InOperation
  <2> QED BY <1>1, <2>1 DEF ReceiverInv, Receiving, SameThread
<1>5. NotifyInv'
  BY <1>1 DEF NotifyInv, Notifying, SameThread
<1>6. WakeupInv'
  <2>1. \A i \in Endpoints : ~ToBeNotified(i)
    BY DEF ToBeNotified, LockInv
  <2> QED BY <2>1 DEF WakeupInv
<1>7. WaitEndsWithHandle'
  BY <1>1, <1>2, ProcFacts DEF WaitEndsWithHandle, HandleLimbo
<1>8. PeerInv'
  BY DEF PeerInv
<1> QED BY <1>3, <1>4, <1>5, <1>6, <1>7, <1>8

\* DeleteCancel: a deleted handle has no wait left.
LEMMA DeleteCancelWaits ==
  ASSUME IInv, WInv, NEW e \in Endpoints,
         DeleteCancel(e)
  PROVE  WInv'
<1> USE DEF DeleteCancel, IInv, TypeOK, WInv
<1>1. /\ observers'[e] = {} /\ mask' = mask
      /\ \A i \in Endpoints : observers'[i] \subseteq observers[i]
  BY CancelObserversRemoves
<1>2. /\ handle[e] = "deleting" /\ handle'[e] = "canceled"
      /\ \A i \in Endpoints : i # e => handle'[i] = handle[i]
  BY DEF EndpointType
<1>3. ObserversWait' /\ NotifyInv'
  BY <1>1 DEF ObserversWait, NotifyInv, Notifying
<1>4. ReceiverInv'
  <2>1. ASSUME NEW u \in Threads, Receiving(u) PROVE ref[u] \in Endpoints /\ ref[u] # e
    BY <1>2, <2>1 DEF Receiving, ReceiverInv, RefInv, InOperation
  <2> QED BY <1>1, <1>2, <2>1 DEF ReceiverInv, Receiving
<1>5. WakeupInv'
  <2>1. \A i \in Endpoints : ~ToBeNotified(i)
    BY DEF ToBeNotified, LockInv
  <2> QED BY <1>1, <2>1 DEF WakeupInv
<1>6. WaitEndsWithHandle'
  BY <1>1, <1>2, ProcFacts DEF WaitEndsWithHandle, HandleLimbo
<1>7. PeerInv'
  BY DEF PeerInv
<1> QED BY <1>3, <1>4, <1>5, <1>6, <1>7

\* OnZeroHandles: both endpoints lose their peer in one step.
LEMMA OnZeroHandlesWaits ==
  ASSUME IInv, WInv, NEW e \in Endpoints,
         OnZeroHandles(e)
  PROVE  WInv'
<1> USE DEF OnZeroHandles, IInv, TypeOK, WInv
<1>1. /\ handle[e] = "canceled" /\ handle'[e] \in {"zeroing", "closed"}
      /\ \A i \in Endpoints : i # e => handle'[i] = handle[i]
  BY DEF EndpointType
<1>2. ObserversWait' /\ NotifyInv'
  BY DEF ObserversWait, NotifyInv, Notifying
<1>3. ReceiverInv'
  <2>1. ASSUME NEW u \in Threads, Receiving(u) PROVE ref[u] \in Endpoints /\ ref[u] # e
    BY <1>1, <2>1 DEF Receiving, ReceiverInv, RefInv, InOperation
  <2> QED BY <1>1, <2>1 DEF ReceiverInv, Receiving
<1>4. WakeupInv'
  <2>1. \A i \in Endpoints : ~ToBeNotified(i)
    BY DEF ToBeNotified, LockInv
  <2> QED BY <2>1 DEF WakeupInv
<1>5. WaitEndsWithHandle'
  BY <1>1, ProcFacts DEF WaitEndsWithHandle, HandleLimbo
<1>6. PeerInv'
  <2>1. CASE peer[e]
    <3>1. \A i \in Endpoints : ~peer'[i]
      BY <2>1
    <3> QED BY <3>1, EndpointFacts DEF PeerInv
  <2>2. CASE ~peer[e]
    BY <2>2 DEF PeerInv
  <2> QED BY <2>1, <2>2
<1> QED BY <1>2, <1>3, <1>4, <1>5, <1>6

\* OnPeerZeroHandles: the observers left over match no active signal.
LEMMA OnPeerZeroHandlesWaits ==
  ASSUME IInv, WInv, NEW e \in Endpoints,
         OnPeerZeroHandles(e)
  PROVE  WInv'
<1> DEFINE o == Other(e)
           updated == (signals[o] \ {"WRITABLE"}) \cup {"PEER_CLOSED"}
<1> USE DEF OnPeerZeroHandles, NotifyObserversLocked, IInv, TypeOK, WInv
<1>1. /\ handle[e] = "zeroing" /\ handle'[e] = "closed" /\ o \in Endpoints
      /\ \A i \in Endpoints : i # e => handle'[i] = handle[i]
  BY EndpointFacts DEF EndpointType
<1>2. /\ observers'[o] = observers[o] \ Matching(o, updated) /\ signals'[o] = updated
      /\ \A i \in Endpoints : i # o => observers'[i] = observers[i] /\ signals'[i] = signals[i]
  BY <1>1 DEF ObserverType, EndpointType
<1>3. \A i \in Endpoints : observers'[i] \subseteq observers[i]
  BY <1>2
<1>4. \A u \in Threads : ~Notifying(u)
  BY <1>1 DEF LockInv, Zeroing
<1>5. ObserversWait' /\ NotifyInv'
  BY <1>3, <1>4 DEF ObserversWait, NotifyInv, Notifying
<1>6. ReceiverInv'
  <2>1. ASSUME NEW u \in Threads, Receiving(u) PROVE ref[u] \in Endpoints /\ ref[u] # e
    BY <1>1, <2>1 DEF Receiving, ReceiverInv, RefInv, InOperation
  <2> QED BY <1>1, <1>3, <2>1 DEF ReceiverInv, Receiving
<1>7. WakeupInv'
  <2>1. \A i \in Endpoints : ~ToBeNotified(i)
    BY <1>4 DEF ToBeNotified
  <2>2. \A u \in observers'[o] : mask[u] \cap signals'[o] = {}
    BY <1>2 DEF Matching
  <2>3. \A i \in Endpoints : \A u \in observers'[i] : mask[u] \cap signals'[i] = {}
    BY <1>2, <2>1, <2>2 DEF WakeupInv
  <2> QED BY <2>3 DEF WakeupInv
<1>8. WaitEndsWithHandle'
  BY <1>1, <1>3, ProcFacts DEF WaitEndsWithHandle, HandleLimbo
<1>9. PeerInv'
  BY DEF PeerInv
<1> QED BY <1>5, <1>6, <1>7, <1>8, <1>9
-----------------------------------------------------------------------------
\* A new channel has no observer and both its peers.
LEMMA InitWaits == Init => WInv
<1> SUFFICES ASSUME Init PROVE WInv
  OBVIOUS
<1>1. ObserversWait /\ ReceiverInv /\ NotifyInv /\ WakeupInv /\ WaitEndsWithHandle
  BY DEF Init, ObserversWait, ReceiverInv, Receiving, NotifyInv, Notifying, WakeupInv,
         WaitEndsWithHandle
<1>2. PeerInv
  BY EndpointFacts DEF Init, PeerInv
<1> QED BY <1>1, <1>2 DEF WInv

\* Every step preserves the invariant.
LEMMA NextWaits == IInv /\ WInv /\ [Next]_vars => WInv'
<1> SUFFICES ASSUME IInv, WInv, [Next]_vars PROVE WInv'
  OBVIOUS
<1>1. CASE UNCHANGED vars
  <2>1. Unwatched /\ HandlesLeave
    BY <1>1 DEF vars, Unwatched, HandlesLeave, SameThread
  <2> QED BY <2>1, UnwatchedStep
<1>2. ASSUME NEW t \in Threads, UserStep(t) PROVE WInv'
  <2> PICK e \in Endpoints :
        \/ \E op \in {"read", "write", "call"} : Lookup(t, e, op)
        \/ \E m \in (SUBSET Signals) \ {{}} : WaitOneBegin(t, e, m)
        \/ SendHandle(t, e) \/ ReceiveMessage(t, e) \/ CloseHandle(t, e)
    BY <1>2 DEF UserStep
  <2>1. ASSUME NEW m \in SUBSET Signals, WaitOneBegin(t, e, m) PROVE WInv'
    BY <2>1, WaitOneBeginWaits
  <2> QED BY <2>1, ReceiveMessageWaits, UserStepUnwatched, UnwatchedStep
<1>3. ASSUME NEW t \in Threads, KernelStep(t) PROVE WInv'
  <2>1. ASSUME NEW m \in Outgoing(t), WriteToQueue(t, m) PROVE WInv'
    BY <2>1, OutgoingType, WriteToQueueWaits DEF IInv
  <2> QED
    BY <1>3, <2>1, KernelStepUnwatched, UnwatchedStep, NotifyReadableWaits, CallSendsWaits,
       WaitOneEndWaits, ReceiveCancelObserversWaits, ReceiveCancelWaitersWaits,
       ReceiveAddHandleWaits DEF KernelStep
<1>4. ASSUME NEW t \in Threads,
             \/ WaitDone(t) \/ WaitInterrupted(t) \/ CallFinish(t) \/ WaitOneDone(t)
             \/ ResumeException(t) \/ Exit(t) \/ DestroyThread(t)
      PROVE  WInv'
  BY <1>4, ThreadStepUnwatched, UnwatchedStep, WaitOneDoneWaits
<1>5. ASSUME NEW e \in Endpoints, DeleteStep(e) \/ DiscardMessage(e) \/ Destroy(e)
      PROVE  WInv'
  BY <1>5, EndpointStepUnwatched, UnwatchedStep, DeleteCancelWaits, OnZeroHandlesWaits,
     OnPeerZeroHandlesWaits DEF DeleteStep
<1>6. ASSUME NEW p \in Procs, Kill(p) PROVE WInv'
  BY <1>6, EndpointStepUnwatched, UnwatchedStep DEF Endpoints
<1> QED
  BY <1>1, <1>2, <1>3, <1>4, <1>5, <1>6 DEF Next

\* The invariant of the observers holds in every state a channel reaches.
THEOREM WaitInvariance == Spec => [](IInv /\ WInv)
  BY InitInv, InitWaits, NextInv, NextWaits, PTL DEF Spec

\* No wait_one observer is queued for an active signal while get_lock() is
\* free, however reads, writes, closes and transfers interleave.
THEOREM Wakeups == Spec => []NoLostWakeup
<1>1. IInv /\ WInv => NoLostWakeup
  <2>1. ASSUME IInv, ~glock, NEW e \in Endpoints PROVE ~ToBeNotified(e)
    BY <2>1 DEF ToBeNotified, IInv, LockInv
  <2> QED BY <2>1 DEF WInv, WakeupInv, NoLostWakeup
<1> QED BY <1>1, WaitInvariance, PTL

\* No wait outlives the handle it was made on, whether that is closed, dies
\* with its process, or goes to another process.
THEOREM WaitsEnd == Spec => []WaitEndsWithHandle
<1>1. WInv => WaitEndsWithHandle
  BY DEF WInv
<1> QED BY <1>1, WaitInvariance, PTL
-----------------------------------------------------------------------------
\* A thread leaves read, write or call by an action of its own, and those that
\* move a message or a waiter test the owner first.
LEMMA MovesAsOwner ==
  ASSUME IInv, Next, NEW t \in Threads,
         pc[t] \in {"read", "write", "call"}, pc'[t] # pc[t],
         messages' # messages \/ waiters' # waiters
  PROVE  ProcOf[t] = owner[ref[t]]
<1> USE DEF IInv, TypeOK, ThreadType, Goto
<1>1. ASSUME NEW u \in Threads, UserStep(u) PROVE FALSE
  BY <1>1 DEF UserStep, Lookup, WaitOneBegin, SendHandle, ReceiveMessage, CloseHandle, MayCall
<1>2. ASSUME NEW u \in Threads, KernelStep(u) PROVE ProcOf[t] = owner[ref[t]]
  <2>1. ASSUME NEW m \in Outgoing(u), WriteToQueue(u, m) PROVE ProcOf[t] = owner[ref[t]]
    BY <2>1 DEF WriteToQueue, WriteSelf
  <2>2. ASSUME NEW m \in Outgoing(u), NEW w \in Threads, WriteToWaiter(u, m, w)
        PROVE  ProcOf[t] = owner[ref[t]]
    BY <2>2 DEF WriteToWaiter, Return
  <2>3. ASSUME NEW fits \in BOOLEAN, ReadPops(u, fits) PROVE ProcOf[t] = owner[ref[t]]
    BY <2>3 DEF ReadPops, Return
  <2>4. CASE CallSends(u)
    BY <2>4 DEF CallSends, WriteSelf
  <2>5. CASE WriteFails(u) \/ ReadFails(u) \/ CallTwice(u) \/ CallNotOwner(u) \/ CallNoPeer(u)
    BY <2>5 DEF WriteFails, ReadFails, CallTwice, CallNotOwner, CallNoPeer
  <2>6. CASE NotifyReadable(u) \/ EndWait(u) \/ WaitOneEnd(u)
             \/ ReceiveCancelObservers(u) \/ ReceiveCancelWaiters(u) \/ ReceiveAddHandle(u)
             \/ CloseReturns(u)
    BY <2>6 DEF NotifyReadable, EndWait, WaitOneEnd, Return, ReceiveCancelObservers,
       ReceiveCancelWaiters, ReceiveAddHandle, CloseReturns
  <2> QED BY <1>2, <2>1, <2>2, <2>3, <2>4, <2>5, <2>6 DEF KernelStep
<1>3. ASSUME NEW u \in Threads,
             \/ WaitDone(u) \/ WaitInterrupted(u) \/ CallFinish(u) \/ WaitOneDone(u)
             \/ ResumeException(u) \/ Exit(u) \/ DestroyThread(u)
      PROVE  FALSE
  BY <1>3 DEF WaitDone, WaitInterrupted, CallFinish, Return, WaitOneDone, ResumeException,
     Exit, DestroyThread
<1>4. ASSUME NEW e \in Endpoints, DeleteStep(e) \/ DiscardMessage(e) \/ Destroy(e) PROVE FALSE
  BY <1>4 DEF DeleteStep, DeleteCancel, OnZeroHandles, OnPeerZeroHandles, DiscardMessage, Destroy
<1>5. ASSUME NEW p \in Procs, Kill(p) PROVE FALSE
  BY <1>5 DEF Kill
<1> QED BY <1>1, <1>2, <1>3, <1>4, <1>5 DEF Next

\* A thread that looked the handle up before it was given to another process
\* moves no message once that process has it: the owner test of Read, Write
\* and Call refuses it, for owner_ always names the process with the handle.
THEOREM OldOwners == Spec => OldOwnerShutOut
<1>1. IInv /\ [Next]_vars =>
        [\A t \in Threads :
           (/\ pc[t] \in {"read", "write", "call"} /\ pc'[t] # pc[t]
            /\ messages' # messages \/ waiters' # waiters
            /\ handle[ref[t]] \in Procs)
           => handle[ref[t]] = ProcOf[t]]_vars
  <2>1. SUFFICES ASSUME IInv, Next, NEW t \in Threads,
                        pc[t] \in {"read", "write", "call"}, pc'[t] # pc[t],
                        messages' # messages \/ waiters' # waiters,
                        handle[ref[t]] \in Procs
                 PROVE  handle[ref[t]] = ProcOf[t]
    OBVIOUS
  <2>2. ProcOf[t] = owner[ref[t]]
    BY <2>1, MovesAsOwner
  <2>3. ref[t] \in Endpoints
    BY <2>1 DEF IInv, RefInv, InOperation
  <2> QED BY <2>1, <2>2, <2>3 DEF IInv, OwnerInv
<1> QED BY <1>1, Invariance, PTL DEF Spec, OldOwnerShutOut
-----------------------------------------------------------------------------
\* What a step may do to the queue of an endpoint whose peer is closed.
LEMMA QueueAfterClose ==
  ASSUME IInv, WInv, [Next]_vars, NEW e \in Endpoints, peerHasClosed[e]
  PROVE  /\ peerHasClosed'[e]
         /\ \/ messages'[e] = messages[e]
            \/ messages[e] # <<>> /\ messages'[e] = Tail(messages[e])
            \/ handle[e] = "closed"
<1> DEFINE Kept == /\ peerHasClosed'[e]
                   /\ \/ messages'[e] = messages[e]
                      \/ messages[e] # <<>> /\ messages'[e] = Tail(messages[e])
                      \/ handle[e] = "closed"
<1> USE DEF IInv, TypeOK, EndpointType
<1>1. CASE UNCHANGED vars
  BY <1>1 DEF vars
<1>2. ASSUME NEW u \in Threads, UserStep(u) PROVE Kept
  BY <1>2 DEF UserStep, Lookup, WaitOneBegin, SendHandle, ReceiveMessage, CloseHandle
<1>3. ASSUME NEW u \in Threads, KernelStep(u) PROVE Kept
  <2>1. ASSUME NEW i \in Endpoints PROVE ~peer[i]
    BY EndpointFacts DEF WInv, PeerInv
  <2>2. pc[u] \in {"write", "call", "read"} => ref[u] \in Endpoints
    BY DEF RefInv, InOperation
  <2>3. ASSUME NEW m \in Outgoing(u), WriteToQueue(u, m) PROVE FALSE
    BY <2>1, <2>2, <2>3 DEF WriteToQueue
  <2>4. ASSUME NEW m \in Outgoing(u), NEW w \in Threads, WriteToWaiter(u, m, w) PROVE Kept
    BY <2>4 DEF WriteToWaiter
  <2>5. ASSUME NEW fits \in BOOLEAN, ReadPops(u, fits) PROVE Kept
    BY <2>2, <2>5 DEF ReadPops
  <2>6. CASE CallSends(u)
    BY <2>1, <2>2, <2>6 DEF CallSends
  <2>7. CASE WriteFails(u) \/ ReadFails(u) \/ CallTwice(u) \/ CallNotOwner(u) \/ CallNoPeer(u)
    BY <2>7 DEF WriteFails, ReadFails, CallTwice, CallNotOwner, CallNoPeer
  <2>8. CASE NotifyReadable(u) \/ EndWait(u) \/ WaitOneEnd(u)
             \/ ReceiveCancelObservers(u) \/ ReceiveCancelWaiters(u) \/ ReceiveAddHandle(u)
             \/ CloseReturns(u)
    BY <2>8 DEF NotifyReadable, EndWait, WaitOneEnd, ReceiveCancelObservers,
       ReceiveCancelWaiters, ReceiveAddHandle, CloseReturns
  <2> QED BY <1>3, <2>3, <2>4, <2>5, <2>6, <2>7, <2>8 DEF KernelStep
<1>4. ASSUME NEW u \in Threads,
             \/ WaitDone(u) \/ WaitInterrupted(u) \/ CallFinish(u) \/ WaitOneDone(u)
             \/ ResumeException(u) \/ Exit(u) \/ DestroyThread(u)
      PROVE  Kept
  BY <1>4 DEF WaitDone, WaitInterrupted, CallFinish, WaitOneDone, ResumeException,
     Exit, DestroyThread
<1>5. ASSUME NEW i \in Endpoints, DeleteStep(i) \/ DiscardMessage(i) \/ Destroy(i) PROVE Kept
  <2>1. CASE DeleteCancel(i) \/ OnPeerZeroHandles(i) \/ DiscardMessage(i)
    BY <2>1 DEF DeleteCancel, OnPeerZeroHandles, DiscardMessage
  <2>2. CASE OnZeroHandles(i)
    <3>1. messages' = messages
      BY <2>2 DEF OnZeroHandles
    <3>2. peerHasClosed'[e]
      BY <2>2, EndpointFacts DEF OnZeroHandles
    <3> QED BY <3>1, <3>2
  <2>3. CASE Destroy(i)
    BY <2>3 DEF Destroy
  <2> QED BY <1>5, <2>1, <2>2, <2>3 DEF DeleteStep
<1>6. ASSUME NEW p \in Procs, Kill(p) PROVE Kept
  BY <1>6 DEF Kill
<1> QED BY <1>1, <1>2, <1>3, <1>4, <1>5, <1>6 DEF Next

\* Read reports PEER_CLOSED only from an empty queue.
LEMMA ReadSeesClose ==
  ASSUME IInv, Next, NEW t \in Threads,
         pc[t] = "read", pc'[t] = "idle", ret'[t] = "PEER_CLOSED"
  PROVE  messages[ref[t]] = <<>>
<1> USE DEF IInv, TypeOK, ThreadType, Goto, Return, Returns
<1>1. ASSUME NEW u \in Threads, UserStep(u) PROVE FALSE
  BY <1>1 DEF UserStep, Lookup, WaitOneBegin, SendHandle, ReceiveMessage, CloseHandle, MayCall
<1>2. ASSUME NEW u \in Threads, KernelStep(u) PROVE messages[ref[t]] = <<>>
  <2>1. ASSUME NEW m \in Outgoing(u), WriteToQueue(u, m) PROVE FALSE
    BY <2>1 DEF WriteToQueue, WriteSelf
  <2>2. ASSUME NEW m \in Outgoing(u), NEW w \in Threads, WriteToWaiter(u, m, w) PROVE FALSE
    BY <2>2 DEF WriteToWaiter
  <2>3. ASSUME NEW fits \in BOOLEAN, ReadPops(u, fits) PROVE FALSE
    BY <2>3 DEF ReadPops
  <2>4. CASE ReadFails(u)
    BY <2>4 DEF ReadFails
  <2>5. CASE WriteFails(u) \/ CallTwice(u) \/ CallNotOwner(u) \/ CallNoPeer(u) \/ CallSends(u)
    BY <2>5 DEF WriteFails, CallTwice, CallNotOwner, CallNoPeer, CallSends, WriteSelf
  <2>6. CASE NotifyReadable(u) \/ EndWait(u) \/ WaitOneEnd(u)
             \/ ReceiveCancelObservers(u) \/ ReceiveCancelWaiters(u) \/ ReceiveAddHandle(u)
             \/ CloseReturns(u)
    BY <2>6 DEF NotifyReadable, EndWait, WaitOneEnd, ReceiveCancelObservers,
       ReceiveCancelWaiters, ReceiveAddHandle, CloseReturns
  <2> QED BY <1>2, <2>1, <2>2, <2>3, <2>4, <2>5, <2>6 DEF KernelStep
<1>3. ASSUME NEW u \in Threads,
             \/ WaitDone(u) \/ WaitInterrupted(u) \/ CallFinish(u) \/ WaitOneDone(u)
             \/ ResumeException(u) \/ Exit(u) \/ DestroyThread(u)
      PROVE  FALSE
  BY <1>3 DEF WaitDone, WaitInterrupted, CallFinish, WaitOneDone, ResumeException,
     Exit, DestroyThread
<1>4. ASSUME NEW e \in Endpoints, DeleteStep(e) \/ DiscardMessage(e) \/ Destroy(e) PROVE FALSE
  BY <1>4 DEF DeleteStep, DeleteCancel, OnZeroHandles, OnPeerZeroHandles, DiscardMessage, Destroy
<1>5. ASSUME NEW p \in Procs, Kill(p) PROVE FALSE
  BY <1>5 DEF Kill
<1> QED BY <1>1, <1>2, <1>3, <1>4, <1>5 DEF Next

\* Once its peer is closed an endpoint stays so, its queue only shrinks from
\* the front until the endpoint itself is gone, and Read hides none of it.
THEOREM ClosesFinal == Spec => PeerClosedFinal
<1>1. IInv /\ WInv /\ [Next]_vars /\ WInv' =>
        [/\ \A e \in Endpoints : peerHasClosed[e] =>
              /\ peerHasClosed'[e] /\ ~peer'[e]
              /\ \/ messages'[e] = messages[e]
                 \/ messages[e] # <<>> /\ messages'[e] = Tail(messages[e])
                 \/ handle[e] = "closed"
         /\ \A t \in Threads :
              (pc[t] = "read" /\ pc'[t] = "idle" /\ ret'[t] = "PEER_CLOSED")
                => messages[ref[t]] = <<>>]_vars
  <2>1. SUFFICES ASSUME IInv, WInv, Next, WInv'
                 PROVE  /\ \A e \in Endpoints : peerHasClosed[e] =>
                             /\ peerHasClosed'[e] /\ ~peer'[e]
                             /\ \/ messages'[e] = messages[e]
                                \/ messages[e] # <<>> /\ messages'[e] = Tail(messages[e])
                                \/ handle[e] = "closed"
                        /\ \A t \in Threads :
                             (pc[t] = "read" /\ pc'[t] = "idle" /\ ret'[t] = "PEER_CLOSED")
                               => messages[ref[t]] = <<>>
    OBVIOUS
  <2>2. ASSUME NEW e \in Endpoints, peerHasClosed'[e] PROVE ~peer'[e]
    BY <2>1, <2>2 DEF WInv, PeerInv
  <2> QED BY <2>1, <2>2, QueueAfterClose, ReadSeesClose
<1> QED BY <1>1, NextWaits, WaitInvariance, PTL DEF Spec, PeerClosedFinal
=============================================================================
