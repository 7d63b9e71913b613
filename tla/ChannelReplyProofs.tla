------------------------- MODULE ChannelReplyProofs -------------------------
(***************************************************************************)
(* That the reply a channel call gets was written for that call, for any   *)
(* number of threads, processes and messages and any width of txid_, in    *)
(* the programs of ClientServer.                                           *)
(*                                                                         *)
(* The property is about the last step of a long exchange.  The invariant  *)
(* RInv follows the request: in the queue, then in the hands of a reader,  *)
(* it has the txid of a waiting call only if it is the request of that     *)
(* call.  A new call keeps this, for the counter has moved past every txid *)
(* still in a waiter, a queue or a reader's hands.                         *)
(***************************************************************************)
EXTENDS ChannelProofs

\* Every thread keeps to its role: the owners never change, and only threads of
\* the owner that may call have a waiter linked.
RolesInv ==
  /\ owner = FirstOwner
  /\ \A t \in Threads : pc[t] \notin {"recv_observers", "recv_waiters", "recv_add"}
  /\ \A t \in Threads : pc[t] \in {"read", "write", "call"} => pc[t] \in Prog[t]
  /\ \A e \in Endpoints : \A w \in waiters[e] : ProcOf[w] = FirstOwner[e] /\ "call" \in Prog[w]

\* The counter has not wrapped, and no waiter has a txid it has yet to reach.
TxidInv ==
  \A e \in Endpoints :
    /\ txid[e] <= calls
    /\ \A w \in waiters[e] : wtxid[w] <= kMinKernelTxid + txid[e]

\* The process that has e makes calls, and another has the other end.
Client(e) ==
  /\ FirstOwner[e] # FirstOwner[Other(e)]
  /\ \E t \in Threads : ProcOf[t] = FirstOwner[e] /\ "call" \in Prog[t]

\* The messages sent from e: queued at its peer, or read there and not yet
\* replaced by a later one.
Queued(e)    == {messages[Other(e)][i] : i \in 1 .. Len(messages[Other(e)])}
Holders(e)   == {u \in Threads : inbox[u] # NoMsg /\ ProcOf[u] = FirstOwner[Other(e)]}
Requests(e)  == Queued(e) \cup {inbox[u] : u \in Holders(e)}

\* A request with the txid of a waiting call is the request of that call.
Attributed(e, m) ==
  /\ m.txid <= kMinKernelTxid + txid[e]
  /\ \A w \in waiters[e] : m.txid = wtxid[w] => m.id = call[w]
RequestInv == \A e \in Endpoints : Client(e) => \A m \in Requests(e) : Attributed(e, m)

\* A call starts with no reply of an earlier one.
FreshReply == \A t \in Threads : pc[t] = "call" => reply[t] = NoMsg

\* The inductive invariant, relative to IInv.
RInv == RolesInv /\ TxidInv /\ RequestInv /\ ReplyAnswersCall /\ FreshReply

USE DEF endVars, waitVars, obsVars, lockVars, retVars, procVars
-----------------------------------------------------------------------------
\* Steps that send no message, deliver none and start no call.
Silent ==
  /\ UNCHANGED <<owner, txid, wtxid, call, calls>>
  /\ \A e \in Endpoints : waiters'[e] \subseteq waiters[e]
  /\ \A e \in Endpoints : Client(e) => Requests(e)' \subseteq Requests(e)
  /\ \A t \in Threads : wmsg'[t] \in {wmsg[t], NoMsg} /\ reply'[t] \in {reply[t], wmsg[t], NoMsg}
  /\ \A t \in Threads :
       \/ pc'[t] = pc[t] /\ reply'[t] = reply[t]
       \/ pc'[t] \in {"read", "write", "call"} /\ pc'[t] \in Prog[t] /\ reply'[t] = NoMsg
       \/ pc'[t] \notin {"read", "write", "call", "recv_observers", "recv_waiters", "recv_add"}

\* A step that sends and delivers nothing keeps RInv.
LEMMA SilentStep ==
  ASSUME IInv, RInv, Silent
  PROVE  RInv'
<1> USE DEF RInv, Silent
<1>1. RolesInv'
  BY DEF RolesInv
<1>2. TxidInv'
  BY DEF TxidInv
<1>3. RequestInv'
  <2>1. \A e \in Endpoints : Client(e)' <=> Client(e)
    BY DEF Client
  <2>2. ASSUME NEW e \in Endpoints, NEW m, Attributed(e, m) PROVE Attributed(e, m)'
    BY <2>2 DEF Attributed
  <2> QED BY <2>1, <2>2 DEF RequestInv
<1>4. ReplyAnswersCall'
  BY DEF ReplyAnswersCall
<1>5. FreshReply'
  BY DEF FreshReply
<1> QED BY <1>1, <1>2, <1>3, <1>4, <1>5

\* Queues and inboxes that only lose messages.
LEMMA SameRequests ==
  ASSUME UNCHANGED <<messages, inbox>>
  PROVE  \A e \in Endpoints : Requests(e)' \subseteq Requests(e)
  BY DEF Requests, Queued, Holders

\* The system calls that programs make, except those that get a message or a
\* handle: a lookup forgets the previous reply.
LEMMA UserStepSilent ==
  ASSUME ClientServer, IInv, RInv, NEW t \in Threads, UserStep(t)
  PROVE  Silent
<1> USE SameRequests DEF IInv, TypeOK, WaiterType, ThreadType, Silent, MayCall, Goto, Returns
<1> PICK e \in Endpoints :
      \/ \E op \in {"read", "write", "call"} : Lookup(t, e, op)
      \/ \E m \in (SUBSET Signals) \ {{}} : WaitOneBegin(t, e, m)
      \/ SendHandle(t, e) \/ ReceiveMessage(t, e) \/ CloseHandle(t, e)
  BY DEF UserStep
<1>1. ASSUME NEW op \in {"read", "write", "call"}, Lookup(t, e, op) PROVE Silent
  BY <1>1 DEF Lookup
<1>2. ASSUME NEW m \in SUBSET Signals, WaitOneBegin(t, e, m) PROVE Silent
  BY <1>2 DEF WaitOneBegin
<1>3. CASE SendHandle(t, e)
  BY <1>3 DEF SendHandle
<1>4. CASE ReceiveMessage(t, e)
  BY <1>4 DEF ReceiveMessage, ClientServer
<1>5. CASE CloseHandle(t, e)
  BY <1>5 DEF CloseHandle
<1> QED BY <1>1, <1>2, <1>3, <1>4, <1>5

\* What the kernel does for a thread, except that Read, Write and Call move a
\* message: EndWait hands over the message of the waiter, others no message.
LEMMA KernelStepSilent ==
  ASSUME IInv, RInv, NEW t \in Threads,
         \/ WriteFails(t) \/ NotifyReadable(t) \/ ReadFails(t)
         \/ CallTwice(t) \/ CallNotOwner(t) \/ CallNoPeer(t) \/ EndWait(t) \/ WaitOneEnd(t)
         \/ ReceiveCancelObservers(t) \/ ReceiveCancelWaiters(t) \/ ReceiveAddHandle(t)
         \/ CloseReturns(t)
  PROVE  Silent
<1> USE SameRequests DEF IInv, TypeOK, WaiterType, ThreadType, Silent, Goto, Return, Returns
<1>1. CASE WriteFails(t)
  BY <1>1 DEF WriteFails
<1>2. CASE NotifyReadable(t)
  BY <1>2 DEF NotifyReadable
<1>3. CASE ReadFails(t)
  BY <1>3 DEF ReadFails
<1>4. CASE CallTwice(t)
  BY <1>4 DEF CallTwice
<1>5. CASE CallNotOwner(t)
  BY <1>5 DEF CallNotOwner, BeginWait
<1>6. CASE CallNoPeer(t)
  BY <1>6 DEF CallNoPeer
<1>7. CASE EndWait(t)
  BY <1>7 DEF EndWait
<1>8. CASE WaitOneEnd(t)
  BY <1>8 DEF WaitOneEnd
<1>9. CASE ReceiveCancelObservers(t) \/ ReceiveCancelWaiters(t) \/ ReceiveAddHandle(t)
  BY <1>9 DEF ReceiveCancelObservers, ReceiveCancelWaiters, ReceiveAddHandle, RInv, RolesInv
<1>10. CASE CloseReturns(t)
  BY <1>10 DEF CloseReturns
<1> QED BY <1>1, <1>2, <1>3, <1>4, <1>5, <1>6, <1>7, <1>8, <1>9, <1>10

\* The rest of a thread's life: waking up, suspension, exceptions, death.
LEMMA ThreadStepSilent ==
  ASSUME IInv, RInv, NEW t \in Threads,
         \/ WaitDone(t) \/ WaitInterrupted(t) \/ CallFinish(t) \/ WaitOneDone(t)
         \/ ResumeException(t) \/ Exit(t) \/ DestroyThread(t)
  PROVE  Silent
<1> USE SameRequests DEF IInv, TypeOK, WaiterType, ThreadType, Silent, Goto, Return, Returns
<1>1. CASE WaitDone(t)
  BY <1>1 DEF WaitDone
<1>2. CASE WaitInterrupted(t)
  BY <1>2 DEF WaitInterrupted
<1>3. CASE CallFinish(t)
  BY <1>3 DEF CallFinish
<1>4. CASE WaitOneDone(t)
  BY <1>4 DEF WaitOneDone
<1>5. CASE ResumeException(t)
  BY <1>5 DEF ResumeException
<1>6. CASE Exit(t)
  BY <1>6 DEF Exit
<1>7. CASE DestroyThread(t)
  BY <1>7 DEF DestroyThread
<1> QED BY <1>1, <1>2, <1>3, <1>4, <1>5, <1>6, <1>7

\* Destroy: the queue of an endpoint nobody refers to is emptied.
LEMMA DestroySilent ==
  ASSUME IInv, RInv, NEW e \in Endpoints, Destroy(e)
  PROVE  Silent
<1> USE DEF Destroy, IInv, TypeOK, EndpointType
<1>1. ASSUME NEW i \in Endpoints PROVE Requests(i)' \subseteq Requests(i)
  <2>1. \A f \in Endpoints : messages'[f] = messages[f] \/ messages'[f] = <<>>
    OBVIOUS
  <2>2. Queued(i)' \subseteq Queued(i)
    <3>1. CASE messages'[Other(i)] = messages[Other(i)]
      BY <3>1 DEF Queued
    <3>2. CASE messages'[Other(i)] = <<>>
      BY <3>2 DEF Queued
    <3> QED BY <2>1, <3>1, <3>2, EndpointFacts
  <2> QED BY <2>2 DEF Requests, Holders
<1> QED BY <1>1 DEF Silent

\* The deletion of a handle, the discarding of a message, a kill.
LEMMA EndpointStepSilent ==
  ASSUME IInv, RInv, NEW e \in Endpoints, DeleteStep(e) \/ DiscardMessage(e)
  PROVE  Silent
<1> USE SameRequests DEF IInv, TypeOK, WaiterType, ThreadType, Silent
<1>1. CASE DeleteCancel(e)
  BY <1>1 DEF DeleteCancel
<1>2. CASE OnZeroHandles(e)
  BY <1>2 DEF OnZeroHandles, CancelMessageWaitersLocked
<1>3. CASE OnPeerZeroHandles(e)
  BY <1>3 DEF OnPeerZeroHandles, CancelMessageWaitersLocked
<1>4. CASE DiscardMessage(e)
  BY <1>4 DEF DiscardMessage
<1> QED BY <1>1, <1>2, <1>3, <1>4 DEF DeleteStep

\* ReadPops: the message moves from the queue to a reader of the endpoint's only
\* owner, which has no other endpoint to read from if the peer makes calls.
LEMMA ReadPopsSilent ==
  ASSUME IInv, RInv, NEW t \in Threads, NEW fits \in BOOLEAN, ReadPops(t, fits)
  PROVE  Silent
<1> DEFINE e == ref[t]
           q == messages[e]
<1> USE DEF IInv, TypeOK
<1>1. e \in Endpoints /\ q \in Seq(Message) /\ q # <<>> /\ ProcOf[t] = FirstOwner[e]
  <2>1. pc[t] = "read" /\ q # <<>> /\ ProcOf[t] = owner[e]
    BY DEF ReadPops
  <2>2. e \in Endpoints
    BY <2>1 DEF RefInv, InOperation
  <2> QED BY <2>1, <2>2 DEF RInv, RolesInv, EndpointType
<1>2. /\ messages'[e] = Tail(q)
      /\ \A f \in Endpoints : f # e => messages'[f] = messages[f]
      /\ inbox'[t] = inbox[t] \/ inbox'[t] = Head(q)
      /\ \A u \in Threads \ {t} : inbox'[u] = inbox[u]
  BY <1>1 DEF ReadPops, EndpointType, ThreadType
<1> HIDE DEF q
<1>3. /\ Len(q) \in Nat /\ Len(q) >= 1 /\ Head(q) = q[1] /\ Len(Tail(q)) = Len(q) - 1
      /\ \A i \in 1 .. Len(q) - 1 : Tail(q)[i] = q[i + 1]
  BY <1>1
<1>4. ASSUME NEW i \in Endpoints, Client(i) PROVE Requests(i)' \subseteq Requests(i)
  <2>1. Other(i) \in Endpoints
    BY EndpointFacts
  <2>2. CASE Other(i) = e
    <3>1. Queued(i) = {q[j] : j \in 1 .. Len(q)}
      BY <2>2 DEF Queued, q
    <3>2. Queued(i)' = {Tail(q)[j] : j \in 1 .. Len(q) - 1}
      <4>1. messages'[Other(i)] = Tail(q) /\ Len(Tail(q)) = Len(q) - 1
        BY <1>2, <1>3, <2>2
      <4> QED BY <4>1 DEF Queued
    <3>3. Queued(i)' \subseteq Queued(i) /\ Head(q) \in Queued(i)
      BY <1>3, <3>1, <3>2
    <3>4. \A u \in Holders(i)' : inbox'[u] = Head(q) \/ (u \in Holders(i) /\ inbox'[u] = inbox[u])
      BY <1>2 DEF Holders
    <3> QED BY <3>3, <3>4 DEF Requests
  <2>3. CASE Other(i) # e
    <3>1. Queued(i)' = Queued(i)
      BY <1>2, <2>1, <2>3 DEF Queued
    <3>2. i = e
      BY <1>1, <2>1, <2>3, EndpointFacts
    <3>3. t \notin Holders(i)'
      BY <1>1, <1>4, <3>2 DEF Holders, Client
    <3>4. \A u \in Holders(i)' : u \in Holders(i) /\ inbox'[u] = inbox[u]
      BY <1>2, <3>3 DEF Holders
    <3> QED BY <3>1, <3>4 DEF Requests
  <2> QED BY <2>2, <2>3
<1> QED BY <1>4 DEF Silent, ReadPops, Return, Returns, Goto, ThreadType
-----------------------------------------------------------------------------
\* WriteToWaiter: a message that takes a waiter off the list answers a request
\* with the waiter's txid, and that is the request of the waiter's call.
LEMMA WriteToWaiterReplies ==
  ASSUME ClientServer, IInv, RInv, NEW t \in Threads, NEW m \in Outgoing(t), NEW w \in Threads,
         WriteToWaiter(t, m, w)
  PROVE  RInv'
<1> DEFINE e == Other(ref[t])
<1> USE DEF IInv, TypeOK, RInv
<1>1. /\ pc[t] = "write" /\ ProcOf[t] = owner[ref[t]] /\ w \in waiters[e]
      /\ IsKernelGenerated(m.txid) /\ wtxid[w] = m.txid
      /\ waiters' = [waiters EXCEPT ![e] = @ \ {w}]
      /\ wmsg' = [wmsg EXCEPT ![w] = m]
      /\ Return(t, "OK")
      /\ UNCHANGED <<owner, messages, txid, wtxid, call, calls, inbox>>
  BY DEF WriteToWaiter, Answered, Deliver
<1>2. ref[t] \in Endpoints /\ e \in Endpoints /\ Other(e) = ref[t]
  BY <1>1, EndpointFacts DEF RefInv, InOperation
<1>3. m.re = call[w]
  <2>1. Client(e)
    <3>1. ProcOf[w] = FirstOwner[e] /\ "call" \in Prog[w]
      BY <1>1, <1>2 DEF RolesInv
    <3>2. ProcOf[t] = FirstOwner[Other(e)] /\ "write" \in Prog[t]
      BY <1>1, <1>2 DEF RolesInv
    <3> QED BY <3>1, <3>2 DEF Client, ClientServer
  <2>2. inbox[t] # NoMsg /\ m.txid = inbox[t].txid /\ m.re = inbox[t].id
    BY <1>1 DEF Outgoing, ClientServer
  <2>3. inbox[t] \in Requests(e)
    BY <1>1, <1>2, <2>2 DEF Requests, Holders, RolesInv
  <2> QED BY <1>1, <1>2, <2>1, <2>2, <2>3 DEF RequestInv, Attributed
<1>4. \A i \in Endpoints : waiters'[i] \subseteq waiters[i] /\ Requests(i)' = Requests(i)
  BY <1>1, <1>2 DEF WaiterType, Requests, Queued, Holders
<1>5. /\ pc'[t] = "idle" /\ reply'[t] = NoMsg
      /\ \A u \in Threads \ {t} : pc'[u] = pc[u] /\ reply'[u] = reply[u]
      /\ wmsg'[w] = m /\ \A u \in Threads \ {w} : wmsg'[u] = wmsg[u]
  BY <1>1 DEF Return, Goto, Returns, ThreadType, WaiterType
<1>6. RolesInv'
  BY <1>1, <1>4, <1>5 DEF RolesInv
<1>7. TxidInv'
  BY <1>1, <1>4 DEF TxidInv
<1>8. RequestInv'
  <2>1. \A i \in Endpoints : Client(i)' <=> Client(i)
    BY DEF Client
  <2>2. ASSUME NEW i \in Endpoints, NEW r, Attributed(i, r) PROVE Attributed(i, r)'
    BY <1>1, <1>4, <2>2 DEF Attributed
  <2> QED BY <1>4, <2>1, <2>2 DEF RequestInv
<1>9. ReplyAnswersCall'
  BY <1>1, <1>3, <1>5 DEF ReplyAnswersCall
<1>10. FreshReply'
  BY <1>5 DEF FreshReply
<1> QED BY <1>6, <1>7, <1>8, <1>9, <1>10

\* The messages sent from e after one more was queued at its peer.
LEMMA QueuedAppend ==
  ASSUME TypeOK, NEW e \in Endpoints, NEW m \in Message,
         messages' = [messages EXCEPT ![Other(e)] = Append(@, m)]
  PROVE  /\ Queued(e)' = Queued(e) \cup {m}
         /\ \A i \in Endpoints : i # e => Queued(i)' = Queued(i)
<1> DEFINE q == messages[Other(e)]
<1>1. Other(e) \in Endpoints /\ q \in Seq(Message)
  BY EndpointFacts DEF TypeOK, EndpointType
<1>2. /\ messages'[Other(e)] = Append(q, m)
      /\ \A i \in Endpoints : i # e => messages'[Other(i)] = messages[Other(i)]
  BY <1>1, EndpointFacts DEF TypeOK, EndpointType
<1>3. Queued(e) = {q[j] : j \in 1 .. Len(q)}
  BY DEF Queued
<1> HIDE DEF q
<1>4. /\ Len(q) \in Nat /\ Len(Append(q, m)) = Len(q) + 1
      /\ Append(q, m)[Len(q) + 1] = m
      /\ \A j \in 1 .. Len(q) : Append(q, m)[j] = q[j]
  BY <1>1
<1>5. Queued(e)' = {Append(q, m)[j] : j \in 1 .. Len(q) + 1}
  <2>1. Queued(e)' = {messages'[Other(e)][j] : j \in 1 .. Len(messages'[Other(e)])}
    BY DEF Queued
  <2> QED BY <1>2, <1>4, <2>1
<1>6. {Append(q, m)[j] : j \in 1 .. Len(q) + 1} = {q[j] : j \in 1 .. Len(q)} \cup {m}
  BY <1>4
<1>7. Queued(e)' = Queued(e) \cup {m}
  BY <1>3, <1>5, <1>6
<1>8. \A i \in Endpoints : i # e => Queued(i)' = Queued(i)
  BY <1>2 DEF Queued
<1> QED BY <1>7, <1>8

\* WriteToQueue: the process that writes at this endpoint makes no calls on it.
LEMMA WriteToQueueReplies ==
  ASSUME ClientServer, IInv, RInv, NEW t \in Threads, NEW m \in Message, WriteToQueue(t, m)
  PROVE  RInv'
<1> USE DEF IInv, TypeOK, RInv
<1>1. PICK e \in Endpoints : e = ref[t]
  BY DEF WriteToQueue, RefInv, InOperation
<1>2. /\ pc[t] = "write" /\ ProcOf[t] = owner[e]
      /\ messages' = [messages EXCEPT ![Other(e)] = Append(@, m)]
      /\ Returns(t, "OK", NoMsg)
      /\ UNCHANGED <<owner, txid, waiters, wtxid, wmsg, call, calls, inbox>>
  BY <1>1 DEF WriteToQueue, WriteSelf
<1>3. ~Client(e)
  <2>1. "write" \in Prog[t] /\ ProcOf[t] = FirstOwner[e]
    BY <1>2 DEF RolesInv
  <2> QED BY <2>1 DEF Client, ClientServer
<1>4. \A i \in Endpoints : Client(i) => Requests(i)' = Requests(i)
  <2>1. \A i \in Endpoints : i # e => Queued(i)' = Queued(i)
    BY <1>2, QueuedAppend
  <2> QED BY <1>2, <1>3, <2>1 DEF Requests, Holders
<1>5. /\ pc'[t] \in {"idle", "notify_write"}
      /\ \A u \in Threads \ {t} : pc'[u] = pc[u]
  BY DEF WriteToQueue, WriteSelf, Goto, ThreadType
<1>6. RolesInv' /\ TxidInv'
  BY <1>2, <1>5 DEF RolesInv, TxidInv
<1>7. RequestInv'
  <2>1. \A i \in Endpoints : Client(i)' <=> Client(i)
    BY DEF Client
  <2>2. ASSUME NEW i \in Endpoints, NEW r, Attributed(i, r) PROVE Attributed(i, r)'
    BY <1>2, <2>2 DEF Attributed
  <2> QED BY <1>4, <2>1, <2>2 DEF RequestInv
<1>8. ReplyAnswersCall' /\ FreshReply'
  BY <1>2, <1>5 DEF ReplyAnswersCall, FreshReply, Returns, ThreadType
<1> QED BY <1>6, <1>7, <1>8

\* While the counter cannot have wrapped, alloc_txid takes the first txid it
\* generates, one higher than every txid generated before at this endpoint.
LEMMA FirstTxidFits ==
  ASSUME ClientServer, IInv, RInv, NEW e \in Endpoints, calls < MaxCalls
  PROVE  /\ AllocTxid(e) = 1 /\ TxidAfter(e, 1) = txid[e] + 1
         /\ GenerateTxid(e, 1) = kMinKernelTxid + txid[e] + 1
         /\ txid[e] \in Nat
<1>1. /\ txid[e] \in Nat /\ txid[e] + 1 < kMinKernelTxid /\ kMinKernelTxid \in Nat
      /\ TxidCount = 2 * kMinKernelTxid /\ TxidCount \in Nat
  <2>1. txid[e] \in 0 .. TxidCount - 1 /\ calls \in 0 .. MaxCalls
    BY DEF IInv, TypeOK, EndpointType, SystemType, Txids
  <2>2. txid[e] <= calls /\ MaxCalls < kMinKernelTxid
    BY DEF RInv, TxidInv, ClientServer
  <2> QED BY <2>1, <2>2, ConstantsAssumption
<1>2. TxidAfter(e, 1) = txid[e] + 1 /\ GenerateTxid(e, 1) = kMinKernelTxid + txid[e] + 1
  BY <1>1 DEF TxidAfter, GenerateTxid
<1>3. 1 \in Fresh(e)
  <2>1. ASSUME NEW w \in waiters[e] PROVE wtxid[w] # kMinKernelTxid + txid[e] + 1
    <3>1. wtxid[w] <= kMinKernelTxid + txid[e] /\ wtxid[w] \in 0 .. TxidCount - 1
      BY DEF RInv, TxidInv, IInv, TypeOK, WaiterType, Txids
    <3> QED BY <1>1, <3>1
  <2> QED BY <1>1, <1>2, <2>1 DEF Fresh, InUse
<1>4. \A j \in Fresh(e) : j \in Nat /\ 1 <= j
  BY <1>1 DEF Fresh
<1>5. AllocTxid(e) = 1
  <2>1. AllocTxid(e) \in Fresh(e) /\ \A j \in Fresh(e) : AllocTxid(e) <= j
    BY <1>3, <1>4 DEF AllocTxid
  <2> QED BY <1>3, <1>4, <2>1
<1> QED BY <1>1, <1>2, <1>5

\* CallSends: the new call's txid is in no other waiter and in no message of an
\* earlier call that is still about.
LEMMA CallSendsReplies ==
  ASSUME ClientServer, IInv, IInv', RInv, NEW t \in Threads, CallSends(t)
  PROVE  RInv'
<1> USE DEF IInv, TypeOK
<1>1. pc[t] = "call" /\ ProcOf[t] = owner[ref[t]] /\ calls < MaxCalls /\ chan[t] = NoChannel
  BY DEF CallSends, BeginWait
<1>2. PICK e \in Endpoints : e = ref[t]
  BY <1>1 DEF RefInv, InOperation
<1>3. /\ AllocTxid(e) = 1 /\ TxidAfter(e, 1) = txid[e] + 1
      /\ GenerateTxid(e, 1) = kMinKernelTxid + txid[e] + 1
  BY <1>1, FirstTxidFits
<1>4. PICK x \in Txids, m \in Message :
        x = kMinKernelTxid + txid[e] + 1 /\ m = [txid |-> x, id |-> calls + 1, re |-> 0]
  <2>1. kMinKernelTxid + txid[e] + 1 \in Txids
    BY <1>3, GenerateTxidType, ConstantsAssumption
  <2>2. calls + 1 \in 0 .. MaxCalls /\ 0 \in 0 .. MaxCalls
    BY <1>1, ConstantsAssumption DEF SystemType
  <2>3. [txid |-> kMinKernelTxid + txid[e] + 1, id |-> calls + 1, re |-> 0] \in Message
    BY <2>1, <2>2 DEF Message
  <2> QED BY <2>1, <2>3
<1>5. /\ txid' = [txid EXCEPT ![e] = txid[e] + 1]
      /\ wtxid' = [wtxid EXCEPT ![t] = x]
      /\ waiters' = [waiters EXCEPT ![e] = @ \cup {t}]
      /\ calls' = calls + 1 /\ call' = [call EXCEPT ![t] = calls + 1]
      /\ messages' = [messages EXCEPT ![Other(e)] = Append(@, m)]
      /\ UNCHANGED <<owner, wmsg, reply, inbox>>
  BY <1>2, <1>3, <1>4 DEF CallSends, WriteSelf
<1>6. /\ pc'[t] \in {"blocked", "notify_call"}
      /\ \A u \in Threads \ {t} : pc'[u] = pc[u]
  BY DEF CallSends, WriteSelf, Goto, ThreadType
<1>7. /\ txid'[e] = txid[e] + 1 /\ waiters'[e] = waiters[e] \cup {t}
      /\ wtxid'[t] = x /\ call'[t] = calls + 1
      /\ \A u \in Threads \ {t} : wtxid'[u] = wtxid[u] /\ call'[u] = call[u]
      /\ \A i \in Endpoints : i # e => txid'[i] = txid[i] /\ waiters'[i] = waiters[i]
  BY <1>2, <1>5 DEF EndpointType, WaiterType
<1>8. \A i \in Endpoints : t \notin waiters[i] /\ waiters[i] \subseteq Threads
  BY <1>1 DEF WaiterListSound, WaiterType
<1>9. kMinKernelTxid \in Nat /\ calls \in Nat /\ \A i \in Endpoints : txid[i] \in Nat
  BY ConstantsAssumption DEF SystemType, EndpointType, Txids
<1>10. RolesInv'
  BY <1>1, <1>2, <1>5, <1>6, <1>7 DEF RolesInv, RInv
<1>11. TxidInv'
  <2>1. ASSUME NEW i \in Endpoints PROVE txid'[i] <= calls'
    <3>1. txid[i] <= calls
      BY DEF RInv, TxidInv
    <3> QED BY <1>5, <1>7, <1>9, <3>1
  <2>2. ASSUME NEW i \in Endpoints, NEW w \in waiters'[i]
        PROVE  wtxid'[w] <= kMinKernelTxid + txid'[i]
    <3>1. CASE w = t
      <4>1. i = e
        BY <1>7, <1>8, <2>2, <3>1
      <4> QED BY <1>4, <1>7, <1>9, <3>1, <4>1
    <3>2. CASE w # t
      <4>1. w \in waiters[i] /\ wtxid'[w] = wtxid[w] /\ wtxid[w] \in Nat
        BY <1>7, <1>8, <2>2, <3>2, ConstantsAssumption DEF WaiterType, Txids
      <4>2. wtxid[w] <= kMinKernelTxid + txid[i]
        BY <4>1 DEF RInv, TxidInv
      <4>3. txid'[i] = txid[i] \/ txid'[i] = txid[i] + 1
        BY <1>7
      <4> QED BY <1>9, <4>1, <4>2, <4>3
    <3> QED BY <3>1, <3>2
  <2> QED BY <2>1, <2>2 DEF TxidInv
<1>12. RequestInv'
  <2>1. \A i \in Endpoints : Client(i)' <=> Client(i)
    BY DEF Client
  <2>2. /\ Requests(e)' = Requests(e) \cup {m}
        /\ \A i \in Endpoints : i # e => Requests(i)' = Requests(i)
    <3>1. /\ Queued(e)' = Queued(e) \cup {m}
          /\ \A i \in Endpoints : i # e => Queued(i)' = Queued(i)
      BY <1>5, QueuedAppend
    <3> QED BY <1>5, <3>1 DEF Requests, Holders
  <2>3. ASSUME NEW i \in Endpoints, i # e, NEW r, Attributed(i, r) PROVE Attributed(i, r)'
    <3>1. \A w \in waiters[i] : wtxid'[w] = wtxid[w] /\ call'[w] = call[w]
      BY <1>7, <1>8
    <3> QED BY <1>7, <2>3, <3>1 DEF Attributed
  <2>4. ASSUME NEW r \in Requests(e), Attributed(e, r) PROVE Attributed(e, r)'
    <3>1. r.txid \in Nat /\ r.txid <= kMinKernelTxid + txid[e]
      <4>1. r \in Message
        <5>1. Other(e) \in Endpoints
          BY <1>2, EndpointFacts
        <5>2. messages[Other(e)] \in Seq(Message)
          BY <5>1 DEF EndpointType
        <5>3. \A j \in 1 .. Len(messages[Other(e)]) : messages[Other(e)][j] \in Message
          BY <5>2
        <5> QED BY <5>3 DEF Requests, Queued, Holders, ThreadType
      <4> QED BY <2>4, <4>1, ConstantsAssumption DEF Attributed, Message, Txids
    <3>2. r.txid <= kMinKernelTxid + txid'[e] /\ r.txid # x
      BY <1>4, <1>7, <1>9, <3>1
    <3>3. \A w \in waiters[e] : r.txid = wtxid'[w] => r.id = call'[w]
      BY <1>2, <1>7, <1>8, <2>4 DEF Attributed
    <3>4. \A w \in waiters'[e] : r.txid = wtxid'[w] => r.id = call'[w]
      BY <1>7, <3>2, <3>3
    <3> QED BY <3>2, <3>4 DEF Attributed
  <2>5. Attributed(e, m)'
    <3>1. ASSUME NEW w \in waiters[e] PROVE wtxid'[w] # x
      <4>1. wtxid'[w] = wtxid[w] /\ wtxid[w] \in Nat
        BY <1>2, <1>7, <1>8, ConstantsAssumption DEF WaiterType, Txids
      <4>2. wtxid[w] <= kMinKernelTxid + txid[e]
        BY <1>2 DEF RInv, TxidInv
      <4> QED BY <1>4, <1>9, <4>1, <4>2
    <3>2. x <= kMinKernelTxid + txid'[e]
      BY <1>4, <1>7, <1>9
    <3> QED BY <1>4, <1>7, <3>1, <3>2 DEF Attributed
  <2> QED BY <2>1, <2>2, <2>3, <2>4, <2>5 DEF RequestInv, RInv
<1>13. ReplyAnswersCall'
  <2>1. wmsg[t] = NoMsg /\ reply[t] = NoMsg
    BY <1>1 DEF DeliveredReplyReturned, RInv, FreshReply
  <2> QED BY <1>5, <1>7, <2>1 DEF ReplyAnswersCall, RInv
<1>14. FreshReply'
  BY <1>5, <1>6 DEF FreshReply, RInv
<1> QED BY <1>10, <1>11, <1>12, <1>13, <1>14 DEF RInv
-----------------------------------------------------------------------------
\* A new channel has neither messages nor calls.
LEMMA InitReplies == Init => RInv
<1> SUFFICES ASSUME Init PROVE RInv
  OBVIOUS
<1>1. RolesInv /\ ReplyAnswersCall /\ FreshReply
  BY DEF Init, RolesInv, ReplyAnswersCall, FreshReply
<1>2. TxidInv
  BY DEF Init, TxidInv
<1>3. \A e \in Endpoints : Requests(e) = {}
  <2>1. \A e \in Endpoints : messages[Other(e)] = <<>>
    BY EndpointFacts DEF Init
  <2>2. \A e \in Endpoints : Queued(e) = {}
    BY <2>1 DEF Queued
  <2> QED BY <2>2 DEF Init, Requests, Holders
<1> QED BY <1>1, <1>2, <1>3 DEF RInv, RequestInv

\* Every step of such programs preserves the invariant.
LEMMA NextReplies ==
  ASSUME ClientServer, IInv, IInv', RInv, [Next]_vars
  PROVE  RInv'
<1>1. CASE UNCHANGED vars
  BY <1>1, SameRequests, SilentStep DEF vars, Silent
<1>2. ASSUME NEW t \in Threads, UserStep(t) PROVE RInv'
  BY <1>2, UserStepSilent, SilentStep
<1>3. ASSUME NEW t \in Threads, KernelStep(t) PROVE RInv'
  <2>1. ASSUME NEW m \in Outgoing(t), WriteToQueue(t, m) PROVE RInv'
    BY <2>1, OutgoingType, WriteToQueueReplies DEF IInv
  <2>2. ASSUME NEW m \in Outgoing(t), NEW w \in Threads, WriteToWaiter(t, m, w) PROVE RInv'
    BY <2>2, WriteToWaiterReplies
  <2>3. ASSUME NEW fits \in BOOLEAN, ReadPops(t, fits) PROVE RInv'
    BY <2>3, ReadPopsSilent, SilentStep
  <2>4. CASE CallSends(t)
    BY <2>4, CallSendsReplies
  <2> QED
    BY <1>3, <2>1, <2>2, <2>3, <2>4, KernelStepSilent, SilentStep DEF KernelStep
<1>4. ASSUME NEW t \in Threads,
             \/ WaitDone(t) \/ WaitInterrupted(t) \/ CallFinish(t) \/ WaitOneDone(t)
             \/ ResumeException(t) \/ Exit(t) \/ DestroyThread(t)
      PROVE  RInv'
  BY <1>4, ThreadStepSilent, SilentStep
<1>5. ASSUME NEW e \in Endpoints, DeleteStep(e) \/ DiscardMessage(e) \/ Destroy(e)
      PROVE  RInv'
  BY <1>5, EndpointStepSilent, DestroySilent, SilentStep
<1>6. ASSUME NEW p \in Procs, Kill(p) PROVE RInv'
  BY <1>6, SameRequests, SilentStep DEF Kill, Silent
<1> QED
  BY <1>1, <1>2, <1>3, <1>4, <1>5, <1>6 DEF Next

\* In programs where the ends stay with processes that call or write, not both, and
\* as long as no txid is generated twice, a call never gets the answer to
\* another one, however late or often that answer is written and whatever
\* deadline, suspension, close or death intervened.
THEOREM RepliesMatch ==
  ASSUME ClientServer
  PROVE  Spec => []ReplyAnswersCall
<1>1. Init => IInv /\ RInv
  BY InitInv, InitReplies
<1>2. IInv /\ RInv /\ [Next]_vars => IInv' /\ RInv'
  BY NextInv, NextReplies
<1>3. RInv => ReplyAnswersCall
  BY DEF RInv
<1> QED BY <1>1, <1>2, <1>3, PTL DEF Spec
=============================================================================
