------------------------------- MODULE Channel -------------------------------
(***************************************************************************)
(* The two endpoints of one Zircon channel, the threads that use them and  *)
(* the processes that own them: ChannelDispatcher, its MessageWaiter, the  *)
(* PeeredDispatcher/Dispatcher operations it inherits, and the syscalls    *)
(* and handle operations that reach it.                                    *)
(*                                                                         *)
(* One action is one critical section of the code.  Two locks matter.      *)
(* get_lock() is shared by both endpoints; almost every operation runs     *)
(* wholly inside it and is one atomic action.  channel_lock_ is taken      *)
(* inside it, and alone by Read: an operation that drops channel_lock_     *)
(* while it keeps get_lock() is split there, and `glock' says that         *)
(* get_lock() stays held between its two actions.                          *)
(***************************************************************************)
EXTENDS Integers, Sequences, FiniteSets

CONSTANTS
  Threads, Procs,     \* user threads, and the processes (handle tables)
  ProcOf,             \* the process of each thread
  FirstOwner,         \* the process that has each endpoint at the start
  Prog,               \* which system calls each thread makes
  TxidBits,           \* width of zx_txid_t (32 in the code)
  UserTxids,          \* txids a program puts in a message it composes itself
  MaxPending,         \* kMaxPendingMessageCount
  MaxQueue,           \* bound: messages in one queue
  MaxCalls,           \* bound: channel calls in a behaviour
  Killable,           \* bound: the processes that may be killed from outside
  NoMsg               \* the null MessagePacketPtr

Endpoints == {0, 1}
Other(e)  == 1 - e
NoChannel == -1

\* Values of zx_txid_t.  The upper half belongs to the kernel.
TxidCount            == 2^TxidBits
Txids                == 0 .. TxidCount - 1
kMinKernelTxid       == 2^(TxidBits - 1)
IsKernelGenerated(x) == x >= kMinKernelTxid

\* A message: its txid; which call it is the request of (0: none); and which
\* call its sender meant it to answer (0: none).  The last two are ghosts.
Message == [txid : Txids, id : 0 .. MaxCalls, re : 0 .. MaxCalls]

Signals  == {"READABLE", "WRITABLE", "PEER_CLOSED"}
Ops      == {"read", "write", "call", "wait", "send", "receive", "close"}
Statuses == {"NONE", "OK", "BAD_HANDLE", "PEER_CLOSED", "SHOULD_WAIT",
             "BUFFER_TOO_SMALL", "TIMED_OUT", "CANCELED", "BAD_STATE"}

\* Where the only handle of an endpoint is, when it is in no handle table:
\* inside a message of another channel, taken out of that message by a reader,
\* or in HandleTableArena::Delete (before and after Cancel(), and between the
\* two halves of on_zero_handles()).
HandleLimbo == {"transit", "received", "deleting", "canceled", "zeroing", "closed"}

PCs == {"idle", "read", "write", "call", "notify_write", "notify_call",
        "blocked", "woken", "retry", "waiting", "ending",
        "recv_observers", "recv_waiters", "recv_add", "close", "dead", "gone"}

ASSUME ConstantsAssumption ==
  /\ IsFiniteSet(Threads)
  /\ ProcOf \in [Threads -> Procs] /\ FirstOwner \in [Endpoints -> Procs]
  /\ Procs \cap HandleLimbo = {}
  /\ Prog \in [Threads -> SUBSET Ops]
  /\ TxidBits \in Nat \ {0}
  /\ kMinKernelTxid \in Nat \ {0} /\ TxidCount = 2 * kMinKernelTxid
  /\ UserTxids \subseteq Txids /\ Killable \subseteq Procs
  /\ MaxPending \in Nat /\ MaxQueue \in Nat /\ MaxCalls \in Nat
  /\ NoMsg \notin Message

\* alloc_txid terminates because there are far fewer threads than txids.
ASSUME TxidAssumption == Cardinality(Threads) <= kMinKernelTxid

VARIABLES
  handle,        \* handle[e]: the process whose table holds it, or HandleLimbo
  owner,         \* owner_ of each endpoint
  peer,          \* peer[e]: peer_ is non-null
  peerHasClosed, \* peer_has_closed_
  messages,      \* messages_
  signals,       \* signals_
  txid,          \* txid_
  waiters,       \* waiters_: threads whose MessageWaiter is linked here
  observers,     \* observers_: threads in object_wait_one
  glock,         \* get_lock() is held between two actions
  notify,        \* local of WriteSelf: the signals to notify observers with
  pc, ref,       \* per thread: control point, and the endpoint it refers to
  chan,          \* MessageWaiter::channel_
  status,        \* MessageWaiter::status_
  wtxid,         \* MessageWaiter::txid_
  wmsg,          \* MessageWaiter::msg_
  event,         \* MessageWaiter::event_ is signaled
  call,          \* ghost: the id of the thread's current call
  mask,          \* WaitSignalObserver: triggering_signals_
  final,         \* WaitSignalObserver: final_signal_state_
  oevent,        \* WaitSignalObserver: state of *event_
  ret, reply,    \* result of the thread's last system call
  inbox,         \* the last message the thread read
  excp,          \* threads with a pending CHANNEL_FULL_WRITE policy exception
  killed,        \* processes being killed
  vdsoKill,      \* processes killed by Call with ZX_TASK_RETCODE_VDSO_KILL
  calls          \* number of calls so far

endVars  == <<handle, owner, peer, peerHasClosed, messages, signals, txid>>
waitVars == <<chan, status, wtxid, wmsg, event, call>>
obsVars  == <<observers, mask, final, oevent>>
lockVars == <<glock, notify>>
retVars  == <<ret, reply, inbox>>
procVars == <<excp, killed, vdsoKill, calls>>
vars == <<endVars, waiters, waitVars, obsVars, lockVars, pc, ref, retVars, procVars>>

Init ==
  /\ handle = FirstOwner /\ owner = FirstOwner
  /\ peer = [e \in Endpoints |-> TRUE]
  /\ peerHasClosed = [e \in Endpoints |-> FALSE]
  /\ messages = [e \in Endpoints |-> <<>>]
  /\ signals = [e \in Endpoints |-> {"WRITABLE"}]
  /\ txid = [e \in Endpoints |-> 0]
  /\ waiters = [e \in Endpoints |-> {}]
  /\ observers = [e \in Endpoints |-> {}]
  /\ glock = FALSE /\ notify = {}
  /\ pc = [t \in Threads |-> "idle"] /\ ref = [t \in Threads |-> NoChannel]
  /\ chan = [t \in Threads |-> NoChannel]
  /\ status = [t \in Threads |-> "BAD_STATE"]
  /\ wtxid = [t \in Threads |-> 0]
  /\ wmsg = [t \in Threads |-> NoMsg]
  /\ event = [t \in Threads |-> FALSE]
  /\ call = [t \in Threads |-> 0]
  /\ mask = [t \in Threads |-> {}] /\ final = [t \in Threads |-> {}]
  /\ oevent = [t \in Threads |-> "NONE"]
  /\ ret = [t \in Threads |-> "NONE"] /\ reply = [t \in Threads |-> NoMsg]
  /\ inbox = [t \in Threads |-> NoMsg]
  /\ excp = {} /\ killed = {} /\ vdsoKill = {} /\ calls = 0
-----------------------------------------------------------------------------
\* Control flow of a thread.

\* The thread is in user mode and may make system call op.  A thread with a
\* pending kill exits instead; a call it still makes before the kill reaches
\* it is as if made before Kill.
MayCall(t, op) ==
  /\ pc[t] = "idle" /\ op \in Prog[t]
  /\ t \notin excp /\ ProcOf[t] \notin killed

Goto(t, l) == pc' = [pc EXCEPT ![t] = l]

Returns(t, s, m) ==
  /\ ret' = [ret EXCEPT ![t] = s]
  /\ reply' = [reply EXCEPT ![t] = m]

\* Return to user mode with status s; the reference to the endpoint is dropped.
Return(t, s) ==
  /\ Goto(t, "idle")
  /\ ref' = [ref EXCEPT ![t] = NoChannel]
  /\ Returns(t, s, NoMsg)

\* GetDispatcherWithRights: the handle is looked up under the table's lock,
\* and the dispatcher is used after that lock is released.
Lookup(t, e, op) ==
  /\ MayCall(t, op) /\ op \in {"read", "write", "call"}
  /\ handle[e] = ProcOf[t]
  /\ op = "call" => calls < MaxCalls
  /\ Goto(t, op)
  /\ ref' = [ref EXCEPT ![t] = e]
  /\ Returns(t, "NONE", NoMsg)
  /\ UNCHANGED <<endVars, waiters, waitVars, obsVars, lockVars, inbox, procVars>>
-----------------------------------------------------------------------------
\* Dispatcher: signals and observers.

\* NotifyObserversLocked: observers that match are unlinked and get OnMatch.
Matching(e, sigs) == {t \in observers[e] : mask[t] \cap sigs # {}}

NotifyObserversLocked(e, sigs) ==
  LET hit == Matching(e, sigs) IN
  /\ observers' = [observers EXCEPT ![e] = @ \ hit]
  /\ final' = [t \in Threads |-> IF t \in hit THEN sigs ELSE final[t]]
  /\ oevent' = [t \in Threads |-> IF t \in hit THEN "OK" ELSE oevent[t]]

\* Dispatcher::Cancel for the endpoint's only handle.
CancelObservers(e) ==
  /\ observers' = [observers EXCEPT ![e] = {}]
  /\ final' = [t \in Threads |-> IF t \in observers[e]
                                 THEN signals[e] \cup {"HANDLE_CLOSED"} ELSE final[t]]
  /\ oevent' = [t \in Threads |-> IF t \in observers[e] THEN "CANCELED" ELSE oevent[t]]
  /\ UNCHANGED mask

\* sys_object_wait_one: Begin() adds a level-triggered observer while the
\* handle table's lock is held.
WaitOneBegin(t, e, m) ==
  /\ MayCall(t, "wait") /\ ~glock
  /\ handle[e] = ProcOf[t]
  /\ mask' = [mask EXCEPT ![t] = m]
  /\ IF signals[e] \cap m # {}
     THEN /\ oevent' = [oevent EXCEPT ![t] = "OK"]
          /\ final' = [final EXCEPT ![t] = signals[e]]
          /\ UNCHANGED observers
     ELSE /\ observers' = [observers EXCEPT ![e] = @ \cup {t}]
          /\ oevent' = [oevent EXCEPT ![t] = "NONE"]
          /\ UNCHANGED final
  /\ Goto(t, "waiting")
  /\ ref' = [ref EXCEPT ![t] = e]
  /\ Returns(t, "NONE", NoMsg)
  /\ UNCHANGED <<endVars, waiters, waitVars, lockVars, inbox, procVars>>

\* The local event's Wait() returns: signaled, or interrupted by the deadline
\* or a kill, which an already signaled event never is.
WaitOneDone(t) ==
  /\ pc[t] = "waiting"
  /\ ret' = [ret EXCEPT ![t] = IF oevent[t] = "NONE" THEN "TIMED_OUT" ELSE oevent[t]]
  /\ Goto(t, "ending")
  /\ UNCHANGED <<endVars, waiters, waitVars, obsVars, lockVars, ref, reply, inbox, procVars>>

\* End(): RemoveObserver, then the signals of that moment or the final ones.
WaitOneEnd(t) ==
  /\ pc[t] = "ending" /\ ~glock
  /\ LET e == ref[t]
         seen == IF t \in observers[e] THEN signals[e] ELSE final[t]
     IN /\ observers' = [observers EXCEPT ![e] = @ \ {t}]
        /\ Return(t, IF "HANDLE_CLOSED" \in seen THEN "CANCELED" ELSE ret[t])
  /\ UNCHANGED <<endVars, waiters, waitVars, mask, final, oevent, lockVars, inbox, procVars>>
-----------------------------------------------------------------------------
\* MessageWaiter operations; W is the set of threads whose waiter they act on.

\* Fault: Deliver forgets status_.
Deliver_NoStatus(w, m) ==
  /\ wmsg' = [wmsg EXCEPT ![w] = m]
  /\ event' = [event EXCEPT ![w] = TRUE]
  /\ UNCHANGED <<chan, status, wtxid, call>>

\* Fault: Deliver does not signal the event.
Deliver_NoSignal(w, m) ==
  /\ wmsg' = [wmsg EXCEPT ![w] = m]
  /\ status' = [status EXCEPT ![w] = "OK"]
  /\ UNCHANGED <<chan, wtxid, event, call>>

Deliver(w, m) ==
  /\ wmsg' = [wmsg EXCEPT ![w] = m]
  /\ status' = [status EXCEPT ![w] = "OK"]
  /\ event' = [event EXCEPT ![w] = TRUE]
  /\ UNCHANGED <<chan, wtxid, call>>

\* CancelMessageWaitersLocked: unlink every waiter of e and Cancel it with s.
CancelMessageWaitersLocked(e, s) ==
  /\ waiters' = [waiters EXCEPT ![e] = {}]
  /\ status' = [t \in Threads |-> IF t \in waiters[e] THEN s ELSE status[t]]
  /\ event' = [t \in Threads |-> IF t \in waiters[e] THEN TRUE ELSE event[t]]
  /\ UNCHANGED <<chan, wtxid, wmsg, call>>
-----------------------------------------------------------------------------
\* Messages.

\* Fault: observers are notified with previous_signals alone.
WriteSelf_StaleNotify(e, m, t, next) ==
  /\ messages' = [messages EXCEPT ![e] = Append(@, m)]
  /\ signals' = [signals EXCEPT ![e] = @ \cup {"READABLE"}]
  /\ excp' = IF Len(messages[e]) + 1 > MaxPending THEN excp \cup {t} ELSE excp
  /\ IF "READABLE" \in signals[e]
     THEN Goto(t, next) /\ UNCHANGED lockVars
     ELSE /\ Goto(t, IF next = "idle" THEN "notify_write" ELSE "notify_call")
          /\ glock' = TRUE
          /\ notify' = signals[e]

\* WriteSelf on endpoint e by thread t, which continues at `next'.  Observers
\* are notified in a second step, with channel_lock_ released and get_lock()
\* held, and only if READABLE was not active before.
WriteSelf(e, m, t, next) ==
  /\ messages' = [messages EXCEPT ![e] = Append(@, m)]
  /\ signals' = [signals EXCEPT ![e] = @ \cup {"READABLE"}]
  /\ excp' = IF Len(messages[e]) + 1 > MaxPending THEN excp \cup {t} ELSE excp
  /\ IF "READABLE" \in signals[e]
     THEN Goto(t, next) /\ UNCHANGED lockVars
     ELSE /\ Goto(t, IF next = "idle" THEN "notify_write" ELSE "notify_call")
          /\ glock' = TRUE
          /\ notify' = signals[e] \cup {"READABLE"}

\* What a program writes: a message of its own, or an answer (possibly a
\* repeated one) to the last message it read.
Outgoing(t) ==
  [txid : UserTxids, id : {0}, re : {0}] \cup
  (IF inbox[t] = NoMsg THEN {}
   ELSE {[txid |-> inbox[t].txid, id |-> 0, re |-> inbox[t].id]})

\* Fault: any kernel generated txid is taken for an answer.
Answered_AnyTxid(e, m) == {w \in waiters[e] : IsKernelGenerated(m.txid)}

\* TryWriteToMessageWaiter: the waiters of e that message m answers.
Answered(e, m) ==
  {w \in waiters[e] : IsKernelGenerated(m.txid) /\ wtxid[w] = m.txid}

\* The error paths of Write.
WriteFails(t) ==
  /\ pc[t] = "write" /\ ~glock
  /\ \/ ProcOf[t] # owner[ref[t]] /\ Return(t, "BAD_HANDLE")
     \/ ProcOf[t] = owner[ref[t]] /\ ~peer[ref[t]] /\ Return(t, "PEER_CLOSED")
  /\ UNCHANGED <<endVars, waiters, waitVars, obsVars, lockVars, inbox, procVars>>

WriteToWaiter(t, m, w) ==
  LET o == Other(ref[t]) IN
  /\ pc[t] = "write" /\ ~glock
  /\ ProcOf[t] = owner[ref[t]] /\ peer[ref[t]]
  /\ w \in Answered(o, m)
  /\ waiters' = [waiters EXCEPT ![o] = @ \ {w}]
  /\ Deliver(w, m)
  /\ Return(t, "OK")
  /\ UNCHANGED <<endVars, obsVars, lockVars, inbox, procVars>>

WriteToQueue(t, m) ==
  LET o == Other(ref[t]) IN
  /\ pc[t] = "write" /\ ~glock
  /\ ProcOf[t] = owner[ref[t]] /\ peer[ref[t]]
  /\ Answered(o, m) = {}
  /\ Len(messages[o]) < MaxQueue
  /\ WriteSelf(o, m, t, "idle")
  /\ Returns(t, "OK", NoMsg)
  /\ ref' = IF "READABLE" \in signals[o] THEN [ref EXCEPT ![t] = NoChannel] ELSE ref
  /\ UNCHANGED <<handle, owner, peer, peerHasClosed, txid, waiters, waitVars,
                 obsVars, inbox, killed, vdsoKill, calls>>

\* The end of WriteSelf: NotifyObserversLocked(previous_signals | READABLE).
NotifyReadable(t) ==
  /\ pc[t] \in {"notify_write", "notify_call"}
  /\ NotifyObserversLocked(Other(ref[t]), notify)
  /\ glock' = FALSE /\ notify' = {}
  /\ Goto(t, IF pc[t] = "notify_write" THEN "idle" ELSE "blocked")
  /\ ref' = [ref EXCEPT ![t] = NoChannel]
  /\ UNCHANGED <<endVars, waiters, waitVars, mask, retVars, procVars>>

\* Fault: peer_has_closed_ is looked at before the queue.
ReadFails_ClosedFirst(t) ==
  LET e == ref[t] IN
  /\ pc[t] = "read"
  /\ \/ ProcOf[t] # owner[e] /\ Return(t, "BAD_HANDLE")
     \/ ProcOf[t] = owner[e] /\ peerHasClosed[e] /\ Return(t, "PEER_CLOSED")
     \/ /\ ProcOf[t] = owner[e] /\ messages[e] = <<>> /\ ~peerHasClosed[e]
        /\ Return(t, "SHOULD_WAIT")
  /\ UNCHANGED <<endVars, waiters, waitVars, obsVars, lockVars, inbox, procVars>>

\* Read takes only channel_lock_.
ReadFails(t) ==
  LET e == ref[t] IN
  /\ pc[t] = "read"
  /\ \/ ProcOf[t] # owner[e] /\ Return(t, "BAD_HANDLE")
     \/ /\ ProcOf[t] = owner[e] /\ messages[e] = <<>>
        /\ Return(t, IF peerHasClosed[e] THEN "PEER_CLOSED" ELSE "SHOULD_WAIT")
     \/ /\ ProcOf[t] = owner[e] /\ messages[e] # <<>>
        /\ Return(t, "BUFFER_TOO_SMALL")
  /\ UNCHANGED <<endVars, waiters, waitVars, obsVars, lockVars, inbox, procVars>>

\* Fault: READABLE is not cleared with the last message.
ReadPops_NoClear(t, fits) ==
  LET e == ref[t] IN
  /\ pc[t] = "read"
  /\ ProcOf[t] = owner[e] /\ messages[e] # <<>>
  /\ messages' = [messages EXCEPT ![e] = Tail(@)]
  /\ inbox' = IF fits THEN [inbox EXCEPT ![t] = Head(messages[e])] ELSE inbox
  /\ Return(t, IF fits THEN "OK" ELSE "BUFFER_TOO_SMALL")
  /\ UNCHANGED <<handle, owner, peer, peerHasClosed, signals, txid, waiters, waitVars,
                 obsVars, lockVars, procVars>>

\* The front message is taken; `fits' is false when it is discarded because
\* of ZX_CHANNEL_READ_MAY_DISCARD.
ReadPops(t, fits) ==
  LET e == ref[t] IN
  /\ pc[t] = "read"
  /\ ProcOf[t] = owner[e] /\ messages[e] # <<>>
  /\ messages' = [messages EXCEPT ![e] = Tail(@)]
  /\ signals' = IF Tail(messages[e]) = <<>>
                THEN [signals EXCEPT ![e] = @ \ {"READABLE"}] ELSE signals
  /\ inbox' = IF fits THEN [inbox EXCEPT ![t] = Head(messages[e])] ELSE inbox
  /\ Return(t, IF fits THEN "OK" ELSE "BUFFER_TOO_SMALL")
  /\ UNCHANGED <<handle, owner, peer, peerHasClosed, txid, waiters, waitVars,
                 obsVars, lockVars, procVars>>
-----------------------------------------------------------------------------
\* Calls.

\* Fault: the counter is wider than zx_txid_t.
TxidAfter_NoWrap(e, k) == txid[e] + k

\* The k-th ++txid_ from now (k <= TxidCount), in the width of txid_, and the
\* txid GenerateTxid makes of it: txid_ | kMinKernelGeneratedTxid.
TxidAfter(e, k) ==
  IF txid[e] + k < TxidCount THEN txid[e] + k ELSE txid[e] + k - TxidCount
GenerateTxid(e, k) ==
  IF TxidAfter(e, k) < kMinKernelTxid
  THEN TxidAfter(e, k) + kMinKernelTxid ELSE TxidAfter(e, k)

\* alloc_txid: GenerateTxid runs until it yields a txid no waiter of e has.
InUse(e)     == {wtxid[w] : w \in waiters[e]}
\* Fault: no test against the txids of waiting calls.
Fresh_Any(e) == 1 .. TxidCount
Fresh(e)     == {k \in 1 .. TxidCount : GenerateTxid(e, k) \notin InUse(e)}
AllocTxid(e) == CHOOSE k \in Fresh(e) : \A j \in Fresh(e) : k <= j

\* BeginWait fails: the thread already has a channel in its waiter.
CallTwice(t) ==
  /\ pc[t] = "call" /\ chan[t] # NoChannel
  /\ killed' = killed \cup {ProcOf[t]}
  /\ vdsoKill' = vdsoKill \cup {ProcOf[t]}
  /\ Return(t, "BAD_STATE")
  /\ UNCHANGED <<endVars, waiters, waitVars, obsVars, lockVars, inbox, excp, calls>>

\* BeginWait; it changes only the thread's own waiter, which no other thread
\* looks at before it is linked, so it shares a step with what follows.
BeginWait(t, e) ==
  /\ chan[t] = NoChannel
  /\ chan' = [chan EXCEPT ![t] = e]
  /\ status' = [status EXCEPT ![t] = "TIMED_OUT"]
  /\ event' = [event EXCEPT ![t] = FALSE]

\* The owner test fails after BeginWait: Call returns without EndWait.
CallNotOwner(t) ==
  /\ pc[t] = "call" /\ ~glock
  /\ ProcOf[t] # owner[ref[t]]
  /\ BeginWait(t, ref[t])
  /\ Return(t, "BAD_HANDLE")
  /\ UNCHANGED <<endVars, waiters, wtxid, wmsg, call, obsVars, lockVars, inbox, procVars>>

\* No peer: BeginWait is undone by EndWait, which also takes msg_.
CallNoPeer(t) ==
  /\ pc[t] = "call" /\ ~glock
  /\ chan[t] = NoChannel
  /\ ProcOf[t] = owner[ref[t]] /\ ~peer[ref[t]]
  /\ status' = [status EXCEPT ![t] = "TIMED_OUT"]
  /\ event' = [event EXCEPT ![t] = FALSE]
  /\ wmsg' = [wmsg EXCEPT ![t] = NoMsg]
  /\ Return(t, "PEER_CLOSED")
  /\ UNCHANGED <<endVars, waiters, chan, wtxid, call, obsVars, lockVars, inbox, procVars>>

\* The request is queued at the peer and the waiter linked at this endpoint.
CallSends(t) ==
  LET e == ref[t]
      k == AllocTxid(e)
      x == GenerateTxid(e, k)
      m == [txid |-> x, id |-> calls + 1, re |-> 0]
  IN
  /\ pc[t] = "call" /\ ~glock
  /\ ProcOf[t] = owner[e] /\ peer[e]
  /\ Len(messages[Other(e)]) < MaxQueue /\ calls < MaxCalls
  /\ BeginWait(t, e)
  /\ txid' = [txid EXCEPT ![e] = TxidAfter(e, k)]
  /\ wtxid' = [wtxid EXCEPT ![t] = x]
  /\ waiters' = [waiters EXCEPT ![e] = @ \cup {t}]
  /\ calls' = calls + 1
  /\ call' = [call EXCEPT ![t] = calls + 1]
  /\ WriteSelf(Other(e), m, t, "blocked")
  /\ ref' = IF "READABLE" \in signals[Other(e)] THEN [ref EXCEPT ![t] = NoChannel] ELSE ref
  /\ UNCHANGED <<handle, owner, peer, peerHasClosed, wmsg, obsVars, retVars, killed, vdsoKill>>

\* event_.Wait() returns for good: the event is signaled, or, if it is not,
\* the deadline passed or the process is being killed.
WaitDone(t) ==
  /\ pc[t] = "blocked"
  /\ Goto(t, "woken")
  /\ UNCHANGED <<endVars, waiters, waitVars, obsVars, lockVars, ref, retVars, procVars>>

\* ZX_ERR_INTERNAL_INTR_RETRY: the thread is suspended; the waiter stays.
WaitInterrupted(t) ==
  /\ pc[t] = "blocked" /\ ~event[t]
  /\ Goto(t, "retry")
  /\ UNCHANGED <<endVars, waiters, waitVars, obsVars, lockVars, ref, retVars, procVars>>

\* The vDSO resumes the call: channel_call_finish.
CallFinish(t) ==
  /\ pc[t] = "retry" /\ ProcOf[t] \notin killed
  /\ IF chan[t] = NoChannel
     THEN Return(t, "BAD_STATE")
     ELSE Goto(t, "blocked") /\ UNCHANGED <<ref, ret, reply>>
  /\ UNCHANGED <<endVars, waiters, waitVars, obsVars, lockVars, inbox, procVars>>

\* Fault: EndWait copies msg_ instead of moving it.
EndWait_KeepsMsg(t) ==
  /\ pc[t] = "woken" /\ ~glock
  /\ chan[t] # NoChannel
  /\ waiters' = IF status[t] = "TIMED_OUT"
                THEN [waiters EXCEPT ![chan[t]] = @ \ {t}] ELSE waiters
  /\ chan' = [chan EXCEPT ![t] = NoChannel]
  /\ Goto(t, "idle")
  /\ Returns(t, status[t], wmsg[t])
  /\ UNCHANGED <<endVars, status, wtxid, wmsg, event, call, obsVars, lockVars, ref, inbox,
                 procVars>>

\* The rest of ResumeInterruptedCall: EndWait, and erase on TIMED_OUT.
EndWait(t) ==
  /\ pc[t] = "woken" /\ ~glock
  /\ chan[t] # NoChannel
  /\ waiters' = IF status[t] = "TIMED_OUT"
                THEN [waiters EXCEPT ![chan[t]] = @ \ {t}] ELSE waiters
  /\ chan' = [chan EXCEPT ![t] = NoChannel]
  /\ wmsg' = [wmsg EXCEPT ![t] = NoMsg]
  /\ Goto(t, "idle")
  /\ Returns(t, status[t], wmsg[t])
  /\ UNCHANGED <<endVars, status, wtxid, event, call, obsVars, lockVars, ref, inbox, procVars>>
-----------------------------------------------------------------------------
\* Handles: transfer between processes, and close.

\* msg_put_handles of a write to another channel takes the handle out of the
\* table.  set_owner(ZX_KOID_INVALID) does nothing.
SendHandle(t, e) ==
  /\ MayCall(t, "send") /\ handle[e] = ProcOf[t]
  /\ handle' = [handle EXCEPT ![e] = "transit"]
  /\ UNCHANGED <<owner, peer, peerHasClosed, messages, signals, txid, waiters, waitVars,
                 obsVars, lockVars, pc, ref, retVars, procVars>>

\* The message that carries the handle is read from the other channel ...
ReceiveMessage(t, e) ==
  /\ MayCall(t, "receive") /\ handle[e] = "transit"
  /\ handle' = [handle EXCEPT ![e] = "received"]
  /\ Goto(t, "recv_observers")
  /\ ref' = [ref EXCEPT ![t] = e]
  /\ UNCHANGED <<owner, peer, peerHasClosed, messages, signals, txid, waiters, waitVars,
                 obsVars, lockVars, retVars, procVars>>

\* ... or discarded with the handle in it.
DiscardMessage(e) ==
  /\ handle[e] = "transit"
  /\ handle' = [handle EXCEPT ![e] = "deleting"]
  /\ UNCHANGED <<owner, peer, peerHasClosed, messages, signals, txid, waiters, waitVars,
                 obsVars, lockVars, pc, ref, retVars, procVars>>

\* msg_get_handles: Cancel(handle), CancelMessageWaiters(), AddHandle().
ReceiveCancelObservers(t) ==
  /\ pc[t] = "recv_observers" /\ ~glock
  /\ CancelObservers(ref[t])
  /\ Goto(t, "recv_waiters")
  /\ UNCHANGED <<endVars, waiters, waitVars, lockVars, ref, retVars, procVars>>

ReceiveCancelWaiters(t) ==
  /\ pc[t] = "recv_waiters" /\ ~glock
  /\ CancelMessageWaitersLocked(ref[t], "CANCELED")
  /\ Goto(t, "recv_add")
  /\ UNCHANGED <<endVars, obsVars, lockVars, ref, retVars, procVars>>

\* Fault: the handle is added without set_owner.
ReceiveAddHandle_NoOwner(t) ==
  /\ pc[t] = "recv_add" /\ ~glock
  /\ handle' = [handle EXCEPT ![ref[t]] = ProcOf[t]]
  /\ Goto(t, "idle")
  /\ ref' = [ref EXCEPT ![t] = NoChannel]
  /\ UNCHANGED <<owner, peer, peerHasClosed, messages, signals, txid, waiters, waitVars,
                 obsVars, lockVars, retVars, procVars>>

\* AddHandleLocked: set_handle_table_id and set_owner under the table's lock.
ReceiveAddHandle(t) ==
  /\ pc[t] = "recv_add" /\ ~glock
  /\ handle' = [handle EXCEPT ![ref[t]] = ProcOf[t]]
  /\ owner' = [owner EXCEPT ![ref[t]] = ProcOf[t]]
  /\ Goto(t, "idle")
  /\ ref' = [ref EXCEPT ![t] = NoChannel]
  /\ UNCHANGED <<peer, peerHasClosed, messages, signals, txid, waiters, waitVars,
                 obsVars, lockVars, retVars, procVars>>

\* sys_handle_close: the handle leaves the table, then is deleted.
CloseHandle(t, e) ==
  /\ MayCall(t, "close") /\ handle[e] = ProcOf[t]
  /\ handle' = [handle EXCEPT ![e] = "deleting"]
  /\ Goto(t, "close")
  /\ ref' = [ref EXCEPT ![t] = e]
  /\ UNCHANGED <<owner, peer, peerHasClosed, messages, signals, txid, waiters, waitVars,
                 obsVars, lockVars, retVars, procVars>>

\* Fault: the handle is deleted without Cancel().
DeleteCancel_NoCancel(e) ==
  /\ handle[e] = "deleting" /\ ~glock
  /\ handle' = [handle EXCEPT ![e] = "canceled"]
  /\ UNCHANGED <<owner, peer, peerHasClosed, messages, signals, txid, waiters, waitVars,
                 obsVars, lockVars, pc, ref, retVars, procVars>>

\* HandleTableArena::Delete: Cancel(handle), and if it was the last handle
\* (a channel endpoint has only one) on_zero_handles().
DeleteCancel(e) ==
  /\ handle[e] = "deleting" /\ ~glock
  /\ CancelObservers(e)
  /\ handle' = [handle EXCEPT ![e] = "canceled"]
  /\ UNCHANGED <<owner, peer, peerHasClosed, messages, signals, txid, waiters, waitVars,
                 lockVars, pc, ref, retVars, procVars>>

\* PeeredDispatcher::on_zero_handles up to where OnPeerZeroHandlesLocked
\* releases channel_lock_.
OnZeroHandles(e) ==
  /\ handle[e] = "canceled" /\ ~glock
  /\ CancelMessageWaitersLocked(e, "CANCELED")
  /\ IF peer[e]
     THEN /\ peer' = [i \in Endpoints |-> FALSE]
          /\ peerHasClosed' = [peerHasClosed EXCEPT ![Other(e)] = TRUE]
          /\ handle' = [handle EXCEPT ![e] = "zeroing"]
          /\ glock' = TRUE
     ELSE /\ handle' = [handle EXCEPT ![e] = "closed"]
          /\ UNCHANGED <<peer, peerHasClosed, glock>>
  /\ UNCHANGED <<owner, messages, signals, txid, obsVars, notify, pc, ref, retVars, procVars>>

\* Fault: (3B) is missing, the peer's calls are not canceled.
OnPeerZeroHandles_NoCancel(e) ==
  LET o == Other(e)
      updated == (signals[o] \ {"WRITABLE"}) \cup {"PEER_CLOSED"}
  IN
  /\ handle[e] = "zeroing"
  /\ signals' = [signals EXCEPT ![o] = updated]
  /\ NotifyObserversLocked(o, updated)
  /\ handle' = [handle EXCEPT ![e] = "closed"]
  /\ glock' = FALSE
  /\ UNCHANGED <<owner, peer, peerHasClosed, messages, txid, waiters, waitVars, mask, notify,
                 pc, ref, retVars, procVars>>

\* The rest of OnPeerZeroHandlesLocked, on the peer: UpdateStateLocked
\* (PEER_CLOSED is always newly active here) and cancel its waiters.
OnPeerZeroHandles(e) ==
  LET o == Other(e)
      updated == (signals[o] \ {"WRITABLE"}) \cup {"PEER_CLOSED"}
  IN
  /\ handle[e] = "zeroing"
  /\ signals' = [signals EXCEPT ![o] = updated]
  /\ NotifyObserversLocked(o, updated)
  /\ CancelMessageWaitersLocked(o, "PEER_CLOSED")
  /\ handle' = [handle EXCEPT ![e] = "closed"]
  /\ glock' = FALSE
  /\ UNCHANGED <<owner, peer, peerHasClosed, messages, txid, mask, notify, pc, ref,
                 retVars, procVars>>

CloseReturns(t) ==
  /\ pc[t] = "close" /\ handle[ref[t]] = "closed"
  /\ Goto(t, "idle")
  /\ ref' = [ref EXCEPT ![t] = NoChannel]
  /\ UNCHANGED <<endVars, waiters, waitVars, obsVars, lockVars, retVars, procVars>>

\* ~ChannelDispatcher, when no handle, thread, waiter or peer refers to e.
Destroy(e) ==
  /\ handle[e] = "closed" /\ ~peer[Other(e)]
  /\ \A t \in Threads : ref[t] # e /\ chan[t] # e
  /\ messages[e] # <<>>
  /\ messages' = [messages EXCEPT ![e] = <<>>]
  /\ signals' = [signals EXCEPT ![e] = @ \ {"READABLE"}]
  /\ UNCHANGED <<handle, owner, peer, peerHasClosed, txid, waiters, waitVars, obsVars,
                 lockVars, pc, ref, retVars, procVars>>
-----------------------------------------------------------------------------
\* Processes and threads, as far as a channel depends on them.

Kill(p) ==
  /\ p \in Killable \ killed
  /\ killed' = killed \cup {p}
  /\ UNCHANGED <<endVars, waiters, waitVars, obsVars, lockVars, pc, ref, retVars,
                 excp, vdsoKill, calls>>

\* The policy exception is handled and the thread resumed.
ResumeException(t) ==
  /\ t \in excp /\ pc[t] = "idle"
  /\ excp' = excp \ {t}
  /\ UNCHANGED <<endVars, waiters, waitVars, obsVars, lockVars, pc, ref, retVars,
                 killed, vdsoKill, calls>>

\* A killed thread exits on its way to user mode; the last one of its process
\* empties the handle table (HandleTable::Clean).
Exit(t) ==
  LET last == \A u \in Threads \ {t} : ProcOf[u] = ProcOf[t] => pc[u] \in {"dead", "gone"} IN
  /\ ProcOf[t] \in killed /\ pc[t] \in {"idle", "retry"}
  /\ Goto(t, "dead")
  /\ handle' = [e \in Endpoints |-> IF last /\ handle[e] = ProcOf[t]
                                    THEN "deleting" ELSE handle[e]]
  /\ UNCHANGED <<owner, peer, peerHasClosed, messages, signals, txid, waiters, waitVars,
                 obsVars, lockVars, ref, retVars, procVars>>

\* ~ThreadDispatcher, when its last handle goes, runs ~MessageWaiter, which
\* unlinks the waiter if it is still linked (RemoveWaiter).
DestroyThread(t) ==
  /\ pc[t] = "dead" /\ ~glock
  /\ IF chan[t] # NoChannel
     THEN waiters' = [waiters EXCEPT ![chan[t]] = @ \ {t}]
     ELSE UNCHANGED waiters
  /\ chan' = [chan EXCEPT ![t] = NoChannel]
  /\ wmsg' = [wmsg EXCEPT ![t] = NoMsg]
  /\ Goto(t, "gone")
  /\ UNCHANGED <<endVars, status, wtxid, event, call, obsVars, lockVars, ref, retVars, procVars>>
-----------------------------------------------------------------------------
\* System calls a thread decides to make.
UserStep(t) ==
  \E e \in Endpoints :
    \/ \E op \in {"read", "write", "call"} : Lookup(t, e, op)
    \/ \E m \in (SUBSET Signals) \ {{}} : WaitOneBegin(t, e, m)
    \/ SendHandle(t, e) \/ ReceiveMessage(t, e) \/ CloseHandle(t, e)

\* What the kernel then does for the thread.
KernelStep(t) ==
  \/ WriteFails(t)
  \/ \E m \in Outgoing(t) : WriteToQueue(t, m) \/ \E w \in Threads : WriteToWaiter(t, m, w)
  \/ NotifyReadable(t)
  \/ ReadFails(t) \/ \E fits \in BOOLEAN : ReadPops(t, fits)
  \/ CallTwice(t) \/ CallNotOwner(t) \/ CallNoPeer(t) \/ CallSends(t)
  \/ EndWait(t) \/ WaitOneEnd(t)
  \/ ReceiveCancelObservers(t) \/ ReceiveCancelWaiters(t) \/ ReceiveAddHandle(t)
  \/ CloseReturns(t)

DeleteStep(e) == DeleteCancel(e) \/ OnZeroHandles(e) \/ OnPeerZeroHandles(e)

Next ==
  \/ \E t \in Threads :
       \/ UserStep(t) \/ KernelStep(t)
       \/ WaitDone(t) \/ WaitInterrupted(t) \/ CallFinish(t) \/ WaitOneDone(t)
       \/ ResumeException(t) \/ Exit(t) \/ DestroyThread(t)
  \/ \E e \in Endpoints : DeleteStep(e) \/ DiscardMessage(e) \/ Destroy(e)
  \/ \E p \in Procs : Kill(p)

Spec == Init /\ [][Next]_vars

(***************************************************************************)
(* Fairness for the liveness properties.  A thread inside a system call    *)
(* keeps running, and gets get_lock() when it waits for it (strong         *)
(* fairness: the lock may be taken by others in between); a signaled event *)
(* wakes its waiter.  Nothing is assumed of what programs do, of deadlines,*)
(* of suspension, or of Read, which a program may call in a loop.          *)
(***************************************************************************)
Fairness ==
  /\ \A t \in Threads :
       /\ SF_vars(KernelStep(t))
       /\ WF_vars(event[t] /\ WaitDone(t))
       /\ WF_vars(oevent[t] # "NONE" /\ WaitOneDone(t))
  /\ \A e \in Endpoints : SF_vars(DeleteStep(e))

FairSpec == Spec /\ Fairness
-----------------------------------------------------------------------------
(***************************************************************************)
(* Properties.                                                             *)
(***************************************************************************)
\* The parts of the type invariant, by what the variables belong to.
EndpointType ==
  /\ handle \in [Endpoints -> Procs \cup HandleLimbo]
  /\ owner \in [Endpoints -> Procs]
  /\ peer \in [Endpoints -> BOOLEAN] /\ peerHasClosed \in [Endpoints -> BOOLEAN]
  /\ messages \in [Endpoints -> Seq(Message)]
  /\ signals \in [Endpoints -> SUBSET Signals]
  /\ txid \in [Endpoints -> Txids]
WaiterType ==
  /\ waiters \in [Endpoints -> SUBSET Threads]
  /\ chan \in [Threads -> Endpoints \cup {NoChannel}]
  /\ status \in [Threads -> Statuses]
  /\ wtxid \in [Threads -> Txids]
  /\ wmsg \in [Threads -> Message \cup {NoMsg}]
  /\ event \in [Threads -> BOOLEAN]
  /\ call \in [Threads -> 0 .. MaxCalls]
ObserverType ==
  /\ observers \in [Endpoints -> SUBSET Threads]
  /\ mask \in [Threads -> SUBSET Signals]
  /\ final \in [Threads -> SUBSET (Signals \cup {"HANDLE_CLOSED"})]
  /\ oevent \in [Threads -> {"NONE", "OK", "CANCELED"}]
ThreadType ==
  /\ pc \in [Threads -> PCs]
  /\ ref \in [Threads -> Endpoints \cup {NoChannel}]
  /\ ret \in [Threads -> Statuses]
  /\ reply \in [Threads -> Message \cup {NoMsg}]
  /\ inbox \in [Threads -> Message \cup {NoMsg}]
SystemType ==
  /\ glock \in BOOLEAN /\ notify \in SUBSET Signals
  /\ excp \subseteq Threads /\ killed \subseteq Procs /\ vdsoKill \subseteq killed
  /\ calls \in 0 .. MaxCalls

\* Every variable keeps to its type.
TypeOK == EndpointType /\ WaiterType /\ ObserverType /\ ThreadType /\ SystemType

\* READABLE is active exactly when there is a message, even while a writer is
\* still notifying observers and a reader, holding only channel_lock_, takes
\* the message away (the race of NoSpuriousReadableSignalWhenRacing).
ReadableIffMessages ==
  \A e \in Endpoints : "READABLE" \in signals[e] <=> messages[e] # <<>>

\* When ResumeInterruptedCall finds TIMED_OUT and erases the waiter, the waiter
\* is linked, in that channel's list; and it is linked in no list it does not
\* refer to, whatever reply, cancel, close or suspension raced the deadline.
WaiterListSound ==
  /\ \A t \in Threads : pc[t] \in {"notify_call", "blocked", "woken", "retry"} =>
       /\ chan[t] # NoChannel
       /\ status[t] = "TIMED_OUT" => t \in waiters[chan[t]]
  /\ \A e \in Endpoints : \A t \in waiters[e] :
       /\ chan[t] = e /\ status[t] = "TIMED_OUT" /\ wmsg[t] = NoMsg
       /\ pc[t] \in {"notify_call", "blocked", "woken", "retry", "dead"}

\* Whenever get_lock() is free, no call waits on an endpoint without a peer:
\* every close, on either side, cancels the calls it leaves without an answer.
NoCallWithoutPeer ==
  \A e \in Endpoints : ~glock /\ waiters[e] # {} => peer[e]

\* The calls waiting on one endpoint have different txids, kernel generated
\* ones, after any number of calls and across the wrap of the txid counter.
TxidsUnique ==
  \A e \in Endpoints : \A t, u \in waiters[e] :
    IsKernelGenerated(wtxid[t]) /\ (wtxid[t] = wtxid[u] => t = u)

\* Programs by which a reply can be told from others at all: the ends stay with
\* their processes, each of which calls or writes but not both; txids that
\* programs choose are not kernel generated; and no txid is generated twice.
ClientServer ==
  /\ \A t \in Threads : "receive" \notin Prog[t]
  /\ \A t, u \in Threads : "call" \in Prog[t] /\ "write" \in Prog[u] => ProcOf[t] # ProcOf[u]
  /\ \A x \in UserTxids : ~IsKernelGenerated(x)
  /\ MaxCalls < kMinKernelTxid

\* The reply a call gets was written for that call: a late or repeated answer
\* to a call that timed out or was canceled is never handed to a later call.
ReplyAnswersCall ==
  \A t \in Threads :
    /\ wmsg[t] # NoMsg => wmsg[t].re = call[t]
    /\ reply[t] # NoMsg => reply[t].re = call[t]

\* A reply taken off the writer is not lost and not left behind: while it sits
\* in the waiter the call is still in progress, will be woken and will return
\* ZX_OK, even if its deadline has already passed; and a call never returns
\* ZX_OK without one.
DeliveredReplyReturned ==
  \A t \in Threads :
    /\ wmsg[t] # NoMsg => chan[t] # NoChannel /\ status[t] = "OK" /\ event[t]
    /\ chan[t] # NoChannel /\ status[t] = "OK" => wmsg[t] # NoMsg

\* No wakeup is lost: when get_lock() is free no wait_one observer is queued
\* for a signal that is active (dispatcher.h: "there must be no |observers_|
\* matching any of the active |signals_|").
NoLostWakeup ==
  ~glock => \A e \in Endpoints : \A t \in observers[e] : mask[t] \cap signals[e] = {}

\* A wait does not outlive the handle it was made on: once a handle is
\* deleted, or in another process's table, no wait made on it is pending.
WaitEndsWithHandle ==
  \A e \in Endpoints :
    /\ handle[e] \in {"canceled", "zeroing", "closed"} => observers[e] = {}
    /\ handle[e] \in Procs => \A t \in observers[e] : ProcOf[t] = handle[e]

\* Once a process has the endpoint's handle, threads of a previous owner that
\* looked the handle up earlier can no longer move a message through it.
OldOwnerShutOut ==
  [][\A t \in Threads :
       (/\ pc[t] \in {"read", "write", "call"} /\ pc'[t] # pc[t]
        /\ messages' # messages \/ waiters' # waiters
        /\ handle[ref[t]] \in Procs)
       => handle[ref[t]] = ProcOf[t]]_vars

\* After its peer is closed an endpoint's queue never grows, what was written
\* before is still there to be read, and a read reports PEER_CLOSED only when
\* all of it has been taken.
PeerClosedFinal ==
  [][/\ \A e \in Endpoints : peerHasClosed[e] =>
          /\ peerHasClosed'[e] /\ ~peer'[e]
          /\ \/ messages'[e] = messages[e]
             \/ messages[e] # <<>> /\ messages'[e] = Tail(messages[e])
             \/ handle[e] = "closed"
     /\ \A t \in Threads :
          (pc[t] = "read" /\ pc'[t] = "idle" /\ ret'[t] = "PEER_CLOSED")
            => messages[ref[t]] = <<>>]_vars

\* A thread's waiter refers to a channel only while one of its calls is in
\* progress, so that Call shoots only a process whose thread really "tries
\* BeginWait'ing twice" (channel_dispatcher.cc:387).
VdsoKillDeserved == vdsoKill = {}

\* A caller whose peer is gone does not stay blocked, and get_lock() is always
\* released.
CallerUnblocked ==
  \A t \in Threads :
    (pc[t] = "blocked" /\ \A e \in Endpoints : ~peer[e])
      ~> pc[t] \in {"idle", "retry", "dead", "gone"}

\* A delivered reply reaches its caller, unless the caller is suspended or dies
\* first.
ReplyReachesCaller ==
  \A t \in Threads :
    (wmsg[t] # NoMsg) ~> (reply[t] # NoMsg \/ pc[t] \in {"retry", "dead", "gone"})
=============================================================================
