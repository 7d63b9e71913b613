-------------------------------- MODULE Port --------------------------------
(***************************************************************************)
(* One Zircon port: PortDispatcher, the PortObservers that watch other     *)
(* objects for it, and the part of Dispatcher (observer list, signals,     *)
(* handle cancellation) through which those objects call back into it.     *)
(*                                                                         *)
(* One action is one critical section.  The port's own get_lock() and its  *)
(* spinlock_ protect single actions.  The get_lock() of a watched object   *)
(* is held across several of them, since OnMatch and OnCancel run under it *)
(* and take the port's lock once or twice: dlock says who holds it.  The   *)
(* handle table's lock, held by readers in wait_async and port_cancel, is  *)
(* derived from op.                                                        *)
(***************************************************************************)
EXTENDS Integers, Sequences, FiniteSets, FiniteSetsExt

CONSTANTS
  Threads, Objects, Keys,
  Observers,        \* bound: every wait_async uses up one of them
  IrqPackets,       \* PortInterruptPackets of the interrupts bound to the port
  Prog,             \* which system calls each thread makes
  kMaxAllocatedPacketCountPerPort,
  MaxPortObservers, \* gBootOptions->max_port_observers
  SizeBits,         \* width of size_t (64 in the code)
  MaxSema,          \* bound: the semaphore's count
  Null

\* A queued packet: the packet_ inside an observer, named by the observer, or
\* a user packet, of which only the key matters.
UserPacket == [userKey : Keys]
NoKey      == 0
Packets    == Observers \cup UserPacket

ASSUME PortAssumption ==
  /\ IsFiniteSet(Threads) /\ IsFiniteSet(Observers)
  /\ kMaxAllocatedPacketCountPerPort \in Nat /\ MaxPortObservers \in Nat
  /\ SizeBits \in Nat \ {0} /\ MaxSema \in Nat
  /\ Cardinality(Observers) < 2^SizeBits
  /\ Keys \subseteq Nat \ {0}
  /\ Null \notin Threads \cup Objects \cup Observers
  \* Packets of observers and user packets are different things.
  /\ UserPacket \cap Observers = {}

Ops == {"wait_async", "signal", "cancel", "cancel_key", "queue", "dequeue",
        "close_object", "close_port"}

VARIABLES
  zero,       \* zero_handles_
  packets,    \* packets_
  eph,        \* num_ephemeral_packets_
  sema,       \* the tokens of sema_
  irqs,       \* interrupt_packets_
  irqPosts,   \* interrupts between the two halves of QueueInterruptPacket
  observers,  \* observers_
  size,       \* observers_.size()
  portOpen,   \* the port's handle is in the table
  \* PortObserver
  life,       \* "none", "live" or "destroyed"
  odisp,      \* dispatcher_
  okey, oobj, \* the packet's key, and the object the handle refers to
  canceled,   \* observers whose packet has type kPortPacketTypeCanceled
  owned,      \* observers held by their own packet's `observer' pointer
  \* the watched Dispatchers
  active,     \* objects whose watched signal is active
  open,       \* objects whose handle is in the table
  dobs,       \* Dispatcher::observers_
  dlock,      \* the holder of Dispatcher::get_lock() between actions
  \* threads
  pc, op,     \* control point and system call
  obj, key,   \* arguments of the call; the dispatcher it works on
  edge,       \* ZX_WAIT_ASYNC_EDGE
  cur,        \* the observer it works on
  temp,       \* canceled_observers of CancelKey
  excp,       \* threads with a pending PORT_TOO_MANY_* policy exception
  \* ghosts
  covers,     \* observers registered when the thread's cancel began
  finished,   \* observers covered by a cancel that has returned
  got         \* how often Dequeue has returned the packet of an observer

portVars == <<zero, packets, eph, irqs, irqPosts, observers, size, portOpen>>
obsVars  == <<life, odisp, okey, oobj, canceled, owned>>
dispVars == <<active, open, dobs, dlock>>
threadVars == <<pc, op, obj, key, edge, cur, temp, excp>>
ghosts == <<covers, finished, got>>
vars == <<portVars, sema, obsVars, dispVars, threadVars, ghosts>>

Init ==
  /\ zero = FALSE /\ packets = <<>> /\ eph = 0 /\ sema = 0
  /\ irqs = <<>> /\ irqPosts = 0
  /\ observers = {} /\ size = 0 /\ portOpen = TRUE
  /\ life = [o \in Observers |-> "none"]
  /\ odisp = [o \in Observers |-> Null]
  /\ okey = [o \in Observers |-> NoKey]
  /\ oobj = [o \in Observers |-> Null]
  /\ canceled = {} /\ owned = {}
  /\ active = {} /\ open = Objects
  /\ dobs = [b \in Objects |-> {}] /\ dlock = [b \in Objects |-> Null]
  /\ pc = [t \in Threads |-> "idle"] /\ op = [t \in Threads |-> "none"]
  /\ obj = [t \in Threads |-> Null] /\ cur = [t \in Threads |-> Null]
  /\ key = [t \in Threads |-> NoKey]
  /\ edge = [t \in Threads |-> FALSE]
  /\ temp = [t \in Threads |-> {}] /\ excp = {}
  /\ covers = [t \in Threads |-> {}] /\ finished = {}
  /\ got = [o \in Observers |-> 0]
-----------------------------------------------------------------------------
\* Control of a thread.

Goto(t, l) == pc' = [pc EXCEPT ![t] = l]

\* Back in user mode; the locals die.
Return(t) ==
  /\ Goto(t, "idle")
  /\ op' = [op EXCEPT ![t] = "none"]
  /\ obj' = [obj EXCEPT ![t] = Null] /\ cur' = [cur EXCEPT ![t] = Null]
  /\ key' = [key EXCEPT ![t] = NoKey] /\ edge' = [edge EXCEPT ![t] = FALSE]
  /\ UNCHANGED temp

\* The handle table's lock is held for reading: no handle can be closed.
TableReader(t) == op[t] \in {"wait_async", "cancel"} /\ pc[t] # "cancel"

\* The calls that look the port up first and then use it: its handle, or the
\* object's, may be closed in between.
Lookup(t, o, b, k) ==
  /\ pc[t] = "idle" /\ o \in Prog[t] \cap {"cancel", "cancel_key", "queue", "dequeue"}
  /\ t \notin excp
  /\ portOpen
  /\ Goto(t, o)
  /\ op' = [op EXCEPT ![t] = o]
  /\ obj' = [obj EXCEPT ![t] = IF o = "cancel" THEN b ELSE Null]
  /\ key' = [key EXCEPT ![t] = k]
  /\ UNCHANGED <<portVars, sema, obsVars, dispVars, edge, cur, temp, excp, ghosts>>
-----------------------------------------------------------------------------
\* Lifetime of an observer.

\* Fault: the count is signed and wide enough.
Size_Signed(n) == n

\* The value of a size_t.
Size(n) == n % 2^SizeBits

Destroy(S) == life' = [o \in Observers |-> IF o \in S THEN "destroyed" ELSE life[o]]

\* A list has an element; what is left of a list when it keeps the elements at
\* some positions.
Has(s, x) == \E i \in 1 .. Len(s) : s[i] = x
Keep(s, I) ==
  LET upTo[i \in 0 .. Len(s)] == IF i = 0 THEN <<>>
                                 ELSE IF i \in I THEN Append(upTo[i - 1], s[i])
                                 ELSE upTo[i - 1]
  IN  upTo[Len(s)]

InQueue(o) == Has(packets, o)

PacketKey(p) == IF p \in Observers THEN okey[p] ELSE p.userKey

\* The waits on object b (Null: on any) with key k whose wait_async is over.
Registered(b, k) ==
  {o \in Observers : /\ life[o] = "live" /\ okey[o] = k /\ b \in {Null, oobj[o]}
                     /\ \A u \in Threads : op[u] = "wait_async" => cur[u] # o}

\* The number of user packets in a queue.
Users(ps) == Cardinality({i \in 1 .. Len(ps) : ps[i] \notin Observers})
-----------------------------------------------------------------------------
\* zx_object_wait_async.

\* MakeObserver, under the handle table's lock: the observer is linked into
\* observers_ ...
MakeObserver(t, o, b, k, e) ==
  /\ pc[t] = "idle" /\ "wait_async" \in Prog[t] /\ t \notin excp
  /\ portOpen /\ b \in open
  /\ life[o] = "none"
  /\ life' = [life EXCEPT ![o] = "live"]
  /\ odisp' = [odisp EXCEPT ![o] = b] /\ oobj' = [oobj EXCEPT ![o] = b]
  /\ okey' = [okey EXCEPT ![o] = k]
  /\ excp' = IF size >= MaxPortObservers THEN excp \cup {t} ELSE excp
  /\ observers' = observers \cup {o} /\ size' = Size(size + 1)
  /\ op' = [op EXCEPT ![t] = "wait_async"]
  /\ obj' = [obj EXCEPT ![t] = b] /\ cur' = [cur EXCEPT ![t] = o]
  /\ edge' = [edge EXCEPT ![t] = e]
  /\ Goto(t, "add")
  /\ UNCHANGED <<zero, packets, eph, irqs, irqPosts, portOpen, sema, canceled, owned,
                 dispVars, key, temp, ghosts>>

\* ... and then, with the port's lock released, handed to the object.
AddObserver(t) ==
  LET b == obj[t] IN
  /\ pc[t] = "add" /\ dlock[b] = Null
  /\ IF ~edge[t] /\ b \in active
     THEN /\ dlock' = [dlock EXCEPT ![b] = t]
          /\ Goto(t, "match")
          /\ UNCHANGED <<dobs, op, obj, key, edge, cur, temp>>
     ELSE /\ dobs' = [dobs EXCEPT ![b] = @ \cup {cur[t]}]
          /\ Return(t)
          /\ UNCHANGED dlock
  /\ UNCHANGED <<portVars, sema, obsVars, active, open, excp, ghosts>>
-----------------------------------------------------------------------------
\* PortObserver::OnMatch and OnCancel, under the object's lock.

\* Fault: the canceled flag is not tested.
QueueObserver_NoCanceledCheck(t) ==
  LET o == cur[t] IN
  /\ pc[t] = "match"
  /\ IF zero
     THEN Goto(t, "reap") /\ UNCHANGED packets
     ELSE Goto(t, "post") /\ packets' = Append(packets, o)
  /\ UNCHANGED <<zero, eph, irqs, irqPosts, observers, size, portOpen, sema, obsVars,
                 dispVars, op, obj, key, edge, cur, temp, excp, ghosts>>

\* Queue(&packet_): refused when the port is closed, skipped when canceled.
QueueObserver(t) ==
  LET o == cur[t] IN
  /\ pc[t] = "match"
  /\ IF zero \/ o \in canceled
     THEN Goto(t, "reap") /\ UNCHANGED packets
     ELSE Goto(t, "post") /\ packets' = Append(packets, o)
  /\ UNCHANGED <<zero, eph, irqs, irqPosts, observers, size, portOpen, sema, obsVars,
                 dispVars, op, obj, key, edge, cur, temp, excp, ghosts>>

\* Fault: the semaphore does not count, as an event would not.
Post_OneToken(t) ==
  /\ pc[t] \in {"post", "post_user"}
  /\ sema' = 1
  /\ IF pc[t] = "post"
     THEN Goto(t, "reap") /\ UNCHANGED <<op, obj, key, edge, cur, temp>>
     ELSE Return(t)
  /\ UNCHANGED <<portVars, obsVars, dispVars, excp, ghosts>>

\* sema_.Post(), after the port's lock is released.
Post(t) ==
  /\ pc[t] \in {"post", "post_user"}
  /\ sema' = sema + 1
  /\ IF pc[t] = "post"
     THEN Goto(t, "reap") /\ UNCHANGED <<op, obj, key, edge, cur, temp>>
     ELSE Return(t)
  /\ UNCHANGED <<portVars, obsVars, dispVars, excp, ghosts>>

\* MaybeReap.  `observers_.erase' unlinks the observer from the list it is in,
\* which may be a canceler's temporary one, and counts down observers_.
MaybeReap(t) ==
  LET o == cur[t] IN
  /\ pc[t] = "reap"
  /\ IF odisp[o] # Null
     THEN /\ odisp' = [odisp EXCEPT ![o] = Null]
          /\ observers' = observers \ {o} /\ size' = Size(size - 1)
          /\ temp' = [u \in Threads |-> temp[u] \ {o}]
          /\ IF InQueue(o)
             THEN owned' = owned \cup {o} /\ UNCHANGED life
             ELSE Destroy({o}) /\ UNCHANGED owned
     ELSE UNCHANGED <<odisp, observers, size, temp, owned, life>>
  /\ IF op[t] = "wait_async"
     THEN /\ dlock' = [dlock EXCEPT ![obj[t]] = Null]
          /\ Goto(t, "idle") /\ op' = [op EXCEPT ![t] = "none"]
          /\ obj' = [obj EXCEPT ![t] = Null]
     ELSE Goto(t, "loop") /\ UNCHANGED <<dlock, op, obj>>
  /\ cur' = [cur EXCEPT ![t] = Null] /\ edge' = [edge EXCEPT ![t] = FALSE]
  /\ UNCHANGED <<zero, packets, eph, irqs, irqPosts, portOpen, sema, okey, oobj, canceled,
                 active, open, dobs, key, excp, ghosts>>
-----------------------------------------------------------------------------
\* The watched object.

\* UpdateStateLocked activates the signal and notifies.  Whoever does it has
\* a reference to the object, with or without a handle.
Signal(t, b) ==
  /\ pc[t] = "idle" /\ "signal" \in Prog[t]
  /\ b \notin active /\ dlock[b] = Null
  /\ active' = active \cup {b}
  /\ dlock' = [dlock EXCEPT ![b] = t]
  /\ op' = [op EXCEPT ![t] = "signal"] /\ obj' = [obj EXCEPT ![t] = b]
  /\ Goto(t, "loop")
  /\ UNCHANGED <<portVars, sema, obsVars, open, dobs, key, edge, cur, temp, excp, ghosts>>

\* ClearSignals, which takes no lock.
ClearSignal(t, b) ==
  /\ pc[t] = "idle" /\ "signal" \in Prog[t]
  /\ active' = active \ {b}
  /\ UNCHANGED <<portVars, sema, obsVars, open, dobs, dlock, threadVars, ghosts>>

\* Fault: the handle is deleted without Cancel().
CloseObject_NoCancel(t, b) ==
  /\ pc[t] = "idle" /\ "close_object" \in Prog[t]
  /\ b \in open /\ \A u \in Threads : ~TableReader(u)
  /\ open' = open \ {b}
  /\ UNCHANGED <<portVars, sema, obsVars, active, dobs, dlock, threadVars, ghosts>>

\* zx_handle_close of the object: out of the table, then Dispatcher::Cancel.
CloseObject(t, b) ==
  /\ pc[t] = "idle" /\ "close_object" \in Prog[t]
  /\ b \in open /\ \A u \in Threads : ~TableReader(u)
  /\ open' = open \ {b}
  /\ op' = [op EXCEPT ![t] = "close_object"] /\ obj' = [obj EXCEPT ![t] = b]
  /\ Goto(t, "acquire")
  /\ UNCHANGED <<portVars, sema, obsVars, active, dobs, dlock, key, edge, cur, temp, excp,
                 ghosts>>

\* zx_port_cancel takes the handle table's lock, and keeps it, if the object's
\* handle is still there.
CancelBegin(t) ==
  /\ pc[t] = "cancel"
  /\ IF obj[t] \in open
     THEN /\ Goto(t, "acquire")
          /\ covers' = [covers EXCEPT ![t] = Registered(obj[t], key[t])]
          /\ UNCHANGED <<op, obj, key, edge, cur, temp>>
     ELSE Return(t) /\ UNCHANGED covers
  /\ UNCHANGED <<portVars, sema, obsVars, dispVars, excp, finished, got>>

\* Cancel and CancelByKey take the object's lock.
Acquire(t) ==
  /\ pc[t] = "acquire" /\ dlock[obj[t]] = Null
  /\ dlock' = [dlock EXCEPT ![obj[t]] = t]
  /\ Goto(t, "loop")
  /\ UNCHANGED <<portVars, sema, obsVars, active, open, dobs, op, obj, key, edge, cur, temp,
                 excp, ghosts>>

\* The observers the loop of NotifyObserversLocked, Cancel or CancelByKey
\* still has to visit.
Visits(t) ==
  {o \in dobs[obj[t]] : op[t] = "cancel" => okey[o] = key[t]}

\* The loop takes the next observer off the list and calls OnMatch or OnCancel.
Visit(t, o) ==
  /\ pc[t] = "loop" /\ o \in Visits(t)
  /\ dobs' = [dobs EXCEPT ![obj[t]] = @ \ {o}]
  /\ cur' = [cur EXCEPT ![t] = o]
  /\ Goto(t, IF op[t] = "signal" THEN "match" ELSE "reap")
  /\ UNCHANGED <<portVars, sema, obsVars, active, open, dlock, op, obj, key, edge, temp,
                 excp, ghosts>>

\* Fault: the object's lock is not released.
LoopEnds_KeepsLock(t) ==
  /\ pc[t] = "loop" /\ Visits(t) = {}
  /\ IF op[t] = "cancel"
     THEN Goto(t, "cancel_queued") /\ UNCHANGED <<op, obj, key, edge, cur, temp>>
     ELSE Return(t)
  /\ UNCHANGED <<portVars, sema, obsVars, active, open, dobs, dlock, excp, ghosts>>

LoopEnds(t) ==
  /\ pc[t] = "loop" /\ Visits(t) = {}
  /\ dlock' = [dlock EXCEPT ![obj[t]] = Null]
  /\ IF op[t] = "cancel"
     THEN Goto(t, "cancel_queued") /\ UNCHANGED <<op, obj, key, edge, cur, temp>>
     ELSE Return(t)
  /\ UNCHANGED <<portVars, sema, obsVars, active, open, dobs, excp, ghosts>>
-----------------------------------------------------------------------------
\* Cancellation through the port.

\* CancelQueuedPacketsLocked(handle, key), b = Null for every handle: what is
\* left of the queue, and the observers destroyed with their packets.
Cancels(p, b, k) ==
  PacketKey(p) = k /\ (b = Null \/ (p \in Observers /\ oobj[p] = b))
Kept(b, k) == Keep(packets, {i \in 1 .. Len(packets) : ~Cancels(packets[i], b, k)})

\* Fault: num_ephemeral_packets_ is not counted down.
CancelQueuedPacketsLocked_NoCount(b, k) == packets' = Kept(b, k) /\ UNCHANGED eph

CancelQueuedPacketsLocked(b, k) ==
  /\ packets' = Kept(b, k)
  /\ eph' = eph - (Users(packets) - Users(Kept(b, k)))
Freed(b, k) == {o \in owned : InQueue(o) /\ Cancels(o, b, k)}

\* The second half of zx_port_cancel.
CancelQueued(t) ==
  /\ pc[t] = "cancel_queued"
  /\ CancelQueuedPacketsLocked(obj[t], key[t])
  /\ Destroy(Freed(obj[t], key[t])) /\ owned' = owned \ Freed(obj[t], key[t])
  /\ finished' = finished \cup covers[t]
  /\ covers' = [covers EXCEPT ![t] = {}]
  /\ Return(t)
  /\ UNCHANGED <<zero, irqs, irqPosts, observers, size, portOpen, sema, odisp, okey, oobj,
                 canceled, dispVars, excp, got>>

\* UnlinkDispatcherLocked on an observer just popped from a list.
Unlink(t, o) ==
  /\ odisp' = [odisp EXCEPT ![o] = Null]
  /\ cur' = [cur EXCEPT ![t] = o] /\ obj' = [obj EXCEPT ![t] = odisp[o]]
  /\ Goto(t, "remove")

\* CancelKey up to the first CallUnlocked: cancel the matching observers, move
\* them to the temporary list, remove the packets, and unlink one observer.
CancelKey(t) ==
  LET k == key[t]
      moved == {o \in observers : okey[o] = k}
  IN
  /\ pc[t] = "cancel_key"
  /\ canceled' = canceled \cup moved
  /\ observers' = observers \ moved
  /\ size' = Size(size - Cardinality(moved))
  /\ CancelQueuedPacketsLocked(Null, k)
  /\ Destroy(Freed(Null, k)) /\ owned' = owned \ Freed(Null, k)
  /\ IF moved = {}
     THEN /\ Return(t)
          /\ finished' = finished \cup Registered(Null, k)
          /\ UNCHANGED <<odisp, covers>>
     ELSE /\ \E o \in moved : Unlink(t, o) /\ temp' = [temp EXCEPT ![t] = moved \ {o}]
          /\ covers' = [covers EXCEPT ![t] = Registered(Null, k)]
          /\ UNCHANGED <<op, key, edge, finished>>
  /\ UNCHANGED <<zero, irqs, irqPosts, portOpen, sema, okey, oobj, dispVars, excp, got>>

\* RemoveObserver, for CancelKey and on_zero_handles, which hold a reference
\* to the object and not the port's lock.
RemoveObserver(t) ==
  /\ pc[t] = "remove" /\ dlock[obj[t]] = Null
  /\ dobs' = [dobs EXCEPT ![obj[t]] = @ \ {cur[t]}]
  /\ Goto(t, "removed")
  /\ UNCHANGED <<portVars, sema, obsVars, active, open, dlock, op, obj, key, edge, cur, temp,
                 excp, ghosts>>

\* The loop of CancelKey goes on: the observer is destroyed, the next one
\* unlinked, if any is left.
CancelKeyNext(t) ==
  /\ pc[t] = "removed" /\ op[t] = "cancel_key"
  /\ Destroy({cur[t]})
  /\ IF temp[t] = {}
     THEN /\ Return(t)
          /\ finished' = finished \cup covers[t]
          /\ covers' = [covers EXCEPT ![t] = {}]
          /\ UNCHANGED odisp
     ELSE /\ \E o \in temp[t] : Unlink(t, o) /\ temp' = [temp EXCEPT ![t] = @ \ {o}]
          /\ UNCHANGED <<op, key, edge, covers, finished>>
  /\ UNCHANGED <<portVars, sema, okey, oobj, canceled, owned, dispVars, excp, got>>
-----------------------------------------------------------------------------
\* zx_port_queue and zx_port_wait.

QueueUser(t) ==
  /\ pc[t] = "queue"
  /\ \/ zero /\ Return(t) /\ UNCHANGED <<packets, eph, excp>>
     \/ /\ ~zero /\ eph > kMaxAllocatedPacketCountPerPort
        /\ excp' = excp \cup {t}
        /\ Return(t) /\ UNCHANGED <<packets, eph>>
     \/ /\ ~zero /\ eph <= kMaxAllocatedPacketCountPerPort /\ sema < MaxSema
        /\ packets' = Append(packets, [userKey |-> key[t]])
        /\ eph' = eph + 1
        /\ Goto(t, "post_user") /\ UNCHANGED <<op, obj, key, edge, cur, temp, excp>>
  /\ UNCHANGED <<zero, irqs, irqPosts, observers, size, portOpen, sema, obsVars, dispVars,
                 ghosts>>

\* sema_.Wait() gets a token ...
DequeueWait(t) ==
  /\ pc[t] = "dequeue" /\ sema > 0
  /\ sema' = sema - 1
  /\ Goto(t, "pop_irq")
  /\ UNCHANGED <<portVars, obsVars, dispVars, op, obj, key, edge, cur, temp, excp, ghosts>>

\* ... or fails: the deadline has passed or the thread is killed.
DequeueTimesOut(t) ==
  /\ pc[t] = "dequeue" /\ sema = 0
  /\ Return(t)
  /\ UNCHANGED <<portVars, sema, obsVars, dispVars, excp, ghosts>>

\* Interrupt packets first, under spinlock_.
DequeueIrq(t) ==
  /\ pc[t] = "pop_irq"
  /\ IF irqs = <<>>
     THEN Goto(t, "pop") /\ UNCHANGED <<irqs, op, obj, key, edge, cur, temp>>
     ELSE irqs' = Tail(irqs) /\ Return(t)
  /\ UNCHANGED <<zero, packets, eph, irqPosts, observers, size, portOpen, sema, obsVars,
                 dispVars, excp, ghosts>>

\* Then packets_, under get_lock(); when that is empty too, wait again.
Dequeue(t) ==
  /\ pc[t] = "pop"
  /\ IF packets = <<>>
     THEN /\ Goto(t, "dequeue")
          /\ UNCHANGED <<packets, eph, life, owned, got, op, obj, key, edge, cur, temp>>
     ELSE LET p == Head(packets) IN
          /\ packets' = Tail(packets)
          /\ IF p \in Observers
             THEN /\ got' = [got EXCEPT ![p] = @ + 1]
                  /\ Destroy({p} \cap owned) /\ owned' = owned \ {p}
                  /\ UNCHANGED eph
             ELSE eph' = eph - 1 /\ UNCHANGED <<got, life, owned>>
          /\ Return(t)
  /\ UNCHANGED <<zero, irqs, irqPosts, observers, size, portOpen, sema, odisp, okey, oobj,
                 canceled, dispVars, excp, covers, finished>>
-----------------------------------------------------------------------------
\* Interrupt packets, queued and removed by an interrupt bound to the port.

\* Fault: a token is posted only for the first packet in either queue.
QueueInterruptPacket_IfEmpty(i) ==
  /\ ~Has(irqs, i) /\ sema + irqPosts < MaxSema
  /\ irqs' = Append(irqs, i)
  /\ irqPosts' = IF irqs = <<>> /\ packets = <<>> THEN irqPosts + 1 ELSE irqPosts
  /\ UNCHANGED <<zero, packets, eph, observers, size, portOpen, sema, obsVars, dispVars,
                 threadVars, ghosts>>

QueueInterruptPacket(i) ==
  /\ ~Has(irqs, i) /\ sema + irqPosts < MaxSema
  /\ irqs' = Append(irqs, i) /\ irqPosts' = irqPosts + 1
  /\ UNCHANGED <<zero, packets, eph, observers, size, portOpen, sema, obsVars, dispVars,
                 threadVars, ghosts>>

PostInterrupt ==
  /\ irqPosts > 0
  /\ irqPosts' = irqPosts - 1 /\ sema' = sema + 1
  /\ UNCHANGED <<zero, packets, eph, irqs, observers, size, portOpen, obsVars, dispVars,
                 threadVars, ghosts>>

RemoveInterruptPacket(i) ==
  /\ Has(irqs, i)
  /\ irqs' = Keep(irqs, {j \in 1 .. Len(irqs) : irqs[j] # i})
  /\ UNCHANGED <<zero, packets, eph, irqPosts, observers, size, portOpen, sema, obsVars,
                 dispVars, threadVars, ghosts>>
-----------------------------------------------------------------------------
\* The last handle to the port is closed.

ClosePort(t) ==
  /\ pc[t] = "idle" /\ "close_port" \in Prog[t]
  /\ portOpen /\ \A u \in Threads : ~TableReader(u)
  /\ portOpen' = FALSE
  /\ op' = [op EXCEPT ![t] = "close_port"]
  /\ Goto(t, "zero")
  /\ UNCHANGED <<zero, packets, eph, irqs, irqPosts, observers, size, sema, obsVars, dispVars,
                 obj, key, edge, cur, temp, excp, ghosts>>

\* on_zero_handles, packets: the lock is released only to free a user packet,
\* so one section drops packets up to and including the next of those.
ZeroPackets(t) ==
  LET n == Min({i \in 1 .. Len(packets) : packets[i] \notin Observers})
      dropped == {packets[i] : i \in 1 .. n}
  IN
  /\ pc[t] = "zero" /\ Users(packets) > 0
  /\ zero' = TRUE
  /\ packets' = SubSeq(packets, n + 1, Len(packets)) /\ eph' = eph - 1
  /\ Destroy(owned \cap dropped) /\ owned' = owned \ dropped
  /\ UNCHANGED <<irqs, irqPosts, observers, size, portOpen, sema, odisp, okey, oobj, canceled,
                 dispVars, threadVars, ghosts>>

\* The next observer, if any, is unlinked, and removed from its object and
\* destroyed with the lock released.
ZeroObserver(t) ==
  IF observers = {}
  THEN Return(t) /\ UNCHANGED <<observers, size, odisp>>
  ELSE /\ \E o \in observers : Unlink(t, o) /\ observers' = observers \ {o}
       /\ size' = Size(size - 1)
       /\ UNCHANGED <<op, key, edge, temp>>

\* Fault: on_zero_handles frees packets only.
ZeroLastPackets_NoObservers(t) ==
  LET dropped == {packets[i] : i \in 1 .. Len(packets)} IN
  /\ pc[t] = "zero" /\ Users(packets) = 0
  /\ zero' = TRUE
  /\ packets' = <<>>
  /\ Destroy(owned \cap dropped) /\ owned' = owned \ dropped
  /\ Return(t) /\ UNCHANGED <<observers, size, odisp>>
  /\ UNCHANGED <<eph, irqs, irqPosts, portOpen, sema, okey, oobj, canceled, dispVars, excp,
                 ghosts>>

\* The rest of the packets, and on to the observers.
ZeroLastPackets(t) ==
  LET dropped == {packets[i] : i \in 1 .. Len(packets)} IN
  /\ pc[t] = "zero" /\ Users(packets) = 0
  /\ zero' = TRUE
  /\ packets' = <<>>
  /\ Destroy(owned \cap dropped) /\ owned' = owned \ dropped
  /\ ZeroObserver(t)
  /\ UNCHANGED <<eph, irqs, irqPosts, portOpen, sema, okey, oobj, canceled, dispVars, excp,
                 ghosts>>

ZeroNext(t) ==
  /\ pc[t] = "removed" /\ op[t] = "close_port"
  /\ Destroy({cur[t]})
  /\ ZeroObserver(t)
  /\ UNCHANGED <<zero, packets, eph, irqs, irqPosts, portOpen, sema, okey, oobj, canceled,
                 owned, dispVars, excp, ghosts>>

\* The policy exception is handled and the thread resumed.
ResumeException(t) ==
  /\ t \in excp /\ pc[t] = "idle"
  /\ excp' = excp \ {t}
  /\ UNCHANGED <<portVars, sema, obsVars, dispVars, pc, op, obj, key, edge, cur, temp, ghosts>>
-----------------------------------------------------------------------------
UserStep(t) ==
  \/ \E o \in Ops, b \in Objects, k \in Keys : Lookup(t, o, b, k)
  \/ \E o \in Observers, b \in Objects, k \in Keys, e \in BOOLEAN : MakeObserver(t, o, b, k, e)
  \/ \E b \in Objects : Signal(t, b) \/ ClearSignal(t, b) \/ CloseObject(t, b)
  \/ ClosePort(t) \/ ResumeException(t)

KernelStep(t) ==
  \/ AddObserver(t) \/ QueueObserver(t) \/ Post(t) \/ MaybeReap(t)
  \/ CancelBegin(t) \/ Acquire(t) \/ LoopEnds(t) \/ CancelQueued(t)
  \/ \E o \in Observers : Visit(t, o)
  \/ CancelKey(t) \/ RemoveObserver(t) \/ CancelKeyNext(t)
  \/ QueueUser(t) \/ DequeueIrq(t) \/ Dequeue(t)
  \/ ZeroPackets(t) \/ ZeroLastPackets(t) \/ ZeroNext(t)

Next ==
  \/ \E t \in Threads : UserStep(t) \/ KernelStep(t) \/ DequeueWait(t) \/ DequeueTimesOut(t)
  \/ \E i \in IrqPackets : QueueInterruptPacket(i) \/ RemoveInterruptPacket(i)
  \/ PostInterrupt

Spec == Init /\ [][Next]_vars
(***************************************************************************)
(* Fairness.  As in Channel: a thread in the kernel keeps running and gets *)
(* the locks it waits for, and a thread blocked on sema_ takes a token     *)
(* that stays available.                                                   *)
(***************************************************************************)
Fairness ==
  /\ \A t \in Threads : SF_vars(KernelStep(t)) /\ WF_vars(DequeueWait(t))
  /\ WF_vars(PostInterrupt)

FairSpec == Spec /\ Fairness
-----------------------------------------------------------------------------
(***************************************************************************)
(* Properties.                                                             *)
(***************************************************************************)
PCs == {"idle", "add", "match", "post", "post_user", "reap", "loop", "acquire", "cancel",
        "cancel_queued", "cancel_key", "remove", "removed", "queue", "dequeue", "pop_irq",
        "pop", "zero"}

\* Every variable keeps to its type.
TypeOK ==
  /\ zero \in BOOLEAN /\ portOpen \in BOOLEAN
  /\ packets \in Seq(Packets) /\ eph \in Nat /\ sema \in Nat
  /\ irqs \in Seq(IrqPackets) /\ irqPosts \in Nat
  /\ observers \subseteq Observers /\ size \in 0 .. 2^SizeBits - 1
  /\ life \in [Observers -> {"none", "live", "destroyed"}]
  /\ odisp \in [Observers -> Objects \cup {Null}]
  /\ oobj \in [Observers -> Objects \cup {Null}] /\ okey \in [Observers -> Keys \cup {NoKey}]
  /\ canceled \subseteq Observers /\ owned \subseteq Observers
  /\ active \subseteq Objects /\ open \subseteq Objects
  /\ dobs \in [Objects -> SUBSET Observers] /\ dlock \in [Objects -> Threads \cup {Null}]
  /\ pc \in [Threads -> PCs] /\ op \in [Threads -> Ops \cup {"none"}]
  /\ obj \in [Threads -> Objects \cup {Null}] /\ key \in [Threads -> Keys \cup {NoKey}]
  /\ edge \in [Threads -> BOOLEAN] /\ cur \in [Threads -> Observers \cup {Null}]
  /\ temp \in [Threads -> SUBSET Observers] /\ excp \subseteq Threads
  /\ covers \in [Threads -> SUBSET Observers] /\ finished \subseteq Observers
  /\ got \in [Observers -> Nat]

\* Who is going to destroy observer o: the port's list, a canceler's list, its
\* own queued packet, or a thread that has unlinked it.
Owners(o) ==
  {x \in {"port"} : o \in observers} \cup {x \in {"packet"} : o \in owned}
    \cup {<<"list", t>> : t \in {u \in Threads : o \in temp[u]}}
    \cup {<<"thread", t>> : t \in {u \in Threads : cur[u] = o /\ pc[u] \in {"remove", "removed"}}}

\* However OnMatch, the two kinds of cancel and the two kinds of close race, a
\* live observer has exactly one owner and a destroyed one has none: it is
\* neither leaked nor destroyed twice.
OneOwner ==
  \A o \in Observers : Cardinality(Owners(o)) = IF life[o] = "live" THEN 1 ELSE 0

\* No destroyed observer is still queued, linked into an object's list, or in
\* use by a thread running its OnMatch or OnCancel.
NoDangling ==
  \A o \in Observers : life[o] # "live" =>
    /\ ~InQueue(o)
    /\ \A b \in Objects : o \notin dobs[b]
    /\ \A t \in Threads : cur[t] = o => pc[t] \notin {"add", "match", "post", "reap"}

\* dispatcher_ is a weak pointer that CancelKey and on_zero_handles turn into
\* a reference: it is set for every observer they find in a list (they do not
\* test it), and then the object is still held by a handle or by the thread
\* that is deleting its last handle.
WeakPointerValid ==
  \A o \in Observers :
    /\ (o \in observers \/ \E t \in Threads : o \in temp[t]) <=> odisp[o] # Null
    /\ odisp[o] # Null => \/ odisp[o] \in open
                          \/ \E t \in Threads : op[t] = "close_object" /\ obj[t] = odisp[o]

\* A program in which no thread cancels a key while another makes a wait: then
\* CancelKey cannot destroy an observer that AddObserver is about to link.
Serialized ==
  \A t, u \in Threads : "wait_async" \in Prog[t] /\ "cancel_key" \in Prog[u] => t = u

\* The three together, for the races of OnMatch, cancel and close: an observer
\* is used only while it lives, and by the pointers that are to reach it.
ObserversSafe == OneOwner /\ NoDangling /\ WeakPointerValid

\* No packet is left without a wakeup: a token is available, about to be
\* posted, or in the hands of a thread that has not looked yet, for every
\* queued packet of either kind.  The first part is about threads that have
\* already seen interrupt_packets_ empty.
Among(l) == Cardinality({t \in Threads : pc[t] \in l})
NoLostPacket ==
  LET coming == sema + irqPosts + Among({"post", "post_user", "pop_irq"}) IN
  /\ Len(irqs) <= coming
  /\ Len(irqs) + Len(packets) <= coming + Among({"pop"})

\* One wait_async delivers at most one packet, and none once zx_port_cancel or
\* zx_port_cancel_key has returned for it: even if the wait was firing meanwhile,
\* its packet is not in the queue.
DeliveredOnce ==
  /\ \A o \in Observers : got[o] <= 1
  /\ \A o \in finished : ~InQueue(o)

\* num_ephemeral_packets_ is the number of user packets queued, whichever way
\* they leave the queue, so the limit holds (with one more than its value)
\* and ~PortDispatcher finds it zero.
EphemeralCounted ==
  eph = Users(packets) /\ eph <= kMaxAllocatedPacketCountPerPort + 1

\* Closing the port lets go of every observer: when on_zero_handles and every
\* call in progress are over, none is left, and no object refers to one.
CloseReclaims ==
  ~portOpen /\ (\A t \in Threads : pc[t] = "idle") =>
    /\ packets = <<>>
    /\ \A o \in Observers : life[o] # "live"
    /\ \A b \in Objects : dobs[b] = {}

\* A thread does not stay blocked in Dequeue while packets are queued, be they
\* of waits, of users or of interrupts.
DequeueUnblocked ==
  LET queued == packets # <<>> \/ irqs # <<>>
  IN  \A t \in Threads : (pc[t] = "dequeue" /\ queued) ~> (pc[t] # "dequeue" \/ ~queued)

\* on_zero_handles, which waits for the locks of objects whose own threads
\* wait for the port's lock, always comes to its end.
CloseCompletes ==
  \A t \in Threads : (pc[t] = "zero") ~> (pc[t] = "idle")
=============================================================================
