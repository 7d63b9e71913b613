----------------------------- MODULE LockManager -----------------------------
(***************************************************************************)
(* fxfs, object_store/transaction.rs: the LockManager (read, transaction   *)
(* and write locks on keys) and the life of the transactions that use it   *)
(* (filesystem.rs: the guard, the limit on transactions in flight).        *)
(*                                                                         *)
(* A step is what happens under one acquisition of LockManager::locks, or  *)
(* one atomic operation on the in-flight count or its event.  A task waits *)
(* on one LockWaker at a time, so a waker is named by its task; its key is *)
(* the smallest of the keys the task has still to lock.                    *)
(***************************************************************************)
EXTENDS Integers, Sequences, FiniteSets, FiniteSetsExt

CONSTANTS
  Tasks,
  Keys,         \* LockKeys; numbers, for their order
  Filesystem,   \* LockKey::Filesystem, the first in that order
  Program,      \* Program[t]: the operations task t may start
  MaxInFlight,  \* MAX_IN_FLIGHT_TRANSACTIONS
  MaxRounds     \* bound: recursive reads and commit_and_continues of one transaction

Ops == [kind : {"read", "write", "txn"}, keys : SUBSET Keys, skip : BOOLEAN]

ASSUME LockManagerAssumption ==
  /\ IsFiniteSet(Tasks) /\ Keys \subseteq Nat /\ IsFiniteSet(Keys)
  /\ Filesystem \in Keys /\ \A k \in Keys : Filesystem <= k
  /\ Program \in [Tasks -> SUBSET Ops]
  \* Only a transaction's guard, fsck and readers lock LockKey::Filesystem.
  /\ \A t \in Tasks : \A o \in Program[t] : o.kind = "txn" => Filesystem \notin o.keys
  /\ MaxInFlight \in Nat /\ MaxRounds \in Nat

VARIABLES
  lock,       \* Locks::keys: per key a LockEntry, or NoEntry when it has none
  op,         \* per task: the operation it runs,
  stage,      \*   where it is in it,
  todo,       \*   the keys it has still to lock (or to upgrade),
  rd, wr,     \*   the keys of its ReadGuards, and of its WriteGuard or txn_locks,
  waker,      \*   its LockWaker's WakerState, or "none",
  sched,      \*   whether it runs, is parked, or was scheduled by a Waker,
  unwind,     \*   what is left to drop,
  rounds,     \*   and what it did so far against MaxRounds
  inflight,   \* in_flight_transactions
  listening   \* transaction_limit_event: the listeners not notified yet

vars == <<lock, op, stage, todo, rd, wr, waker, sched, unwind, rounds, inflight, listening>>

NoEntry == [state |-> "Vacant", read_count |-> 0, queue |-> <<>>]
NoOp == [kind |-> "read", keys |-> {}, skip |-> FALSE]

Init ==
  /\ lock = [k \in Keys |-> NoEntry]
  /\ op = [t \in Tasks |-> NoOp] /\ stage = [t \in Tasks |-> "idle"]
  /\ todo = [t \in Tasks |-> {}] /\ rd = [t \in Tasks |-> {}] /\ wr = [t \in Tasks |-> {}]
  /\ waker = [t \in Tasks |-> "none"] /\ sched = [t \in Tasks |-> "running"]
  /\ unwind = [t \in Tasks |-> <<>>] /\ rounds = [t \in Tasks |-> 0]
  /\ inflight = 0 /\ listening = {}

\* The key a task is locking: lock() sorts its keys and removes duplicates.
Current(t) == Min(todo[t])

\* The target_state of a task's request, and is_upgrade.
Target(t) == IF stage[t] \in {"guard", "reread"} \/ op[t].kind = "read" THEN "ReadLock"
             ELSE IF stage[t] # "prepare" /\ op[t].kind = "txn" THEN "Locked"
             ELSE "WriteLock"
IsUpgrade(t) == stage[t] = "prepare"
-----------------------------------------------------------------------------
(***************************************************************************)
(* LockEntry.  What changes an entry gives the entry and the tasks woken.  *)
(***************************************************************************)
\* Fault: a write lock is allowed while there are readers.
IsAllowed_Writer(e, target, is_head) ==
  \/ e.state = "ReadLock" /\ is_head
  \/ e.state = "Locked" /\ target = "ReadLock" /\ (~is_head => ~IsUpgrade(Head(e.queue)))

\* Fault: readers do not queue behind a waiting writer.
IsAllowed_Barging(e, target, is_head) ==
  \/ e.state = "ReadLock" /\ (target = "ReadLock" \/ (is_head /\ (e.read_count = 0 \/ target # "WriteLock")))
  \/ e.state = "Locked" /\ target = "ReadLock" /\ (~is_head => ~IsUpgrade(Head(e.queue)))

IsAllowed(e, target, is_head) ==
  \/ e.state = "ReadLock" /\ is_head /\ (e.read_count = 0 \/ target # "WriteLock")
  \/ e.state = "Locked" /\ target = "ReadLock" /\ (~is_head => ~IsUpgrade(Head(e.queue)))

\* Whether wake() lets the head of the waker list proceed.
HeadProceeds(e) ==
  /\ e.queue # <<>> /\ e.state # "WriteLock"
  /\ LET w == Head(e.queue)
     IN  IF IsUpgrade(w) THEN e.read_count = 0 ELSE IsAllowed(e, Target(w), TRUE)

\* How many readers a waker list begins with.
LeadingReaders(q) ==
  CHOOSE n \in 0..Len(q) :
    /\ \A i \in 1..n : Target(q[i]) = "ReadLock"
    /\ n < Len(q) => Target(q[n + 1]) # "ReadLock"

\* How many wakers wake() pops: none when the head may not proceed, and all
\* the readers that follow it unless it is a write lock.
WakeCount(e) ==
  IF ~HeadProceeds(e) THEN 0
  ELSE IF Target(Head(e.queue)) = "WriteLock" THEN 1
  ELSE 1 + LeadingReaders(Tail(e.queue))

Unwoken(e) == [entry |-> e, woken |-> {}]

Wake(e) ==
  LET n == WakeCount(e)
      popped == SubSeq(e.queue, 1, n)
      writer == n > 0 /\ Target(Head(e.queue)) # "ReadLock"
  IN  [entry |-> [state |-> IF writer THEN Target(Head(e.queue)) ELSE e.state,
                  read_count |-> e.read_count + (IF writer THEN n - 1 ELSE n),
                  queue |-> SubSeq(e.queue, n + 1, Len(e.queue))],
       woken |-> {popped[i] : i \in 1..n}]

CanRemove(e) == e.state = "ReadLock" /\ e.read_count = 0

\* Fault: the entry is removed before its waiters are woken.
DropLock_RemoveFirst(e, state) ==
  LET dropped == IF state = "ReadLock" THEN [e EXCEPT !.read_count = @ - 1]
                                       ELSE [e EXCEPT !.state = "ReadLock"]
  IN  IF state = "ReadLock" /\ dropped.read_count > 0 THEN Unwoken(dropped)
      ELSE IF CanRemove(dropped) THEN Unwoken(NoEntry)
      ELSE Wake(dropped)

DropLock(e, state) ==
  LET dropped == IF state = "ReadLock" THEN [e EXCEPT !.read_count = @ - 1]
                                       ELSE [e EXCEPT !.state = "ReadLock"]
      w == Wake(dropped)
  IN  IF state = "ReadLock" /\ dropped.read_count > 0 THEN Unwoken(dropped)
      ELSE IF CanRemove(w.entry) THEN [w EXCEPT !.entry = NoEntry]
      ELSE w

DowngradeLock(e) == Wake([e EXCEPT !.state = "Locked"])

\* A waker list without one of its wakers.
Without(q, t) ==
  LET p == CHOOSE i \in 1..Len(q) : q[i] = t
  IN  [i \in 1..Len(q) - 1 |-> IF i < p THEN q[i] ELSE q[i + 1]]

\* Fault: those behind a waiter that leaves are not woken.
RemoveWaker_NoWake(e, t) == Unwoken([e EXCEPT !.queue = Without(@, t)])

RemoveWaker(e, t) ==
  LET removed == [e EXCEPT !.queue = Without(@, t)]
  IN  IF Head(e.queue) = t THEN Wake(removed) ELSE Unwoken(removed)

\* The results of dropping the locks of several keys, and of changing one entry.
DropLocks(keys, state) ==
  [k \in Keys |-> IF k \in keys THEN DropLock(lock[k], state) ELSE Unwoken(lock[k])]
One(key, result) == [k \in Keys |-> IF k = key THEN result ELSE Unwoken(lock[k])]

\* pop_and_wake hands a lock to each task woken; a waker that has been polled
\* also schedules its task.
Woken(results) == UNION {results[k].woken : k \in Keys}
Entries(results) == [k \in Keys |-> results[k].entry]
Wakers(results) == [t \in Tasks |-> IF t \in Woken(results) THEN "Woken" ELSE waker[t]]
Scheds(results) == [t \in Tasks |-> IF t \in Woken(results) /\ waker[t] = "Registered"
                                    THEN "scheduled" ELSE sched[t]]
-----------------------------------------------------------------------------
(***************************************************************************)
(* LockManager::lock, commit_prepare_keys and LockWaker::wait.             *)
(***************************************************************************)
Locking == {"guard", "lock", "reread", "prepare"}

\* Where a task goes when it has all the keys of a stage.
After(s) == IF s = "guard" THEN "add"
            ELSE IF s = "lock" THEN "use"
            ELSE IF s = "reread" THEN "reading"
            ELSE "commit"

\* A task has the given keys to lock; with none it goes on.
Lock(t, s, keys) ==
  /\ todo' = [todo EXCEPT ![t] = keys]
  /\ stage' = [stage EXCEPT ![t] = IF keys = {} THEN After(s) ELSE s]

\* A task has its current key (and, unless it upgrades, puts it in its guard).
Take(t) ==
  LET k == Current(t)
  IN  /\ Lock(t, stage[t], todo[t] \ {k})
      /\ rd' = [rd EXCEPT ![t] = IF Target(t) = "ReadLock" THEN @ \cup {k} ELSE @]
      /\ wr' = [wr EXCEPT ![t] = IF Target(t) = "ReadLock" THEN @ ELSE @ \cup {k}]

\* The entry is vacant or allows the lock at once.
Acquire(t) ==
  /\ stage[t] \in Locking \ {"prepare"} /\ waker[t] = "none"
  /\ LET k == Current(t)
         e == lock[k]
     IN  /\ e.state = "Vacant" \/ IsAllowed(e, Target(t), e.queue = <<>>)
         /\ lock' = [lock EXCEPT ![k].state = IF e.state = "Vacant" \/ Target(t) # "ReadLock"
                                              THEN Target(t) ELSE @,
                                 ![k].read_count = IF Target(t) = "ReadLock" THEN @ + 1 ELSE @]
  /\ Take(t)
  /\ UNCHANGED <<op, waker, sched, unwind, rounds, inflight, listening>>

\* It does not: a waker goes to the tail of the list.
Enqueue(t) ==
  /\ stage[t] \in Locking \ {"prepare"} /\ waker[t] = "none"
  /\ LET k == Current(t)
         e == lock[k]
     IN  /\ e.state # "Vacant" /\ ~IsAllowed(e, Target(t), e.queue = <<>>)
         /\ lock' = [lock EXCEPT ![k].queue = Append(@, t)]
  /\ waker' = [waker EXCEPT ![t] = "Pending"]
  /\ UNCHANGED <<op, stage, todo, rd, wr, sched, unwind, rounds, inflight, listening>>

\* commit_prepare_keys: a transaction lock becomes a write lock when there are
\* no readers; otherwise a waker goes to the head of the list.
Upgrade(t) ==
  /\ stage[t] = "prepare" /\ waker[t] = "none"
  /\ lock[Current(t)].read_count = 0
  /\ lock' = [lock EXCEPT ![Current(t)].state = "WriteLock"]
  /\ Take(t)
  /\ UNCHANGED <<op, waker, sched, unwind, rounds, inflight, listening>>

EnqueueUpgrade(t) ==
  /\ stage[t] = "prepare" /\ waker[t] = "none"
  /\ lock[Current(t)].read_count > 0
  /\ lock' = [lock EXCEPT ![Current(t)].queue = <<t>> \o @]
  /\ waker' = [waker EXCEPT ![t] = "Pending"]
  /\ UNCHANGED <<op, stage, todo, rd, wr, sched, unwind, rounds, inflight, listening>>

\* The first poll of wait(): not woken yet, the Waker is registered.
Park(t) ==
  /\ waker[t] = "Pending"
  /\ waker' = [waker EXCEPT ![t] = "Registered"]
  /\ sched' = [sched EXCEPT ![t] = "parked"]
  /\ UNCHANGED <<lock, op, stage, todo, rd, wr, unwind, rounds, inflight, listening>>

\* A poll that finds the waker woken.
Resume(t) ==
  /\ waker[t] = "Woken" /\ sched[t] # "parked"
  /\ waker' = [waker EXCEPT ![t] = "none"]
  /\ sched' = [sched EXCEPT ![t] = "running"]
  /\ Take(t)
  /\ UNCHANGED <<lock, op, unwind, rounds, inflight, listening>>

\* Fault: a place is given back before it was got.
Unwinding_EarlySub(t) ==
  IF op[t].kind = "read" THEN <<"guard">>
  ELSE IF op[t].kind = "write" THEN <<"locks">>
  ELSE IF stage[t] = "guard" THEN <<>>
  ELSE <<"sub", "notify", "locks", "guard">>

\* What a future dropped in a stage has left to drop, in order.  A Transaction
\* gives back its place, then its locks, then its guard; before there is one,
\* new() first drops the locks it has got.
Unwinding(t) ==
  IF op[t].kind = "read" \/ stage[t] = "await" THEN <<"guard">>
  ELSE IF op[t].kind = "write" THEN <<"locks">>
  ELSE IF stage[t] = "guard" THEN <<>>
  ELSE IF stage[t] = "reserve" THEN <<"sub", "notify", "guard">>
  ELSE IF stage[t] = "lock" THEN <<"locks", "sub", "notify", "guard">>
  ELSE <<"sub", "notify", "locks", "guard">>

\* A task has the given things left to drop; with none it is done.
Unwind(t, left) ==
  /\ unwind' = [unwind EXCEPT ![t] = left]
  /\ stage' = [stage EXCEPT ![t] = IF left = <<>> THEN "idle" ELSE "unwind"]
  /\ op' = [op EXCEPT ![t] = IF left = <<>> THEN NoOp ELSE @]
  /\ rounds' = [rounds EXCEPT ![t] = IF left = <<>> THEN 0 ELSE @]

\* A future that waits for a lock is dropped: wait()'s guard gives back a lock
\* that was granted but never seen, or takes the waker off the list.
Cancel(t) ==
  /\ waker[t] # "none" /\ sched[t] # "running"
  /\ LET e == lock[Current(t)]
         r == One(Current(t), IF waker[t] # "Woken" THEN RemoveWaker(e, t)
                              ELSE IF IsUpgrade(t) THEN DowngradeLock(e)
                              ELSE DropLock(e, Target(t)))
     IN  /\ lock' = Entries(r)
         /\ waker' = [Wakers(r) EXCEPT ![t] = "none"]
         /\ sched' = [Scheds(r) EXCEPT ![t] = "running"]
  /\ todo' = [todo EXCEPT ![t] = {}]
  /\ Unwind(t, Unwinding(t))
  /\ UNCHANGED <<rd, wr, inflight, listening>>
-----------------------------------------------------------------------------
(***************************************************************************)
(* Operations.  read_lock and write_lock take their keys; a transaction    *)
(* first takes the filesystem's guard, a place among those in flight and   *)
(* its reservations, then its locks.                                       *)
(***************************************************************************)
Start(t) ==
  /\ stage[t] = "idle"
  /\ \E o \in Program[t] :
       /\ op' = [op EXCEPT ![t] = o]
       /\ IF o.kind = "txn" THEN Lock(t, "guard", {Filesystem}) ELSE Lock(t, "lock", o.keys)
  /\ UNCHANGED <<lock, rd, wr, waker, sched, unwind, rounds, inflight, listening>>

\* add_transaction: inc(), listen(), inc() again, await.
AddTry(t) ==
  /\ stage[t] = "add"
  /\ LET room == op[t].skip \/ inflight < MaxInFlight
     IN  /\ inflight' = IF room THEN inflight + 1 ELSE inflight
         /\ stage' = [stage EXCEPT ![t] = IF room THEN "reserve" ELSE "listen"]
  /\ UNCHANGED <<lock, op, todo, rd, wr, waker, sched, unwind, rounds, listening>>

AddListen(t) ==
  /\ stage[t] = "listen"
  /\ listening' = listening \cup {t}
  /\ stage' = [stage EXCEPT ![t] = "retry"]
  /\ UNCHANGED <<lock, op, todo, rd, wr, waker, sched, unwind, rounds, inflight>>

\* Fault: no second inc() after listen().
AddRetry_NoInc(t) ==
  /\ stage[t] = "retry"
  /\ stage' = [stage EXCEPT ![t] = "await"]
  /\ UNCHANGED <<lock, op, todo, rd, wr, waker, sched, unwind, rounds, inflight, listening>>

AddRetry(t) ==
  /\ stage[t] = "retry"
  /\ LET room == inflight < MaxInFlight
     IN  /\ inflight' = IF room THEN inflight + 1 ELSE inflight
         /\ listening' = IF room THEN listening \ {t} ELSE listening
         /\ stage' = [stage EXCEPT ![t] = IF room THEN "reserve" ELSE "await"]
  /\ UNCHANGED <<lock, op, todo, rd, wr, waker, sched, unwind, rounds>>

AddAwaken(t) ==
  /\ stage[t] = "await" /\ t \notin listening
  /\ stage' = [stage EXCEPT ![t] = "add"]
  /\ UNCHANGED <<lock, op, todo, rd, wr, waker, sched, unwind, rounds, inflight, listening>>

\* The future is dropped while it waits for a place.
AddCancel(t) ==
  /\ stage[t] = "await"
  /\ listening' = listening \ {t}
  /\ Unwind(t, Unwinding(t))
  /\ UNCHANGED <<lock, todo, rd, wr, waker, sched, inflight>>

\* reservation_for_transaction succeeds; it may fail, or be dropped while it
\* waits for journal space.
Reserve(t) ==
  /\ stage[t] = "reserve"
  /\ Lock(t, "lock", op[t].keys)
  /\ UNCHANGED <<lock, op, rd, wr, waker, sched, unwind, rounds, inflight, listening>>

ReserveFails(t) ==
  /\ stage[t] = "reserve"
  /\ Unwind(t, Unwinding(t))
  /\ UNCHANGED <<lock, todo, rd, wr, waker, sched, inflight, listening>>

\* A guard or a transaction is dropped, by its owner or with the owner's
\* future; for a commit, after it succeeded, failed or was abandoned.
Finish(t) ==
  /\ stage[t] \in {"use", "commit"}
  /\ Unwind(t, Unwinding(t))
  /\ UNCHANGED <<lock, todo, rd, wr, waker, sched, inflight, listening>>

\* A transaction takes a read lock on one of its own keys, and drops it.
Reread(t) ==
  /\ stage[t] = "use" /\ op[t].kind = "txn" /\ rounds[t] < MaxRounds
  /\ \E k \in wr[t] : Lock(t, "reread", {k})
  /\ rounds' = [rounds EXCEPT ![t] = @ + 1]
  /\ UNCHANGED <<lock, op, rd, wr, waker, sched, unwind, inflight, listening>>

EndReread(t) ==
  /\ stage[t] = "reading"
  /\ LET own == rd[t] \ {Filesystem}
         r == DropLocks(own, "ReadLock")
     IN  /\ lock' = Entries(r) /\ waker' = Wakers(r) /\ sched' = Scheds(r)
         /\ rd' = [rd EXCEPT ![t] = @ \ own]
  /\ stage' = [stage EXCEPT ![t] = "use"]
  /\ UNCHANGED <<op, todo, wr, unwind, rounds, inflight, listening>>

\* commit_transaction begins with commit_prepare.
Commit(t) ==
  /\ stage[t] = "use" /\ op[t].kind = "txn"
  /\ Lock(t, "prepare", wr[t])
  /\ UNCHANGED <<lock, op, rd, wr, waker, sched, unwind, rounds, inflight, listening>>

\* commit_and_continue succeeded: downgrade_locks.
Downgrade(t) ==
  /\ stage[t] = "commit" /\ rounds[t] < MaxRounds
  /\ LET r == [k \in Keys |-> IF k \in wr[t] THEN DowngradeLock(lock[k]) ELSE Unwoken(lock[k])]
     IN  lock' = Entries(r) /\ waker' = Wakers(r) /\ sched' = Scheds(r)
  /\ stage' = [stage EXCEPT ![t] = "use"]
  /\ rounds' = [rounds EXCEPT ![t] = @ + 1]
  /\ UNCHANGED <<op, todo, rd, wr, unwind, inflight, listening>>

\* sub_transaction: the count, then the event.
Sub(t) ==
  /\ stage[t] = "unwind" /\ Head(unwind[t]) = "sub"
  /\ inflight' = inflight - 1
  /\ LET left == Tail(unwind[t])
     IN  Unwind(t, IF inflight <= MaxInFlight THEN left ELSE Tail(left))
  /\ UNCHANGED <<lock, todo, rd, wr, waker, sched, listening>>

Notify(t) ==
  /\ stage[t] = "unwind" /\ Head(unwind[t]) = "notify"
  /\ listening' = {}
  /\ Unwind(t, Tail(unwind[t]))
  /\ UNCHANGED <<lock, todo, rd, wr, waker, sched, inflight>>

\* drop_write_locks, for a WriteGuard or by drop_transaction.
DropWriteLocks(t) ==
  /\ stage[t] = "unwind" /\ Head(unwind[t]) = "locks"
  /\ LET r == DropLocks(wr[t], "WriteLock")
     IN  lock' = Entries(r) /\ waker' = Wakers(r) /\ sched' = Scheds(r)
  /\ wr' = [wr EXCEPT ![t] = {}]
  /\ Unwind(t, Tail(unwind[t]))
  /\ UNCHANGED <<todo, rd, inflight, listening>>

\* drop_read_locks, for a ReadGuard.
DropReadLocks(t) ==
  /\ stage[t] = "unwind" /\ Head(unwind[t]) = "guard"
  /\ LET r == DropLocks(rd[t], "ReadLock")
     IN  lock' = Entries(r) /\ waker' = Wakers(r) /\ sched' = Scheds(r)
  /\ rd' = [rd EXCEPT ![t] = {}]
  /\ Unwind(t, Tail(unwind[t]))
  /\ UNCHANGED <<todo, wr, inflight, listening>>
-----------------------------------------------------------------------------
\* The steps a task takes by itself once it is scheduled.
Run(t) ==
  \/ Acquire(t) \/ Enqueue(t) \/ Upgrade(t) \/ EnqueueUpgrade(t) \/ Park(t) \/ Resume(t)
  \/ AddTry(t) \/ AddListen(t) \/ AddRetry(t) \/ AddAwaken(t) \/ Reserve(t)
  \/ EndReread(t) \/ Finish(t) \/ Commit(t)
  \/ Sub(t) \/ Notify(t) \/ DropWriteLocks(t) \/ DropReadLocks(t)

Next ==
  \E t \in Tasks :
    \/ Run(t) \/ Start(t) \/ Cancel(t) \/ AddCancel(t) \/ ReserveFails(t)
    \/ Reread(t) \/ Downgrade(t)

Spec == Init /\ [][Next]_vars

FairSpec == Spec /\ \A t \in Tasks : WF_vars(Run(t))
-----------------------------------------------------------------------------
\* Every variable has its type; the counts of readers and of transactions in
\* flight never go below zero or past the number of tasks.
TypeOK ==
  /\ lock \in [Keys -> [state : {"Vacant", "ReadLock", "Locked", "WriteLock"},
                        read_count : 0..Cardinality(Tasks), queue : Seq(Tasks)]]
  /\ op \in [Tasks -> Ops] /\ todo \in [Tasks -> SUBSET Keys]
  /\ stage \in [Tasks -> {"idle", "add", "listen", "retry", "await", "reserve", "use",
                          "reading", "commit", "unwind"} \cup Locking]
  /\ rd \in [Tasks -> SUBSET Keys] /\ wr \in [Tasks -> SUBSET Keys]
  /\ waker \in [Tasks -> {"none", "Pending", "Registered", "Woken"}]
  /\ sched \in [Tasks -> {"running", "parked", "scheduled"}]
  /\ unwind \in [Tasks -> Seq({"sub", "notify", "locks", "guard"})]
  /\ rounds \in [Tasks -> 0..MaxRounds]
  /\ inflight \in 0..Cardinality(Tasks) /\ listening \subseteq Tasks

\* The locks on a key that are granted: to a guard or a transaction that has
\* them, or to a waker that has not run since.
Granted(t, k) == waker[t] = "Woken" /\ Current(t) = k
Readers(k) == {t \in Tasks : k \in rd[t] \/ (Granted(t, k) /\ Target(t) = "ReadLock")}
Writers(k) == {t \in Tasks : k \in wr[t] \/ (Granted(t, k) /\ Target(t) # "ReadLock")}

\* The keys a task has exclusively: those of a write lock, and of a
\* transaction those it has upgraded.
Exclusive(t) ==
  {k \in Keys : /\ t \in Writers(k)
                /\ \/ op[t].kind # "txn" \/ stage[t] = "commit"
                   \/ stage[t] = "prepare" /\ (k \notin todo[t] \/ Granted(t, k))}

\* Locks exclude: a key has at most one writer or transaction, and while one has
\* it exclusively no one reads it, its own task included.  A grant counts from
\* the wake() that makes it, before the task that waited has run.
Exclusion ==
  \A k \in Keys :
    /\ Cardinality(Writers(k)) <= 1
    /\ \A t \in Tasks : k \in Exclusive(t) =>
         Readers(k) \cup Writers(k) \subseteq {t} /\ k \notin rd[t]

\* The transactions in flight: those that have a place and have not given it back.
InFlight == {t \in Tasks : op[t].kind = "txn" /\
               (\/ stage[t] \in {"reserve", "lock", "use", "reread", "reading", "prepare", "commit"}
                \/ \E i \in DOMAIN unwind[t] : unwind[t][i] = "sub")}

\* The books agree with what is held, however waits are granted, dropped after
\* the grant, or dropped while they queue: an entry counts its readers, is there
\* exactly while it has a holder, has the state its holder relies on (what
\* commit_prepare_keys and downgrade_lock assert) and queues exactly those who
\* wait for it; the count of transactions is that of those in flight, and
\* within the limit but for those that skip the check.
Accounted ==
  /\ \A k \in Keys :
       LET e == lock[k]
       IN  /\ e.read_count = Cardinality(Readers(k))
           /\ e.state \in {"Locked", "WriteLock"} <=> Writers(k) # {}
           /\ e.state = "Vacant" <=> Readers(k) \cup Writers(k) = {}
           /\ \A t \in Writers(k) : stage[t] # "unwind" =>
                e.state = IF k \in Exclusive(t) THEN "WriteLock" ELSE "Locked"
           /\ \A t \in Tasks : (\E i \in DOMAIN e.queue : e.queue[i] = t)
                <=> (waker[t] \in {"Pending", "Registered"} /\ Current(t) = k)
  /\ inflight = Cardinality(InFlight)
  /\ Cardinality({t \in InFlight : ~op[t].skip}) <= MaxInFlight

\* No grant is owed: whenever the locks are released, the head of a waker list
\* is one that wake() would not let proceed, and a task that has a transaction
\* lock has not been made to wait for a read lock on the same key.  The
\* exception is a transaction behind readers that were granted together, which
\* is let through when the last of them goes: the table in the documentation of
\* LockManager has it acquire its lock while a read lock is held.
NoneLeftWaiting ==
  /\ \A k \in Keys :
       \/ ~HeadProceeds(lock[k])
       \/ /\ lock[k].state = "ReadLock" /\ lock[k].read_count > 0
          /\ Target(Head(lock[k].queue)) = "Locked"
  /\ \A t \in Tasks : stage[t] = "reread" => waker[t] = "none"

\* Locks are granted in order: a task gets a key before one that waits for it
\* only if it was ahead of it in the list, or to read what a transaction has
\* locked and does not want to upgrade.
GrantInOrder ==
  \A t \in {v \in Tasks : waker[v] \in {"Pending", "Registered"} /\ waker'[v] = waker[v]} :
    LET k == Current(t)
        e == lock[k]
    IN  \A u \in (Readers(k) \cup Writers(k))' \ (Readers(k) \cup Writers(k)) :
          \/ \E i, j \in DOMAIN e.queue : i < j /\ e.queue[i] = u /\ e.queue[j] = t
          \/ e.state = "Locked" /\ Target(u) = "ReadLock" /\ ~IsUpgrade(t)
InOrder == [][GrantInOrder]_vars

\* Every wait ends: for a lock, for the readers of a key to be gone before a
\* commit, and for a place among the transactions in flight.  Keys taken in
\* order never deadlock, though tasks hold some while they wait for others.
EveryWaitEnds ==
  \A t \in Tasks : LET Waiting == waker[t] # "none" \/ stage[t] = "await"
                  IN  Waiting ~> ~Waiting
=============================================================================
