# Verification of SMOS: kernel objects, fxfs and the async executor

SMOS is a console-only profile of Fuchsia: the Zircon kernel and a reduced user
space, most of it in Rust.  This project models three places of it where
everything else depends on concurrent code that is hard to test:

* the kernel objects through which the system talks and waits: channels, ports,
  the signals and observers all objects share, the handles that name them, and
  the counting semaphore under the port (`zircon/kernel`);
* the multi-threaded executor on which the Rust programs run
  (`userspace/lib/fuchsia-async`);
* the locks, the transactions and the journal of the file system fxfs
  (`userspace/storage/fxfs`).

The models are TLA+ modules translated from the source.  TLC checks them on
small instances, and TLAPS proves the most important invariants of the channel
and of the semaphore for every value of the constants.

Paths below are relative to `zircon/kernel`, to
`userspace/lib/fuchsia-async/src` or to `userspace/storage/fxfs/src`, as the
section says, unless they start with `src/`.

## 1. Inventory

| Component | State | Operations | What is hard |
|---|---|---|---|
| Channel (`object/channel_dispatcher.cc`) | message queue, owner, peer, list of waiting calls, txid counter, signals | Read, Write, Call, ResumeInterruptedCall, CancelMessageWaiters, set_owner, on_zero_handles, OnPeerZeroHandlesLocked | two locks, one of which Read does without; calls ended by reply, deadline, cancel, close, suspension or kill, all racing; ownership that moves while calls run |
| MessageWaiter (in each thread) | channel_, txid_, status_, msg_, event_ | BeginWait, Deliver, Cancel, Wait, EndWait, destructor | shared between the calling thread and whoever holds the channel's lock; survives suspension |
| Dispatcher (`object/dispatcher.cc`) | signals_, observers_ | AddObserver, RemoveObserver, Cancel, CancelByKey, UpdateState, NotifyObserversLocked | signals are cleared without the lock; observers call back under it |
| Handles (`object/handle.cc`, `handle_table.cc`) | table, owner of each handle | lookup, remove, add, delete, clean | objects are used after the lookup's lock is released |
| Port (`object/port_dispatcher.cc`) | packet queue, interrupt queue, observers, semaphore, ephemeral count | MakeObserver, Queue, Dequeue, MaybeReap, CancelQueued, CancelKey, on_zero_handles, interrupt packets | lock order object before port, so every path from the port drops its lock; five parties may destroy an observer |
| Semaphore (`kernel/semaphore.cc`) | count_, wait queue | Post, Wait | lock-free fast paths; failed waits repaired later |
| fxfs locks (`object_store/transaction.rs`, `filesystem.rs`) | a `LockEntry` per key (state, readers, waker list), in-flight count and its event | read_lock, write_lock, txn_lock, commit_prepare, downgrade, drop of guards, of transactions and of waiting futures; add_transaction, sub_transaction | a lock is granted by the releaser, before the waiter runs, and the waiter may be dropped then; several keys are held while others are waited for; two ways to wait in one transaction |
| fxfs journal (`object_store/journal.rs`, `journal/*.rs`, `checksum_list.rs`) | writer's buffer, offsets written and flushed, records that are due, deallocated ranges; on the device blocks chained by checksums | commit, flush_task, sync, flush_device, reading, verification, replay | a device that loses any part of its cache; a log that goes on after a torn one; ranges freed and used again while a crash may still need them |
| fuchsia-async executor (`runtime/fuchsia/executor/*.rs`, `atomic_future.rs`) | state word of each task, ready queue, packed thread counts, port | wake, cancel, join, poll_tasks, the workers' loop, run, mark_done, drop | lock-free hand-over of a task between threads; sleep against wakeup; three counters in one word; shutdown |
| Interrupt, timer, futex, fifo, socket, event, event pair, exceptions, processes, threads, jobs (`object/*.cc`) | | | not modelled yet, see the plan |
| Locks, scheduler, timers, DPCs (`kernel/*.cc`) | | | used as primitives |
| fxfs stores, LSM tree, allocator, super-blocks, directories, encryption | | | data structures on top of transactions; not modelled |
| Other user space (component manager, drivers, other file systems, network, FIDL runtime) | | | mostly validation, translation and protocol tables; not modelled |
| Virtual memory, architecture, boot, devices; third-party code, build, tools | | | out of scope |

How they interact: a system call looks a handle up in its process's table under
a reader lock and calls the object.  A channel write changes the peer's signals
and notifies its observers; an observer is either a thread in
`zx_object_wait_one`, whose event is signaled, or a `PortObserver`, which queues
its packet on a port and posts the port's semaphore.  Deleting the last handle
cancels the observers registered with it and runs `on_zero_handles`, which for
a channel changes the peer.  Handles travel inside channel messages.

An executor sleeps on a port: its workers wait there for the packets of the
objects that tasks wait for, and for wakeups that other threads post.  fxfs runs
as tasks of an executor.  An operation takes a place among the transactions in
flight and its locks, and commits through the journal, which has a task of its
own to write to the device; commit upgrades the locks first, so that readers
never see half of a transaction.

What makes each part correct:

* channel: no call is stranded, answered with another call's reply, or loses
  its reply; the old owner of an endpoint is shut out; messages survive the
  writer's close; `READABLE` tells the truth;
* observers: no lost wakeup, no wait that outlives its handle;
* port: each observer is destroyed once and not used afterwards; a canceled
  wait leaves no packet; every packet has a wakeup; close reclaims everything
  and terminates;
* semaphore: every Post admits one thread, now or later;
* executor: a task is polled by one thread at a time, and polled again whenever
  it was woken; workers sleep only when there is nothing to do, and stop when
  told;
* fxfs locks: locks exclude, nobody waits who could proceed or for ever, and
  whatever is dropped, at whatever moment, gives back what it had;
* journal: what a sync promised survives, what is replayed is a beginning of
  what was committed, and refers to data that is there.

## 2. Plan

| Order | Module | State |
|---|---|---|
| 1 | `Channel`: channel, waiters, wait_one, handle transfer and close | done; every safety property proved, one of them under a condition on the programs |
| 2 | `Port`: port, port observers, watched objects | done; every safety invariant proved, two of them under a condition on the programs |
| 3 | `Semaphore` implements `CountingSemaphore` | done; refinement proved |
| 4 | `LockManager`: fxfs locks and transactions | done; every safety property proved |
| 5 | `AtomicFuture`, `Executor`: tasks, workers, run | done; every safety invariant proved |
| 6 | `Journal` implements `DurableLog` | done for one file; type invariant, `Intact` and the refinement proved |
| 7 | `Interrupt`, `TimerObject`: bound to ports; set and cancel against the callback and its DPC | |
| 8 | `Futex`, `Fifo`, `Socket`, `Event`; process, thread and job life cycle | |
| 9 | `Mutex`, `BrwLock`: the lock algorithms, against an abstract lock | |

Every safety property that a passing run checks is proved, three of them under a
condition on the programs (section 6).  What a next step could add is in the last
rows of the table, and in `Journal` the super-blocks and compaction, which decide
where reading begins.

## 3. Modules

### Channel

One channel, both endpoints (`0` and `1`), any number of threads and processes.
One action is one critical section.  `get_lock()` is shared by the endpoints
and most operations run wholly inside it.  `channel_lock_` is nested in it and
is all that `Read` takes.  Two operations release `channel_lock_` and go on
under `get_lock()`: `WriteSelf`, between queuing the message and notifying
observers, and `OnPeerZeroHandlesLocked`, between `peer_has_closed_` and the
rest.  They are two actions each, and `glock` keeps everything but `Read` out in
between.

| TLA+ | Code |
|---|---|
| `handle`, `owner` | the table the endpoint's only handle is in (or where it is on its way), and `owner_` |
| `messages`, `signals`, `txid`, `waiters`, `observers`, `peer`, `peerHasClosed` | the members of the same names |
| `chan`, `status`, `wtxid`, `wmsg`, `event` | the members of the thread's `MessageWaiter` |
| `mask`, `final`, `oevent` | the `WaitSignalObserver` and the event on the stack of `sys_object_wait_one` |
| `pc`, `ref` | where a thread is between critical sections, and the reference it holds |
| `Lookup`, then `Write*`, `Read*`, `Call*` | the system calls: lookup, then the dispatcher's method |
| `CallSends`, `WaitDone`, `WaitInterrupted`, `CallFinish`, `EndWait` | the two halves of a call, the second of which is repeated after a suspension |
| `SendHandle`, `ReceiveMessage`, `ReceiveCancelObservers`, `ReceiveCancelWaiters`, `ReceiveAddHandle` | the transfer: `msg_put_handles`, and the steps of `msg_get_handles` |
| `CloseHandle`, `DeleteCancel`, `OnZeroHandles`, `OnPeerZeroHandles` | `sys_handle_close` and `HandleTableArena::Delete` |
| `Kill`, `Exit`, `DestroyThread` | what a channel sees of a process that dies |

A deadline is the choice, at any time, to stop waiting on an event that is not
signaled; the same choice stands for a kill.  A thread that wakes up for its
deadline still has to take the lock, and everything may happen before it does.
`call`, and the fields `id` and `re` of a message, are ghosts: they say which
call a request belongs to and which call a program meant to answer.  A program
may answer the last message it read any number of times, and may write messages
with txids of its own.

Abstracted: message bytes and handles in messages (a read that does not fit is
a choice), rights, failures of user memory, `max_message_count_`, tracing.  The
transferred handle travels in another channel, of which only the carrying
message is modelled.  `BeginWait` shares a step with the section after it,
since only the thread itself sees its waiter until it is linked.  The policy
exception for a full channel stops the thread's next system call until somebody
resumes it.

### Port

One port, the observers of its `wait_async` calls, and the objects they watch,
each with one handle and one signal. `get_lock()` of the port and `spinlock_`
protect single actions. The lock of a watched object is held over several
actions, because `OnMatch` and `OnCancel` run under it and take the port's lock
twice; `dlock` records who holds it. `ObserversSafe` is the conjunction of what
each of these parties needs: one owner (`OneOwner`), nothing that points to a
destroyed observer (`NoDangling`), and a `dispatcher_` that is still there
(`WeakPointerValid`). The handle table's lock, which `wait_async` and
`port_cancel` hold throughout, is derived from what threads are doing
(`TableReader`); the port's and the objects' handles cannot be closed while it
is held.

`life`, `odisp`, `canceled`, `owned` and the lists `observers`, `temp`, `dobs`
are the life of an observer: allocated, linked at the port and at its object,
possibly moved to the temporary list of `CancelKey`, possibly owned by its own
queued packet, destroyed.  `size` is the size field of the intrusive list, which
the code changes separately from the links, in the width of `size_t`.  Lists
whose order no property depends on are sets.

`sema` is an abstract semaphore: a count of tokens, which is what `Semaphore`
below is shown to implement.

Not modelled: packets of pagers and guests and `CancelQueued(PortPacket*)`,
several handles of one object, timestamps, the memory of packets.

### Semaphore and CountingSemaphore

`CountingSemaphore` is the promise made in `include/kernel/semaphore.h`: a Post
admits one queued thread or keeps one token; a waiter that fails takes nothing
with it.  `Semaphore` has one action for each atomic access of `count_` outside
the wait queue's lock and for each stretch under it.  The refinement mapping
takes the tokens to be `count_` where positive and 0 otherwise, which says that
a negative count has no meaning of its own.

### LockManager

(`userspace/storage/fxfs/src`.)  Any number of tasks, each of which starts the
operations of its program any number of times: reads, writes and transactions
on sets of keys.  A step is what happens under one acquisition of
`LockManager::locks`, or one atomic operation on `in_flight_transactions` or on
its event.  Guards of different tasks may be dropped between any two of them.

| TLA+ | Code |
|---|---|
| `lock[k]` | the `LockEntry` of a key: `state`, `read_count`, and the list `head`..`tail` as `queue`; `NoEntry` where `Locks::keys` has none |
| `waker[t]`, `sched[t]` | the `WakerState` of the `LockWaker` a task waits on, and whether the executor has been told to poll it |
| `todo`, `rd`, `wr` | what `lock()` or `commit_prepare_keys` has still to do (`Lock` gives it its keys and goes past the loop when there are none); the keys of guards and of `txn_locks` |
| `IsAllowed`, `HeadProceeds`, `Wake`, `DropLock`, `DowngradeLock`, `RemoveWaker` | the methods of `LockEntry` and `Locks`, with the tasks they wake |
| `Acquire`, `Enqueue`, `Upgrade`, `EnqueueUpgrade`, `Park`, `Resume`, `Cancel` | `lock`, `commit_prepare_keys` and the future of `LockWaker::wait`, with the guard that runs when it is dropped |
| `AddTry`, `AddListen`, `AddRetry`, `AddAwaken`, `AddCancel`, `Sub`, `Notify` | `add_transaction` and `sub_transaction` |
| `Reserve`, `ReserveFails`, `Commit`, `Downgrade`, `Reread`, `Finish` | the life of a `Transaction`, with what it does between its locks abstracted |
| `Unwinding`, `DropWriteLocks`, `DropReadLocks` | what is dropped, in Rust's order, wherever a future is dropped |

A task waits on one waker at a time, so a waker has its task's name.

Not modelled: transactions that borrow the guard of another (`txn_guard` given
by the caller), mutations, `commit_mutex` and the journal
(`Journal` has them), a `commit_and_continue` whose future is dropped while the
transaction is kept.

### AtomicFuture and Executor

(`userspace/lib/fuchsia-async/src`.)  `AtomicFuture` has the state word of a
task and what each atomic operation does to it; `Executor` has the threads:
workers, the thread in `SendExecutor::run`, and threads that belong to neither
and wake, cancel and join tasks or poll some (`EHandle::poll_tasks`).

A step is one atomic operation on memory that threads share, on the ready queue
or on the port.  Steps are merged in three cases, named at the head of the
module; in each, no other thread can tell the difference.  `pc` is where a
thread is, `ret` where it returns from `notify_task_ready`, `notify_id` or
`take_result`.  `fut` is what the union in an `AtomicFuture` really holds, which
the code can only infer from the state word.  `bits`, `ready`, `port`, `done`
are the members of the code, `sleeping`, `notified` and `foreign` the fields of
`threads_state`, `counted` the local variable `sleeping` of a worker.  A scope's
lock is held while a result is taken (`ScopeLocked`).  `joiner` is the scope's
join wakers: `poll_join_result` of a task that is not done leaves one
(`PollJoinResult`), and `task_did_finish` takes it out under the lock and wakes
it once the lock is released (`DidFinish`, `WakeJoiner`).

Memory is sequentially consistent.  Not modelled: weaker orders, timers, the
tree of scopes (there is one), waiting for a scope to have no tasks
(`on_no_tasks`), `LocalExecutor`, detached tasks.

### Journal and DurableLog

(`userspace/storage/fxfs/src/object_store`.)  `DurableLog` is the promise: a
list of transactions, of which a sync makes the first so many durable; a mount
after a crash finds at least those, and a beginning of what the list once was.
`Journal` is the code: one file, which each transaction moves to a free range;
records, whole blocks of which are written by `flush_task`, each with the
checksum of all before it; sync; and replay.

| TLA+ | Code |
|---|---|
| `journal`, `taken`, `flushed` | `JournalWriter` (all that was ever written, with its last checksum; the blocks taken from its buffer), and `Inner::flushed_offset` |
| `device_flushed`, `needs_did_flush`, `reset_version`, `discard`, `terminate` | the fields of `Inner` |
| `deallocs` | the allocator's `committed_deallocated` |
| `disk`, `cached`, `data`, `dcached` | the device: what it keeps, and what it has in its cache (external) |
| `WriteData`, `PreCommit`, `WriteAndApplyMutations`, `EndCommit` | a transaction: `multi_write` after `check_journal_space`; `commit_transaction`, `pre_commit`, `write_and_apply_mutations` |
| `FlushTask`, `Flushed`, `FlushFails` | `flush_task` and `flush` |
| `Sync`, `AwaitFlush`, `NoFlush`, `FlushDevice`, `DidFlush`, `FreeRanges` | `sync` and `flush_device`, with `Allocator::did_flush_device` |
| `Valid`, `Readable`, `ReadRecord`, `Truncate`, `ReadTransactions` | `JournalReader` and `read_transactions` |
| `Pushed`, `EntryOffset`, `Deallocations`, `Bad`, `Verify` | `ChecksumList`: `push`, `mark_deallocated`, `verify` |
| `Crash`, `Replay` | power loss; mounting |

A checksum is modelled by what it covers: the records of the journal up to the
end of its block, and which blocks were the first after a mount, where the seed
is changed.  Two are equal exactly if these are.  A block is stored as what its
checksum covers (`Cut`), so that it follows the block before it exactly if the
one begins as the other is.  `ReadTransactions` is the reading loop as a function
of the number of records read.  `Verify` takes the greatest offset that leaves no
bad entry; the loop of the code goes down to it from the end: on the way down an
entry that is bad stays so until the offset is its own.
`past` is needed because a transaction lost in one crash may be found at a
later mount (see the observations): the promise is about what the log once was,
not only about what it was last.

Not modelled: records that span blocks, extension of the journal file,
super-blocks and compaction, checksum collisions, clean shutdown, several files,
data that is overwritten in place.

## 4. Runs

Every system call in a thread's program, and every operation in a task's, may be
made in any order and any number of times within the bounds.  Deadlock is
checked for `Semaphore`, where a Post is always possible unless the count is at
its bound, and then a Wait is, and for `LockManager`, where an idle task can
always start again.  It is not for the others: threads may be dead, handles
closed, executors dropped, and transactions and crashes used up.

| Run | Instance | Shows |
|---|---|---|
| `channel_call` | two callers, one server, two calls, queue of 2, one process may be killed | `WaiterListSound`, `NoCallWithoutPeer`, `ReplyAnswersCall`, `DeliveredReplyReturned`, `PeerClosedFinal` |
| `channel_wrap` | 2-bit txids, so two kernel txids, two threads, five calls | `TxidsUnique` over more than a full turn of the counter; `TypeOK` |
| `channel_transfer` | one process has both ends; one of its threads calls, reads and waits with every signal mask, a second closes an end or sends it to another process, which receives and writes | `ReadableIffMessages`, `NoLostWakeup`, `WaitEndsWithHandle`, `OldOwnerShutOut` |
| `channel_live` | one call, a server, a thread that closes; fair | `CallerUnblocked`, `ReplyReachesCaller` |
| `channel_vdso_kill` | the threads of `channel_transfer` | violated: `VdsoKillDeserved` |
| `port_packets` | two waits on an object, both cancels, user packets (limit 1), two readers, close of the object and of the port | `DeliveredOnce`, `ObserversSafe`, `CloseReclaims`, `EphemeralCounted`, `NoLostPacket`, `TypeOK` |
| `port_live` | two waits that fire, an interrupt, a reader, close of the object and of the port; fair | `NoLostPacket` over both queues, `DequeueUnblocked`, `CloseCompletes` |
| `semaphore` | three threads, count from -2 to about 2 | `CountQueueInSync`; implements `CountingSemaphore` |
| `fxfs_locks` | a transaction on two keys; a reader of both, a flush that skips the limit or a transaction without keys; fsck, a transaction, or a writer of both; one place in flight; fair | `Exclusion`, `Accounted`, `NoneLeftWaiting`, `InOrder`, `EveryWaitEnds`, `TypeOK` |
| `async_executor` | two workers, the thread in `run()`, a foreign thread with every call, the main task and another, which may join each other, two events; fair | `QueuedOnce`, `SoleAccess`, `Counted`, `ReadyPolled`, `RunReturns`, `TypeOK` |
| `async_rerun` | the same threads; wakes only; two runs | violated: `NoStall` |
| `fxfs_journal` | three ranges, three transactions, a sync, two crashes; fair | `Intact`; implements `DurableLog`; `SyncEnds`, `TypeOK` |

Bounds.  Two callers and one server are enough for every pair of actors that
meet in one critical section plus a third that changes the state in between;
two calls are needed for a late answer to meet a later call; a queue of two and
a limit of one reach the full-channel exception.  Three port threads are the
observer's maker or canceler, the thread that fires it, and the one that reads
or closes.  Two observers make the loops over lists go round more than once.
`SizeBits = 2` and `TxidBits` of 2 and 3 keep the wrap of counters within reach;
the theorems about txids hold for every width.  In `port_packets` waits are made
and keys are canceled by the same thread, which excludes the schedule of
observation 2 below; that schedule breaks the ownership invariants, and is
reported once.  In `port_live` one thread reads: with several readers a slow one
may lose every packet to the others, which is no fault.

Three tasks in `fxfs_locks` are a holder, a waiter, and a third that queues
behind it or is granted together with it; two keys besides the filesystem's make
tasks wait for one while they hold the other.  `MaxRounds` bounds only what a
transaction repeats while it has its locks.  In `async_executor` two workers are
the least with which one can be asleep, or fall asleep, while another runs;
`Batch = 2` (16 in the code) lets a worker leave its loop with tasks still
ready; `MaxEvents` bounds calls and packets together, and each may come from
three sides at any moment.  In `fxfs_journal`, `BlockSize = 2`
makes transactions, of two records after as many as three that are due, begin at
either place in a block, so that a crash tears them or not, and blocks fill
without the padding of a sync; three ranges and three transactions are what it
takes for a range to be freed, reused and needed after a crash; the second crash
meets a log that went on after a torn one.  The sync may come at any point, and
after any number of crashes.  Larger blocks and more of everything are left to
the theorems.

Symmetry (observers, objects) is used in the safety run of `Port` only.

Fairness.  `Fairness` in `Channel` and `Port` says that a thread inside a system
call goes on, and gets a lock it waits for even if others take it in between
(`kernel/mutex.cc` hands a contested mutex to the thread it wakes, lines
521-567), and that a thread whose event is signaled, or for which a token stays
available, wakes up.  Nothing is assumed of programs, deadlines, suspension or
kills.

In `LockManager` a task that is scheduled is polled (weak fairness of `Run(t)`),
which is what `Executor` shows of its executor (`ReadyPolled`); that includes
that holders drop their guards some time.  Nothing is assumed of new operations,
nor that futures are dropped.  In `Executor` each thread takes its steps, and
tasks return from `poll`; the monitor in `run()` that looks for stalled tasks
every 250 ms is not assumed to do anything, so no property rests on it.  In
`Journal` the commit that has the mutex, the flush task and the sync go on;
writes and flushes of the device end, with success or failure.

## 5. Findings

1. `Call` leaves its waiter in use when the caller has just lost the endpoint
   (`src/zircon/kernel/object/channel_dispatcher.cc:437-439`): no `EndWait`.
   The thread's next channel call kills the process as if the vDSO had
   misbehaved.  Run `channel_vdso_kill`.
2. A worker that stops because `done` is set stays counted as sleeping
   (`src/userspace/lib/fuchsia-async/src/runtime/fuchsia/executor/common.rs:511-532`).
   In the next run of the same executor the count can never equal the number of
   threads while all sleep, so `notify_task_ready` posts nothing; a task woken
   from outside waits for the monitor.  Run `async_rerun`.

Observations made while modelling, without a run of their own:

1. A call can start between the cancellation of calls and the change of owner
   in `msg_get_handles` (`src/zircon/kernel/lib/syscalls/channel.cc:129-141`),
   and stays pending at the new owner.
2. `MakeObserver` publishes the observer at the port before the object has it
   (`src/zircon/kernel/object/port_dispatcher.cc:440-446`); `CancelKey` by a
   second thread in between destroys it.
3. `MaybeReap` erases from `observers_` an observer that `CancelKey` has moved
   to another list (`port_dispatcher.cc:396`); the size underflows and the
   observer limit (`port_dispatcher.cc:434`) is reported with no observers.
4. A transaction lost in one crash can be found at a later mount.  After a mount
   the first block is seeded with the last checksum xor `RESET_XOR`, so two
   lives that write equal first blocks (a version, then padding up to a sync)
   share its checksum, and what the earlier life wrote behind it is valid again.
   The comment on `RESET_XOR` (`src/userspace/storage/fxfs/src/object_store/journal.rs:89-93`)
   has half-complete transactions discarded.  `Intact` holds all the same: a
   transaction that comes back is verified against its data.
5. The record `DidFlushDevice` is called purely advisory (`journal.rs:1495`).
   Without it (`PreCommit_NoDidFlush`) a range that is reused shares an entry of
   the checksum list with its earlier owner, either's data passes, and lost data
   is replayed.  The code writes it before every transaction that could matter.
6. The table of `LockManager` (`transaction.rs:1000-1008`) has a txn_lock
   acquired while a read_lock is held.  Readers that are granted together do not
   let the transaction behind them through until the last of them goes;
   `NoneLeftWaiting` names this exception.
7. Canceling a task queues it without `notify_task_ready`
   (`scope.rs:812`, `829`, `926`): from a thread outside the executor, while all
   workers sleep, the future is dropped only when something else wakes one.
   `ReadyPolled` is about tasks that are not cancelled.

## 6. Proofs

`ChannelProofs` proves, for any finite set of threads, any processes, programs,
queue bounds and txid width, the theorem `Invariance` (`Spec => []IInv`) and
from it `TypeCorrect`, `WaiterListCorrect`, `CallsHavePeers`, `RepliesCorrect`,
`TxidsCorrect` and `ReadableCorrect`.  The assumptions are those of `Channel`:
the constants have their types, and there are no more threads than kernel
txids (`TxidAssumption`; the code relies on it, since `alloc_txid` loops until
it finds a free one).

`IInv` strengthens the checked invariants by what they need of each other:

* `RefInv`: a thread refers to an endpoint exactly while it is inside an
  operation on it;
* `LockInv`: `get_lock()` is held between actions by at most one thread, which
  is notifying observers or between the two halves of `on_zero_handles`;
* `OwnerInv`: `owner_` names the process whose table has the handle, if one has
  it;
* `CallHasPeer`: `NoCallWithoutPeer` while the lock is held too: during a close,
  only the endpoint about to be canceled may have waiters without a peer.

The proof has one step per action and, under it, one per conjunct the action
can disturb.  That `alloc_txid` finds a txid (`AllocTxidSound`) is a pigeonhole
argument: the map from counter steps to kernel txids covers all of them, and
the waiters of an endpoint are fewer.

`ChannelWaitProofs` proves, from the same assumptions, `Wakeups`
(`NoLostWakeup`), `WaitsEnd` (`WaitEndsWithHandle`) and the action properties
`OldOwners` (`OldOwnerShutOut`) and `ClosesFinal` (`PeerClosedFinal`).  Its
invariant `WInv` is inductive relative to `IInv`:

* `WakeupInv`, `NotifyInv`: an observer may match an active signal only while
  the holder of `get_lock()` is about to notify its endpoint, and then with
  signals that include every active one.  `NoLostWakeup` is not inductive by
  itself: it says nothing while the lock is held, which is when `WriteSelf` has
  activated READABLE and not yet notified, and `Read` may clear it;
* `ObserversWait`: an observer is queued only where its thread waits;
* `ReceiverInv`: a handle taken out of a message is with one thread, which finds
  no observer once it has canceled them, for nobody can begin a wait on a handle
  that is in no table;
* `PeerInv`: the endpoints lose each other in one step.

`OldOwners` needs only `OwnerInv` of `IInv`.  Steps that neither wait, notify
nor receive have a common lemma, `UnwatchedStep`.

`ChannelReplyProofs` proves `RepliesMatch` (`ReplyAnswersCall`) under the
hypothesis `ClientServer`: the ends stay with their processes, a process calls or
writes but not both, programs put no kernel generated txid in a message of their
own, and fewer calls are made than there are such txids.  Nothing in the kernel
enforces any of it, and without it the property is false: each endpoint numbers
its calls by itself, so a stray answer that is itself answered, or a request
answered at the other end after both ends were in one process, can carry the
txid of a call at the wrong end; and once the counter has come round, a late
answer fits a new call.  The program of `channel_call` satisfies it
(`CallProgram` in `MCChannel`).  The invariant `RInv` follows the request through
the peer's queue and into the hands of a reader: there too, a message with the
txid of a waiting call is the request of that call (`RequestInv`).  It survives a
new call since the counter is past every txid in use (`TxidInv`,
`FirstTxidFits`).

`SemaphoreProofs` proves `Invariance`, `InSync`, and `Refinement`
(`Spec => KeepsPromise`): every step of `Semaphore` is a step of
`CountingSemaphore` or leaves its state alone.  The invariant is that the count
is negative whenever somebody is queued or about to be, and that the lock's
holder is where it should be.

`ExecutorProofs` proves, for any number of workers, other threads, tasks, events
and runs, `Invariance` and from it `TypeCorrect`, `ReadyQueuedOnce`
(`QueuedOnce`), `PolledByOne` (`SoleAccess`) and `CountsExact` (`Counted`).  The
assumptions are those of `Executor`: finite sets of threads, at least one
worker, a main task.  `IInv` adds to the properties:

* `Control`: where a worker, another thread and the thread in `run()` can be,
  what each has in hand there (the task it polls, joins or is to wake, the
  notifications it has still to post) and which workers may be counted as sleeping;
* `RunInv`: the main task is done when `run()` has its result and until the next
  run, and the workers have exited whenever no run is in progress.  Without it,
  a task could be restarted while a worker polls it;
* `QueueInv`, `PollInv`, `FutureInv`: the state word of a task says whether it is
  queued, polled, done, and what its union holds.  They need each other: that a
  popped task is nobody's is `QueueInv`, that a task given up goes back to the
  queue once is `PollInv`;
* `CountInv`: each field of `threads_state` is the size of a set of threads or
  of places in the port's queue.  Of `sleeping` only a lower bound is kept in
  later runs, which is what finding 2 is about; the upper bound is part of the
  invariant for the first run.

Most steps change one thread and one task; the lemmas about frames (`Only`) say
so once, and a lemma per action and conjunct does the rest.

`LockManagerProofs` proves, for any finite sets of tasks and keys, any programs
and any limit, `Invariance` and from it `TypeCorrect`, `LocksExclude`
(`Exclusion`), `BooksExact` (`Accounted`), `NoGrantOwed` (`NoneLeftWaiting`) and
the action property `GrantedInOrder` (`InOrder`).  The assumptions are those of
`LockManager`: keys are ordered with `Filesystem` first, and no transaction has
`Filesystem` among the keys it locks.  The code keeps to the second: only the
guard of a transaction (`filesystem.rs:622`) and fsck (`fsck.rs:121`, `266`)
lock that key.  A transaction that did would wait for its own guard when it
commits.  `IInv` has these parts beside the types:

* `Shape`: what a task has and wants in each stage.  A task has no lock yet on a
  key it has still to lock, except to upgrade it or to read it again; what is
  left to drop covers all it has.  Every dropped future depends on that;
* `EntryInv`, for each key: `Holders` (the entry counts the readers, has at most
  one writer, and no reader beside a write lock), `Present` (an entry
  is there exactly while the key has a holder, and only then has waiters),
  `Line` (nobody is in the list twice, and an upgrade is at its head),
  `Settled` (`wake()` would do nothing), `State` (the entry has the state its
  writer relies on), and that the list has exactly the tasks that wait;
* `RereadInv`: a read lock on a key that a transaction has locked is granted at
  once.  Needed since such a task would stand in the list of a key it holds;
* `CountInv`: `in_flight_transactions` is the number of transactions in flight.

They need each other: that the head of the list may be given the key without a
second look is `Settled` and `Line`; that an upgrade at the head is by the one
that has the key is `Holders`; that an entry may be removed from the table when
its last holder goes is `Present`, for a waker in a removed entry would be lost.

The lemma the rest depends on is `WakeSound`: whatever `wake()` pops becomes a
holder, the others stay in their order, and the entry that results has all the
properties above.  Each way an entry changes (`drop_lock`, `downgrade_lock`,
`remove_waker`, a lock taken at once, a new waker) has a lemma (`Effect`) that
follows from it; `KeyStep` turns one into the invariant of that key.  For
`InOrder` it is enough that `wake()` pops a beginning of the list (`First`) and
that removing a waker keeps the order of the others.

`PortProofs` proves, for any finite sets of threads and observers, any objects,
keys, interrupt packets and programs, `Invariance` and from it `TypeCorrect`,
`Counting` (`EphemeralCounted`), `Wakeups` (`NoLostPacket`), `Delivery`
(`DeliveredOnce`) and `Ownership` (`OneOwner` and `WeakPointerValid`).  The
assumptions are those of `Port`: numbers are numbers, `size_t` can count the
observers, and the packet of an observer is not a user packet.  `Lifetime`
(`ObserversSafe`) and `Reclaiming` (`CloseReclaims`) have one more hypothesis,
`Serialized`: no thread has `zx_port_cancel_key` in its program while another
has `zx_object_wait_async`.  Observation 2 of section 5 is why: the observer that
`CancelKey` destroys in that window is still handed to the object.  The programs
of both runs satisfy it (`SerializedPrograms` in `MCPort`).  `IInv` has these
parts beside the types:

* `Control`, `Locks`: where a thread is in its call, what it has in hand there,
  and that an object's lock is held by the thread that visits its observers;
* `Closing`: one thread closes the port, packets first and then observers, and a
  port closed by nobody has neither;
* `Once`: an observer is queued at most once.  The counts need it, since they
  go down by the packets that a filter or a prefix takes;
* for each observer, `Placed`: it is nowhere before it is made (`Unmade`); it is
  with its object, then with one thread that runs `OnMatch` or `OnCancel`, and is
  queued only after that began (`Course`); it has one owner while it lives and
  the owner knows what it has (`Owned`); who unlinked it refers to its object
  (`Refers`); until it is reaped, canceled or the port is closed, it is in
  `observers_` (`Waiting`);
* `Linked`: `dispatcher_` is set exactly while the observer is in a list, and
  then it is not reaped and its object is held;
* `Cancelled`: an observer that a returned cancel covered is not queued and will
  not be (`Silent`), and so is one that a cancel in progress has passed.  This
  is the strengthening that `DeliveredOnce` needs: that the packet is
  absent now is not inductive, for the wait may be firing.

Under `Serialized`, `SafeInv` adds that an observer is in `observers_` until its
object has it, and that nobody can reach one that was destroyed or that a thread
is about to destroy.  The step that matters is `RemoveObserver`: it runs with the
lock of the object free, so no `OnMatch` of the observer is in progress.

Most steps concern one thread and at most one observer.  The lemmas on what a
step leaves alone (`Rest`, `SameView`, `Aside`, `Quiet`) say so once; one lemma
for each way an observer changes hands (`UnlinkObserver`, `MoveObserver`,
`DestroyObserver`) does the rest.  The lists are handled by `KeepSound`: what
`Keep` leaves corresponds one to one to the positions it keeps.  It is proved by
taking a least counterexample (`LeastNat`), since the prover cannot instantiate
an induction theorem.

`JournalProofs` proves, for every size of a block, every finite set of ranges and
any number of transactions, syncs and crashes, `Invariance` and from it
`TypeCorrect` (`TypeOK`), `DataIntact` (`Intact`) and `Refinement` (`Implements`:
every step of `Journal` is one of `DurableLog` or changes nothing in it).  The
only assumptions are those of `Journal`: a block holds at least two records,
there is at least one range, ranges are positive numbers, and the bounds are
numbers.  `IInv` says that for some block `mt`, where the journal was last
mounted, and some number `c`, of the transactions that mount kept:

* `BlocksInv`: each block taken from the buffer is in the cache or on the device
  with what the journal has there; all before `device_flushed` is on the device;
  a block `mt` that an earlier life left on the device does not follow the blocks
  before it;
* `StoredInv`: whatever a block on the device or in the cache covers reads as the
  beginning of the log or of one that was (`past`), takes nothing back after the
  first two records of the last mount, and claims no more to be flushed than was.
  This is the account of the blocks of earlier lives: any of them may be read
  after the next crash;
* `ReadInv`: from every place after those two records, the journal reads as the
  transactions applied so far, the one whose `Commit` is missing apart (`Match`);
* `MountInv`, `ResetInv`: what the last mount read, kept and is about to discard;
* `Distinct`: of what is read, a transaction that may have to be verified shares
  its range with no later one.  Then an entry of the checksum list has one
  checksum and one deallocation, and a match means that the data is there.  It
  holds because `PreCommit` journals `DidFlushDevice` before a range that was
  freed is used again (`CommitInv`), which is what observation 5 is about;
* `DataInv`: at each place where a crash may cut the log (`Live`), the range of
  the last transaction holds its data, on the device if that place is flushed;
  ranges freed since are still in `deallocs`;
* `LogInv`, `SyncInv`: transactions follow each other and are whole between
  offsets that are flushed; what a sync waits for covers what it promises.

The proof for a crash goes from the device to the log in steps.  `FlushedRead`:
the blocks up to some block past `device_flushed` are found, whatever the cache
lost.  `CrashReads`: so the transactions that were flushed are read, and nothing
after them is taken to be flushed.  `VerifySound`: what `Verify` keeps has at
least those transactions, and the data of the last one it keeps is there.  The
lemmas after it show that the journal mounted there satisfies the invariant with
new `mt` and `c`.  What the reading loop returns is obtained by unfolding one
record at a time (`Loop`) and taking a least place where a claim fails
(`LoopLocal`, `LoopForward`, `LoopBounds`), since an induction theorem cannot be
instantiated.

Only model-checked: every liveness property (the prover handles neither fairness
nor ENABLED).
