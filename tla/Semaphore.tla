------------------------------ MODULE Semaphore ------------------------------
(***************************************************************************)
(* kernel/semaphore.cc: an atomic count_ with lock-free fast paths, and a  *)
(* wait queue whose lock guards every change between a negative and a      *)
(* non-negative count.  A failed wait leaves count_ too low; a later Post  *)
(* sets it right.  One action is one atomic operation on count_, or what   *)
(* happens under the lock between two of them.                             *)
(***************************************************************************)
EXTENDS Integers, FiniteSets

CONSTANTS
  Threads,
  InitialCount,  \* the constructor's argument
  MaxDeficit,    \* bounds: Wait is called only while count_ > -MaxDeficit,
  MaxCount       \* and Post only while count_ < MaxCount

ASSUME SemaphoreAssumption ==
  IsFiniteSet(Threads) /\ InitialCount \in Nat /\ MaxDeficit \in Nat /\ MaxCount \in Nat

VARIABLES
  count,  \* count_
  waitq,  \* waitq_: the blocked threads
  lock,   \* the thread that holds waitq_'s lock between actions, or nobody
  pc, old \* per thread: control point, and the local old_count

vars == <<count, waitq, lock, pc, old>>

PCs == {"idle", "post", "post_slow", "post_add", "wait", "wait_slow", "block",
        "blocked", "ok", "failed"}

Init ==
  /\ count = InitialCount /\ waitq = {} /\ lock = {}
  /\ pc = [t \in Threads |-> "idle"] /\ old = [t \in Threads |-> 0]

Goto(t, l) == pc' = [pc EXCEPT ![t] = l]
-----------------------------------------------------------------------------
\* Post.

\* The first load of count_.
PostLoad(t) ==
  /\ pc[t] = "idle" /\ count < MaxCount
  /\ old' = [old EXCEPT ![t] = count]
  /\ Goto(t, "post")
  /\ UNCHANGED <<count, waitq, lock>>

\* One turn of the fast path: the CAS succeeds, or reloads old_count; a
\* negative one goes on to the slow path.
PostFast(t) ==
  /\ pc[t] = "post"
  /\ IF old[t] < 0 THEN Goto(t, "post_slow") /\ UNCHANGED <<count, old>>
     ELSE IF count = old[t]
          THEN count' = count + 1 /\ Goto(t, "idle") /\ old' = [old EXCEPT ![t] = 0]
          ELSE old' = [old EXCEPT ![t] = count] /\ UNCHANGED <<count, pc>>
  /\ UNCHANGED <<waitq, lock>>

\* Under the lock, count_ non-negative again: it is going to be incremented.
PostSlowCount(t) ==
  /\ pc[t] = "post_slow" /\ lock = {} /\ count >= 0
  /\ lock' = {t}
  /\ Goto(t, "post_add")
  /\ UNCHANGED <<count, waitq, old>>

PostAdd(t) ==
  /\ pc[t] = "post_add"
  /\ count' = count + 1
  /\ lock' = {} /\ old' = [old EXCEPT ![t] = 0]
  /\ Goto(t, "idle")
  /\ UNCHANGED waitq

\* Fault: the failed waits are not made up for.
PostRepair_Adds(t) ==
  /\ pc[t] = "post_slow" /\ lock = {} /\ count < 0 /\ waitq = {}
  /\ count' = count + 1
  /\ old' = [old EXCEPT ![t] = 0]
  /\ Goto(t, "idle")
  /\ UNCHANGED <<waitq, lock>>

\* Under the lock, count_ negative and nobody waits: the waiters that made it
\* negative have failed.
PostRepair(t) ==
  /\ pc[t] = "post_slow" /\ lock = {} /\ count < 0 /\ waitq = {}
  /\ count' = 1
  /\ old' = [old EXCEPT ![t] = 0]
  /\ Goto(t, "idle")
  /\ UNCHANGED <<waitq, lock>>

\* Fault: count_ is set back to zero though others are queued.
PostWake_ResetsAlways(t, w) ==
  /\ pc[t] = "post_slow" /\ lock = {} /\ count < 0 /\ w \in waitq
  /\ waitq' = waitq \ {w}
  /\ count' = 0
  /\ old' = [old EXCEPT ![t] = 0]
  /\ pc' = [pc EXCEPT ![t] = "idle", ![w] = "ok"]
  /\ UNCHANGED lock

\* Under the lock, count_ negative: one waiter is woken; with the last one
\* count_ is set back to zero.
PostWake(t, w) ==
  /\ pc[t] = "post_slow" /\ lock = {} /\ count < 0 /\ w \in waitq
  /\ waitq' = waitq \ {w}
  /\ count' = IF waitq = {w} THEN 0 ELSE count
  /\ old' = [old EXCEPT ![t] = 0]
  /\ pc' = [pc EXCEPT ![t] = "idle", ![w] = "ok"]
  /\ UNCHANGED lock
-----------------------------------------------------------------------------
\* Wait.

WaitLoad(t) ==
  /\ pc[t] = "idle" /\ count > -MaxDeficit
  /\ old' = [old EXCEPT ![t] = count]
  /\ Goto(t, "wait")
  /\ UNCHANGED <<count, waitq, lock>>

WaitFast(t) ==
  /\ pc[t] = "wait"
  /\ IF old[t] <= 0 THEN Goto(t, "wait_slow") /\ UNCHANGED <<count, old>>
     ELSE IF count = old[t]
          THEN count' = count - 1 /\ Goto(t, "ok") /\ old' = [old EXCEPT ![t] = 0]
          ELSE old' = [old EXCEPT ![t] = count] /\ UNCHANGED <<count, pc>>
  /\ UNCHANGED <<waitq, lock>>

\* fetch_sub under the lock.
WaitSlow(t) ==
  /\ pc[t] = "wait_slow" /\ lock = {}
  /\ count' = count - 1
  /\ old' = [old EXCEPT ![t] = 0]
  /\ IF count > 0 THEN Goto(t, "ok") /\ UNCHANGED lock
     ELSE Goto(t, "block") /\ lock' = {t}
  /\ UNCHANGED waitq

\* waitq_.Block: the thread is queued and the lock released, or the wait fails
\* at once because of the deadline or a pending thread signal.
Block(t) ==
  /\ pc[t] = "block"
  /\ lock' = {}
  /\ \/ waitq' = waitq \cup {t} /\ Goto(t, "blocked")
     \/ UNCHANGED waitq /\ Goto(t, "failed")
  /\ UNCHANGED <<count, old>>

\* Timeout, suspend or kill unblocks the thread, under the queue's lock.
Unblock(t) ==
  /\ pc[t] = "blocked" /\ lock = {}
  /\ waitq' = waitq \ {t}
  /\ Goto(t, "failed")
  /\ UNCHANGED <<count, lock, old>>

WaitReturns(t) ==
  /\ pc[t] \in {"ok", "failed"}
  /\ Goto(t, "idle")
  /\ UNCHANGED <<count, waitq, lock, old>>
-----------------------------------------------------------------------------
PostStep(t) ==
  \/ PostFast(t) \/ PostSlowCount(t) \/ PostAdd(t) \/ PostRepair(t)
  \/ \E w \in Threads : PostWake(t, w)

Next ==
  \E t \in Threads :
    \/ PostLoad(t) \/ PostStep(t)
    \/ WaitLoad(t) \/ WaitFast(t) \/ WaitSlow(t) \/ Block(t)
    \/ Unblock(t) \/ WaitReturns(t)

Spec == Init /\ [][Next]_vars
-----------------------------------------------------------------------------
(***************************************************************************)
(* Properties.                                                             *)
(***************************************************************************)
\* Every variable keeps to its type.
TypeOK ==
  /\ count \in Int /\ waitq \subseteq Threads /\ lock \subseteq Threads
  /\ pc \in [Threads -> PCs] /\ old \in [Threads -> Int]

\* The lock's holder is a thread between two steps of its critical section.
LockInv ==
  /\ \A t \in Threads : t \in lock <=> pc[t] \in {"post_add", "block"}
  /\ \A t, u \in lock : t = u

\* count_ and the queue agree (semaphore.h: they "must be kept in sync"): as
\* long as a thread is queued the count is negative, so that no Wait overtakes
\* it and every Post takes the slow path that wakes it; and the count is never
\* negative inside PostSlowCount's increment.
CountQueueInSync ==
  /\ \A t \in Threads : t \in waitq <=> pc[t] = "blocked"
  /\ waitq # {} => count < 0
  /\ \A t \in Threads : (pc[t] = "block" => count < 0) /\ (pc[t] = "post_add" => count >= 0)

\* The implementation keeps the promise of CountingSemaphore.
Stage(l) ==
  CASE l \in {"wait", "wait_slow", "block"} -> "asked"
    [] l = "blocked" -> "queued"
    [] l = "ok" -> "admitted"
    [] l = "failed" -> "failed"
    [] l \in {"post", "post_slow", "post_add"} -> "posting"
    [] OTHER -> "out"
Promise ==
  INSTANCE CountingSemaphore WITH
    tokens <- IF count > 0 THEN count ELSE 0,
    stage  <- [t \in Threads |-> Stage(pc[t])]

\* No token is lost and none is made: every Post admits a queued thread or
\* leaves one more token, whatever fails or races it.
KeepsPromise == Promise!ASpec
=============================================================================
