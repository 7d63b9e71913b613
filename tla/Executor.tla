------------------------------ MODULE Executor -------------------------------
(***************************************************************************)
(* fuchsia-async, runtime/fuchsia/executor: the multi-threaded executor.   *)
(* SendExecutor::run spawns the main task, starts the workers and waits    *)
(* for the result; workers (worker_lifecycle) poll the tasks of the ready  *)
(* queue and sleep on a port; other threads wake, cancel and join tasks,   *)
(* or lend a hand (poll_tasks).                                            *)
(*                                                                         *)
(* A step is one atomic operation on shared memory, the queue or the port, *)
(* but for three cases.  A load of threads_state followed by a             *)
(* compare-and-exchange loop is the exchange that succeeds, or the load    *)
(* that ends the loop.  What a thread does to a task that only it may      *)
(* poll is one step with the atomic operation that gets it the task, or    *)
(* gives it up.  Marking a task ready is one step with pushing it, as no   *)
(* one does anything to a task that is ready and not queued.  Memory is    *)
(* sequentially consistent.                                                *)
(***************************************************************************)
EXTENDS AtomicFuture, Integers, Sequences, FiniteSets

CONSTANTS
  Workers,     \* the worker threads (num_threads of them)
  Others,      \* threads that do not belong to the executor
  Runner,      \* the thread that calls SendExecutor::run
  Tasks, Main, \* the tasks, the main one among them
  NoTask,
  Receivers,   \* the tasks that wait for packets on the port
  Calls,       \* Calls[th]: what thread th, or a task it polls, may call
  Batch,       \* how many tasks poll_ready_tasks and poll_tasks poll in a row
  MaxEvents,   \* bounds: on calls of wake, cancel, join and poll_tasks and on
               \*   packets for receivers, together,
  MaxRuns      \*   and on runs of the executor

ASSUME ExecutorAssumption ==
  /\ IsFiniteSet(Workers) /\ Workers # {} /\ IsFiniteSet(Others) /\ IsFiniteSet(Tasks)
  /\ Runner \notin Workers \cup Others /\ Workers \cap Others = {}
  /\ Main \in Tasks /\ NoTask \notin Tasks /\ Receivers \subseteq Tasks
  /\ Calls \in [Workers \cup Others -> SUBSET {"wake", "cancel", "join", "poll_tasks"}]
  /\ Batch \in Nat \ {0} /\ MaxEvents \in Nat /\ MaxRuns \in Nat

Threads == Workers \cup Others \cup {Runner}
NumThreads == Cardinality(Workers)

\* The key of a packet that only wakes a worker up (TASK_READY_WAKEUP_ID); that
\* of a receiver is the task its packet wakes.
Wakeup == NoTask

VARIABLES
  bits, fut,      \* per task its AtomicFuture: the state, and what it contains
  ready,          \* ready_tasks
  sleeping, notified, foreign,  \* threads_state
  port,           \* the packets queued on the port
  done,
  finished,       \* the tasks of which task_did_finish told the scope
  joiner,         \* per task, the task whose waker waits for it in join_results
  result,         \* whether the main future has left its result for run()
  pc, ret,        \* per thread: where it is, where a call it makes returns,
  cur,            \*   the task it polls,
  arg,            \*   the task it joins or is to wake, or the packet it has,
  posts,          \*   the notifications it has still to post,
  polls,          \*   the tasks it has polled in this batch,
  counted,        \*   and whether it counts as sleeping
  events, runs    \* counters against the bounds

future == <<bits, fut>>
threads == <<sleeping, notified, foreign>>
run == <<done, finished, joiner, result>>
counters == <<events, runs>>
vars == <<future, ready, threads, port, run, pc, ret, cur, arg, posts, polls, counted, counters>>

\* There is no main task yet.
Init ==
  /\ bits = [t \in Tasks |-> IF t = Main THEN DropFuture({}) ELSE NewFuture]
  /\ fut = [t \in Tasks |-> IF t = Main THEN "none" ELSE "future"]
  /\ ready = <<>> /\ port = <<>> /\ done = FALSE /\ finished = {Main} /\ result = FALSE
  /\ joiner = [t \in Tasks |-> NoTask]
  /\ sleeping = 0 /\ notified = 0 /\ foreign = 0
  /\ pc = [th \in Threads |-> IF th \in Workers THEN "exited" ELSE "idle"]
  /\ ret = [th \in Threads |-> "idle"] /\ cur = [th \in Threads |-> NoTask]
  /\ arg = [th \in Threads |-> NoTask] /\ posts = [th \in Threads |-> 0]
  /\ polls = [th \in Threads |-> 0] /\ counted = [th \in Threads |-> FALSE]
  /\ events = 0 /\ runs = 0

At(th, where) == pc[th] = where
Go(th, to) == pc' = [pc EXCEPT ![th] = to]

\* A call goes on at a place and is to return to another, or returns.
Call(th, to, back) == Go(th, to) /\ ret' = [ret EXCEPT ![th] = back]
Return(th) == Go(th, ret[th]) /\ ret' = [ret EXCEPT ![th] = "idle"]
-----------------------------------------------------------------------------
(***************************************************************************)
(* Task::wake: mark_ready, push, notify_task_ready.                        *)
(***************************************************************************)
Wake(th, t, back) ==
  /\ bits' = [bits EXCEPT ![t] = MarkReady(@)]
  /\ ready' = IF ToQueue(bits[t]) THEN Append(ready, t) ELSE ready
  /\ IF ToQueue(bits[t]) THEN Call(th, "notify", back) ELSE Call(th, back, "idle")

\* try_notify: the count goes up and a packet is to be posted.
TryNotify(th) ==
  /\ notified' = notified + 1
  /\ posts' = [posts EXCEPT ![th] = 1]
  /\ Go(th, "post")

\* Only if no thread runs, or is soon to.
AllAsleep == sleeping = NumThreads /\ notified = 0 /\ foreign = 0

NotifyTaskReady(th) ==
  /\ At(th, "notify")
  /\ \/ AllAsleep /\ TryNotify(th) /\ UNCHANGED ret
     \/ ~AllAsleep /\ Return(th) /\ UNCHANGED <<notified, posts>>
  /\ UNCHANGED <<future, ready, sleeping, foreign, port, run, cur, arg, polls, counted, counters>>

\* notify_id, as many times as asked.
NotifyId(th) ==
  /\ At(th, "post")
  /\ port' = Append(port, Wakeup)
  /\ posts' = [posts EXCEPT ![th] = @ - 1]
  /\ IF posts[th] > 1 THEN UNCHANGED <<pc, ret>> ELSE Return(th)
  /\ UNCHANGED <<future, ready, threads, run, cur, arg, polls, counted, counters>>

(***************************************************************************)
(* cancel_task: cancel, push, take_result.  A join, and the cancel of a    *)
(* task that has finished, only take the result; a join of one that has    *)
(* not leaves a waker.  The scope is locked.                               *)
(***************************************************************************)
ScopeLocked == \E th \in Threads : At(th, "take")

CancelTask(th, t, back) ==
  /\ ~ScopeLocked
  /\ bits' = [bits EXCEPT ![t] = IF t \in finished THEN @ ELSE Cancel(@)]
  /\ ready' = IF ToQueue(bits[t]) THEN Append(ready, t) ELSE ready
  /\ joiner' = [joiner EXCEPT ![t] = NoTask]
  /\ arg' = [arg EXCEPT ![th] = t]
  /\ Call(th, "take", back)

\* poll_join_result, and poll_cancelled after cancel_task.
PollJoinResult(th, t, waker, back) ==
  /\ ~ScopeLocked
  /\ \/ /\ t \in finished
        /\ arg' = [arg EXCEPT ![th] = t]
        /\ Call(th, "take", back)
        /\ UNCHANGED joiner
     \/ /\ t \notin finished
        /\ joiner' = [joiner EXCEPT ![t] = waker]
        /\ UNCHANGED <<pc, ret, arg>>

TakeTaskResult(th) ==
  /\ At(th, "take")
  /\ LET t == arg[th]
     IN  /\ bits' = [bits EXCEPT ![t] = TakeResult(@)]
         /\ fut' = [fut EXCEPT ![t] = IF HasResult(bits[t]) THEN "none" ELSE @]
  /\ arg' = [arg EXCEPT ![th] = NoTask]
  /\ Return(th)
  /\ UNCHANGED <<ready, threads, port, run, cur, posts, polls, counted, counters>>
-----------------------------------------------------------------------------
(***************************************************************************)
(* Polling: poll_ready_tasks by a worker, poll_tasks by another thread.    *)
(***************************************************************************)
\* A task is popped and try_poll gets its future, which is dropped if it was
\* cancelled.  That it is done, or polled by someone else, is handled too, but
\* never happens (QueuedOnce).
Pop(th) ==
  /\ At(th, "pop") /\ ready # <<>>
  /\ LET t == Head(ready)
         b == bits[t]
     IN  /\ "INACTIVE" \in b /\ "DONE" \notin b
         /\ cur' = [cur EXCEPT ![th] = t]
         /\ \/ /\ "CANCELLED" \in b
               /\ bits' = [bits EXCEPT ![t] = DropFuture(Claim(b))]
               /\ fut' = [fut EXCEPT ![t] = "none"]
               /\ Go(th, "finish")
            \/ /\ "CANCELLED" \notin b
               /\ bits' = [bits EXCEPT ![t] = Claim(b)]
               /\ Go(th, "poll")
               /\ UNCHANGED fut
  /\ ready' = Tail(ready)
  /\ UNCHANGED <<threads, port, run, ret, arg, posts, polls, counted, counters>>

\* While it is polled, the future may wake, cancel and join tasks, itself included.
PollWakes(th) ==
  /\ At(th, "poll") /\ "wake" \in Calls[th] /\ events < MaxEvents
  /\ events' = events + 1
  /\ \E t \in Tasks : Wake(th, t, "poll")
  /\ UNCHANGED <<fut, threads, port, run, cur, arg, posts, polls, counted, runs>>

PollCancels(th) ==
  /\ At(th, "poll") /\ "cancel" \in Calls[th] /\ events < MaxEvents
  /\ events' = events + 1
  /\ \E t \in Tasks \ {Main} : CancelTask(th, t, "poll")
  /\ UNCHANGED <<fut, threads, port, done, finished, result, cur, posts, polls, counted, runs>>

PollJoins(th) ==
  /\ At(th, "poll") /\ "join" \in Calls[th] /\ events < MaxEvents
  /\ events' = events + 1
  /\ \E t \in Tasks \ {Main} : PollJoinResult(th, t, cur[th], "poll")
  /\ UNCHANGED <<future, ready, threads, port, done, finished, result, cur, posts, polls, counted, runs>>

\* The future is dropped for its result; the main one hands its own to run().
PollReady(th) ==
  /\ At(th, "poll")
  /\ bits' = [bits EXCEPT ![cur[th]] = Complete(@)]
  /\ fut' = [fut EXCEPT ![cur[th]] = "result"]
  /\ result' = (result \/ cur[th] = Main)
  /\ Go(th, "finish")
  /\ UNCHANGED <<ready, threads, port, done, finished, joiner, ret, cur, arg, posts, polls, counted, counters>>

\* Where a thread goes on after it polled a task: to the next one, while the
\* batch lasts.
AfterPoll(th) == IF polls[th] + 1 < Batch THEN "pop" ELSE IF th \in Workers THEN "more" ELSE "leave"

Polled(th) ==
  /\ cur' = [cur EXCEPT ![th] = NoTask]
  /\ polls' = [polls EXCEPT ![th] = IF @ + 1 < Batch THEN @ + 1 ELSE 0]

\* task_did_finish; a join waker is woken when the scope is unlocked.  The main
\* task, which no one joins, ends the polling.
DidFinish(th) ==
  /\ At(th, "finish") /\ ~ScopeLocked
  /\ LET t == cur[th]
     IN  /\ finished' = finished \cup {t}
         /\ joiner' = [joiner EXCEPT ![t] = NoTask]
         /\ \/ /\ t # Main /\ joiner[t] = NoTask
               /\ Polled(th)
               /\ Go(th, AfterPoll(th))
               /\ UNCHANGED <<ret, arg>>
            \/ /\ t # Main /\ joiner[t] # NoTask
               /\ Polled(th)
               /\ arg' = [arg EXCEPT ![th] = joiner[t]]
               /\ Call(th, "wake_joiner", AfterPoll(th))
            \/ /\ t = Main
               /\ cur' = [cur EXCEPT ![th] = NoTask]
               /\ polls' = [polls EXCEPT ![th] = 0]
               /\ Go(th, IF th \in Workers THEN "exited" ELSE "leave")
               /\ UNCHANGED <<ret, arg>>
  /\ UNCHANGED <<future, ready, threads, port, done, result, posts, counted, counters>>

WakeJoiner(th) ==
  /\ At(th, "wake_joiner")
  /\ Wake(th, arg[th], ret[th])
  /\ arg' = [arg EXCEPT ![th] = NoTask]
  /\ UNCHANGED <<fut, threads, port, run, cur, posts, polls, counted, counters>>

\* It yields, and is queued again, if it was woken while it was polled.
PollPending(th) ==
  /\ At(th, "poll")
  /\ LET t == cur[th]
     IN  /\ bits' = [bits EXCEPT ![t] = Release(@)]
         /\ ready' = IF "READY" \in bits[t] THEN Append(ready, t) ELSE ready
  /\ Polled(th)
  /\ Go(th, AfterPoll(th))
  /\ UNCHANGED <<fut, threads, port, run, ret, arg, posts, counted, counters>>
-----------------------------------------------------------------------------
(***************************************************************************)
(* worker_lifecycle.                                                       *)
(***************************************************************************)
\* There may be more tasks: another thread is woken, if one sleeps.
MoreReady(w) ==
  /\ At(w, "more")
  /\ \/ sleeping = 0 /\ Go(w, "check_done") /\ UNCHANGED <<ret, notified, posts>>
     \/ sleeping > 0 /\ notified >= sleeping /\ Go(w, "pop") /\ UNCHANGED <<ret, notified, posts>>
     \/ sleeping > 0 /\ notified < sleeping /\ TryNotify(w) /\ ret' = [ret EXCEPT ![w] = "pop"]
  /\ UNCHANGED <<future, ready, sleeping, foreign, port, run, cur, arg, polls, counted, counters>>

NoneReady(w) ==
  /\ w \in Workers /\ At(w, "pop") /\ ready = <<>>
  /\ polls' = [polls EXCEPT ![w] = 0]
  /\ Go(w, "sleep")
  /\ UNCHANGED <<future, ready, threads, port, run, ret, cur, arg, posts, counted, counters>>

Sleep(w) ==
  /\ At(w, "sleep")
  /\ sleeping' = sleeping + 1
  /\ counted' = [counted EXCEPT ![w] = TRUE]
  /\ Go(w, "recheck")
  /\ UNCHANGED <<future, ready, notified, foreign, port, run, ret, cur, arg, posts, polls, counters>>

\* Fault: the queue is not looked at again.
Recheck_Skipped(w) ==
  /\ At(w, "recheck")
  /\ Go(w, "check_done")
  /\ UNCHANGED <<future, ready, threads, port, run, ret, cur, arg, posts, polls, counted, counters>>

Recheck(w) ==
  /\ At(w, "recheck")
  /\ Go(w, IF ready = <<>> THEN "check_done" ELSE "lost_race")
  /\ UNCHANGED <<future, ready, threads, port, run, ret, cur, arg, posts, polls, counted, counters>>

\* Fault: the count is not taken back.
LostRace_NoSub(w) ==
  /\ At(w, "lost_race")
  /\ counted' = [counted EXCEPT ![w] = FALSE]
  /\ Go(w, "check_done")
  /\ UNCHANGED <<future, ready, threads, port, run, ret, cur, arg, posts, polls, counters>>

LostRace(w) ==
  /\ At(w, "lost_race")
  /\ sleeping' = sleeping - 1
  /\ counted' = [counted EXCEPT ![w] = FALSE]
  /\ Go(w, "check_done")
  /\ UNCHANGED <<future, ready, notified, foreign, port, run, ret, cur, arg, posts, polls, counters>>

\* A worker that stops goes on counting as sleeping, if it did.
CheckDone(w) ==
  /\ At(w, "check_done")
  /\ Go(w, IF done THEN "exited" ELSE "wait")
  /\ UNCHANGED <<future, ready, threads, port, run, ret, cur, arg, posts, polls, counted, counters>>

\* port.wait; a worker that is awake does not wait.
Receive(w) ==
  /\ At(w, "wait") /\ port # <<>>
  /\ port' = Tail(port)
  /\ arg' = [arg EXCEPT ![w] = Head(port)]
  /\ Go(w, "wake_up")
  /\ UNCHANGED <<future, ready, threads, run, ret, cur, posts, polls, counted, counters>>

TimedOut(w) ==
  /\ At(w, "wait") /\ port = <<>> /\ ~counted[w]
  /\ Go(w, "pop")
  /\ UNCHANGED <<future, ready, threads, port, run, ret, cur, arg, posts, polls, counted, counters>>

\* Fault: every packet is taken for a notification.
WakeUp_AnyPacket(w) ==
  /\ At(w, "wake_up")
  /\ sleeping' = IF counted[w] THEN sleeping - 1 ELSE sleeping
  /\ notified' = notified - 1
  /\ counted' = [counted EXCEPT ![w] = FALSE]
  /\ Go(w, IF arg[w] = Wakeup THEN "pop" ELSE "deliver")
  /\ UNCHANGED <<future, ready, foreign, port, run, ret, cur, arg, posts, polls, counters>>

\* threads_state_sub.
WakeUp(w) ==
  /\ At(w, "wake_up")
  /\ sleeping' = IF counted[w] THEN sleeping - 1 ELSE sleeping
  /\ notified' = IF arg[w] = Wakeup THEN notified - 1 ELSE notified
  /\ counted' = [counted EXCEPT ![w] = FALSE]
  /\ Go(w, IF arg[w] = Wakeup THEN "pop" ELSE "deliver")
  /\ UNCHANGED <<future, ready, foreign, port, run, ret, cur, arg, posts, polls, counters>>

\* The receiver of the packet wakes its task.
DeliverPacket(w) ==
  /\ At(w, "deliver")
  /\ Wake(w, arg[w], "pop")
  /\ arg' = [arg EXCEPT ![w] = NoTask]
  /\ UNCHANGED <<fut, threads, port, run, cur, posts, polls, counted, counters>>

\* What a receiver waits for happens.
PacketArrives ==
  /\ events < MaxEvents
  /\ events' = events + 1
  /\ \E t \in Receivers : port' = Append(port, t)
  /\ UNCHANGED <<future, ready, threads, run, pc, ret, cur, arg, posts, polls, counted, runs>>
-----------------------------------------------------------------------------
(***************************************************************************)
(* Threads that do not belong to the executor.                             *)
(***************************************************************************)
OtherWakes(o) ==
  /\ o \in Others /\ At(o, "idle") /\ "wake" \in Calls[o] /\ events < MaxEvents
  /\ events' = events + 1
  /\ \E t \in Tasks : Wake(o, t, "idle")
  /\ UNCHANGED <<fut, threads, port, run, cur, arg, posts, polls, counted, runs>>

OtherCancels(o) ==
  /\ o \in Others /\ At(o, "idle") /\ "cancel" \in Calls[o] /\ events < MaxEvents
  /\ events' = events + 1
  /\ \E t \in Tasks \ {Main} : CancelTask(o, t, "idle")
  /\ UNCHANGED <<fut, threads, port, done, finished, result, cur, posts, polls, counted, runs>>

\* A waker it leaves is not a task's.
OtherJoins(o) ==
  /\ o \in Others /\ At(o, "idle") /\ "join" \in Calls[o] /\ events < MaxEvents
  /\ events' = events + 1
  /\ \E t \in Tasks \ {Main} : PollJoinResult(o, t, NoTask, "idle")
  /\ UNCHANGED <<future, ready, threads, port, done, finished, result, cur, posts, polls, counted, runs>>

\* poll_tasks; its callback wakes a task.
Enter(o) ==
  /\ o \in Others /\ At(o, "idle") /\ "poll_tasks" \in Calls[o] /\ events < MaxEvents
  /\ events' = events + 1
  /\ foreign' = foreign + 1
  /\ Go(o, "callback")
  /\ UNCHANGED <<future, ready, sleeping, notified, port, run, ret, cur, arg, posts, polls, counted, runs>>

Callback(o) ==
  /\ At(o, "callback")
  /\ \E t \in Tasks : Wake(o, t, "pop")
  /\ UNCHANGED <<fut, threads, port, run, cur, arg, posts, polls, counted, counters>>

NoMoreTasks(o) ==
  /\ o \in Others /\ At(o, "pop") /\ ready = <<>>
  /\ polls' = [polls EXCEPT ![o] = 0]
  /\ Go(o, "leave")
  /\ UNCHANGED <<future, ready, threads, port, run, ret, cur, arg, posts, counted, counters>>

\* If every thread slept as it left, and tasks are ready, it wakes one up.
Leave(o) ==
  /\ At(o, "leave")
  /\ foreign' = foreign - 1
  /\ Go(o, IF sleeping = NumThreads /\ notified = 0 /\ foreign = 1 THEN "left" ELSE "idle")
  /\ UNCHANGED <<future, ready, sleeping, notified, port, run, ret, cur, arg, posts, polls, counted, counters>>

Left(o) ==
  /\ At(o, "left")
  /\ Go(o, IF ready = <<>> THEN "idle" ELSE "notify")
  /\ UNCHANGED <<future, ready, threads, port, run, ret, cur, arg, posts, polls, counted, counters>>
-----------------------------------------------------------------------------
(***************************************************************************)
(* SendExecutor::run, join_all and drop.                                   *)
(***************************************************************************)
\* A waker of the main task of an earlier run wakes a task that is done.
SpawnMain ==
  /\ At(Runner, "idle") /\ runs < MaxRuns /\ ~ScopeLocked
  /\ runs' = runs + 1
  /\ bits' = [bits EXCEPT ![Main] = MarkReady(NewFuture)]
  /\ fut' = [fut EXCEPT ![Main] = "future"]
  /\ ready' = Append(ready, Main)
  /\ finished' = finished \ {Main}
  /\ joiner' = [t \in Tasks |-> IF joiner[t] = Main THEN NoTask ELSE joiner[t]]
  /\ result' = FALSE
  /\ Call(Runner, "notify", "start")
  /\ UNCHANGED <<threads, port, done, cur, arg, posts, polls, counted, events>>

CreateWorkerThreads ==
  /\ At(Runner, "start")
  /\ done' = FALSE
  /\ pc' = [th \in Threads |-> IF th \in Workers THEN "pop"
                              ELSE IF th = Runner THEN "monitor" ELSE pc[th]]
  /\ counted' = [th \in Threads |-> FALSE]
  /\ UNCHANGED <<future, ready, threads, port, finished, joiner, result, ret, cur, arg, posts, polls, counters>>

\* wake_one_thread, when tasks stay ready and none is polled; how long that
\* takes is left open.
WakeOneThread ==
  /\ At(Runner, "monitor") /\ ~result /\ ready # <<>>
  /\ sleeping > 0 /\ notified = 0
  /\ TryNotify(Runner)
  /\ ret' = [ret EXCEPT ![Runner] = "monitor"]
  /\ UNCHANGED <<future, ready, sleeping, foreign, port, run, cur, arg, polls, counted, counters>>

\* mark_done, once there is a result, or when the executor is dropped.
MarkDone(from, to) ==
  /\ At(Runner, from)
  /\ done' = TRUE
  /\ Call(Runner, "notify_all", to)
  /\ UNCHANGED <<future, ready, threads, port, finished, joiner, result, cur, arg, posts, polls, counted, counters>>

Finished == result /\ MarkDone("monitor", "join")
Drop == runs > 0 /\ MarkDone("idle", "on_parent_drop")

\* Fault: one notification for all the workers.
NotifyAll_One ==
  /\ At(Runner, "notify_all")
  /\ \/ notified = 0 /\ TryNotify(Runner) /\ UNCHANGED ret
     \/ notified > 0 /\ Return(Runner) /\ UNCHANGED <<notified, posts>>
  /\ UNCHANGED <<future, ready, sleeping, foreign, port, run, cur, arg, polls, counted, counters>>

NotifyAll ==
  /\ At(Runner, "notify_all")
  /\ \/ /\ notified < NumThreads
        /\ notified' = NumThreads
        /\ posts' = [posts EXCEPT ![Runner] = NumThreads - notified]
        /\ Go(Runner, "post")
        /\ UNCHANGED ret
     \/ notified >= NumThreads /\ Return(Runner) /\ UNCHANGED <<notified, posts>>
  /\ UNCHANGED <<future, ready, sleeping, foreign, port, run, cur, arg, polls, counted, counters>>

JoinAll ==
  /\ At(Runner, "join") /\ \A w \in Workers : At(w, "exited")
  /\ Go(Runner, "idle")
  /\ UNCHANGED <<future, ready, threads, port, run, ret, cur, arg, posts, polls, counted, counters>>

\* drop_all_tasks, when there are no other pollers, and the rest of the queue.
OnParentDrop ==
  /\ At(Runner, "on_parent_drop") /\ \A o \in Others : At(o, "idle")
  /\ bits' = [t \in Tasks |-> IF t \in finished THEN bits[t] ELSE TryDrop(bits[t])]
  /\ fut' = [t \in Tasks |-> IF t \in finished \/ "DONE" \in bits[t] THEN fut[t] ELSE "none"]
  /\ joiner' = [t \in Tasks |-> NoTask]
  /\ ready' = <<>>
  /\ Go(Runner, "dropped")
  /\ UNCHANGED <<threads, port, done, finished, result, ret, cur, arg, posts, polls, counted, counters>>
-----------------------------------------------------------------------------
\* What a thread does by itself.
Step(th) ==
  \/ NotifyTaskReady(th) \/ NotifyId(th) \/ TakeTaskResult(th)
  \/ Pop(th) \/ PollReady(th) \/ DidFinish(th) \/ WakeJoiner(th) \/ PollPending(th)
  \/ MoreReady(th) \/ NoneReady(th) \/ Sleep(th) \/ Recheck(th) \/ LostRace(th)
  \/ CheckDone(th) \/ Receive(th) \/ TimedOut(th) \/ WakeUp(th) \/ DeliverPacket(th)
  \/ Callback(th) \/ NoMoreTasks(th) \/ Leave(th) \/ Left(th)

RunnerStep == CreateWorkerThreads \/ Finished \/ NotifyAll \/ JoinAll

Next ==
  \/ \E th \in Threads : Step(th)
  \/ \E th \in Workers \cup Others :
       \/ PollWakes(th) \/ PollCancels(th) \/ PollJoins(th)
       \/ OtherWakes(th) \/ OtherCancels(th) \/ OtherJoins(th) \/ Enter(th)
  \/ RunnerStep \/ SpawnMain \/ WakeOneThread \/ Drop \/ OnParentDrop \/ PacketArrives

Spec == Init /\ [][Next]_vars

FairSpec == Spec /\ WF_vars(RunnerStep) /\ \A th \in Threads : WF_vars(Step(th))
-----------------------------------------------------------------------------
Places == {"idle", "notify", "post", "take", "pop", "poll", "finish", "wake_joiner", "more", "sleep", "recheck",
           "lost_race", "check_done", "wait", "wake_up", "deliver", "exited", "callback", "leave",
           "left", "start", "monitor", "notify_all", "join", "on_parent_drop", "dropped"}

\* Every variable has its type: the counts packed in threads_state never go below
\* zero, which in the code would borrow from the next field of the word.
TypeOK ==
  /\ bits \in [Tasks -> SUBSET Bits] /\ fut \in [Tasks -> {"future", "result", "none"}]
  /\ ready \in Seq(Tasks) /\ port \in Seq(Tasks \cup {Wakeup})
  /\ sleeping \in Nat /\ notified \in Nat /\ foreign \in 0..Cardinality(Others)
  /\ done \in BOOLEAN /\ finished \subseteq Tasks /\ result \in BOOLEAN
  /\ joiner \in [Tasks -> Tasks \cup {NoTask}]
  /\ pc \in [Threads -> Places] /\ ret \in [Threads -> Places]
  /\ cur \in [Threads -> Tasks \cup {NoTask}] /\ arg \in [Threads -> Tasks \cup {NoTask}]
  /\ posts \in [Threads -> 0..NumThreads] /\ polls \in [Threads -> 0..Batch]
  /\ counted \in [Threads -> BOOLEAN]
  /\ events \in 0..MaxEvents /\ runs \in 0..MaxRuns

\* The places of a sequence that hold e.
Occurrences(s, e) == {i \in DOMAIN s : s[i] = e}

\* A task is queued exactly when it is ready and neither polled nor done, and
\* then once, whoever wakes and cancels it meanwhile.  So try_poll never meets a
\* future that is done or being polled.
QueuedOnce ==
  \A t \in Tasks :
    Cardinality(Occurrences(ready, t))
    = IF bits[t] \cap {"INACTIVE", "READY", "DONE"} = {"INACTIVE", "READY"} THEN 1 ELSE 0

\* The threads that poll a task.
Polling(t) == {th \in Threads : cur[th] = t /\ ~At(th, "finish")}

\* What the unsafe code relies on: one thread at a time polls a task, and only
\* between clearing INACTIVE and setting it or DONE again; the future is there
\* until DONE, and the result from then on until it is taken once.
SoleAccess ==
  \A t \in Tasks :
    /\ Cardinality(Polling(t)) <= 1
    /\ Polling(t) # {} <=> bits[t] \cap {"INACTIVE", "DONE"} = {}
    /\ fut[t] = IF "DONE" \notin bits[t] THEN "future"
                ELSE IF HasResult(bits[t]) THEN "result" ELSE "none"

\* The threads in poll_tasks, and the notifications that threads have still to post.
Foreign == {o \in Others : pc[o] \in {"callback", "pop", "poll", "finish", "leave"}
                           \/ ret[o] \in {"pop", "poll", "leave"}}
Unposted == UNION {{<<th, i>> : i \in 1..posts[th]} : th \in Threads}

\* threads_state is exact.  foreign counts the threads in poll_tasks, and notified
\* the notifications on their way: to be posted, on the port, or just taken from
\* it.  In the first run of an executor, sleeping counts the workers that sleep,
\* are about to or not yet awake, or stopped as such, and no more notifications
\* are due than there are workers.
Counted ==
  /\ foreign = Cardinality(Foreign)
  /\ notified = Cardinality(Occurrences(port, Wakeup))
                + Cardinality({w \in Workers : At(w, "wake_up") /\ arg[w] = Wakeup})
                + Cardinality(Unposted)
  /\ runs <= 1 => /\ sleeping = Cardinality({w \in Workers : counted[w]})
                  /\ notified <= NumThreads

\* Tasks are never ready while every worker sleeps, nothing is on the port and
\* no other thread is about to wake one: what notify_task_ready is for.
NoStall ==
  At(Runner, "monitor") /\ ~result /\ ready # <<>>
  => \/ \E w \in Workers : ~At(w, "exited") /\ (At(w, "wait") /\ counted[w] => port # <<>>)
     \/ \E o \in Others : ~At(o, "idle")

\* A task that is ready is polled, unless the run ends or it is cancelled first:
\* no wakeup is lost between a worker that goes to sleep and a thread that wakes
\* a task, without the help of the monitor in run().
ReadyPolled ==
  \A t \in Tasks :
    LET Queued == "CANCELLED" \notin bits[t] /\ \E i \in DOMAIN ready : ready[i] = t
    IN  Queued /\ At(Runner, "monitor") ~> ~Queued \/ result

\* Shutdown: once run() joins the workers they all stop, though some may be about
\* to sleep as mark_done posts its notifications, and others take more than one.
RunReturns == At(Runner, "join") ~> ~At(Runner, "join")
=============================================================================
