---------------------------- MODULE ExecutorProofs ---------------------------
(***************************************************************************)
(* What the executor guarantees for any number of workers, other threads,  *)
(* tasks, events and runs: a task is queued once, polled by one thread at  *)
(* a time, and threads_state is exact.                                     *)
(*                                                                         *)
(* The properties are not inductive by themselves.  They rest on where     *)
(* each kind of thread can be and what it has in hand there (Control), and *)
(* on what run() knows of the main task and of the workers (RunInv).       *)
(***************************************************************************)
EXTENDS Executor, FiniteSetTheorems, SequenceTheorems, TLAPS

WorkerPlaces == {"pop", "poll", "finish", "wake_joiner", "more", "sleep", "recheck", "lost_race", "check_done",
                 "wait", "wake_up", "deliver", "exited", "notify", "post", "take"}
OtherPlaces == {"idle", "notify", "post", "take", "callback", "pop", "poll", "finish",
                "wake_joiner", "leave", "left"}
RunnerPlaces == {"idle", "notify", "post", "start", "monitor", "notify_all", "join",
                 "on_parent_drop", "dropped"}

\* A thread is in a call, and will return from it to ret.
Calling(th) == pc[th] \in {"notify", "post", "take", "wake_joiner", "notify_all"}

\* Where each kind of thread is and returns to.
Place(th) ==
  /\ th \in Workers => /\ pc[th] \in WorkerPlaces
                       /\ ret[th] \in IF Calling(th) THEN {"pop", "poll", "more"} ELSE {"idle"}
  /\ th \in Others => /\ pc[th] \in OtherPlaces
                      /\ ret[th] \in IF Calling(th) THEN {"idle", "pop", "poll", "leave"} ELSE {"idle"}
  /\ th = Runner => /\ pc[th] \in RunnerPlaces
                    /\ pc[th] = "notify" => ret[th] = "start"
                    /\ pc[th] = "post" => ret[th] \in {"start", "monitor", "join", "on_parent_drop"}
                    /\ pc[th] = "notify_all" => ret[th] \in {"join", "on_parent_drop"}
                    /\ ~Calling(th) => ret[th] = "idle"

\* What a thread has in hand: a task while it polls, another to join or to wake,
\* notifications to post.
Hand(th) ==
  /\ cur[th] # NoTask <=> (pc[th] \in {"poll", "finish"} \/ ret[th] = "poll")
  /\ pc[th] \in {"take", "deliver", "wake_joiner"} => arg[th] \in Tasks
  /\ pc[th] = "wake_joiner" => ret[th] \in {"pop", "more", "leave"}
  /\ posts[th] > 0 <=> pc[th] = "post"

\* Which workers count as sleeping.
Sleeper(th) ==
  /\ counted[th] => /\ th \in Workers
                    /\ pc[th] \in {"recheck", "lost_race", "check_done", "wait", "wake_up", "exited"}
  /\ pc[th] \in {"recheck", "lost_race"} => counted[th]

Control == \A th \in Threads : Place(th) /\ Hand(th) /\ Sleeper(th)

\* TypeOK but for the places, which are in Control, and the counts, in CountInv.
TaskType ==
  /\ bits \in [Tasks -> SUBSET Bits] /\ fut \in [Tasks -> {"future", "result", "none"}]
  /\ ready \in Seq(Tasks) /\ port \in Seq(Tasks \cup {Wakeup})
  /\ done \in BOOLEAN /\ finished \subseteq Tasks /\ result \in BOOLEAN
  /\ joiner \in [Tasks -> Tasks \cup {NoTask}]
  /\ events \in 0..MaxEvents /\ runs \in 0..MaxRuns
ThreadType ==
  /\ pc \in [Threads -> Places] /\ ret \in [Threads -> Places]
  /\ cur \in [Threads -> Tasks \cup {NoTask}] /\ arg \in [Threads -> Tasks \cup {NoTask}]
  /\ posts \in [Threads -> 0..NumThreads] /\ polls \in [Threads -> 0..Batch]
  /\ counted \in [Threads -> BOOLEAN]

\* The main task is done when run() has its result, and from then on until the
\* next run; the workers run only between the start of run() and its join.
Starting == pc[Runner] = "start" \/ ret[Runner] = "start"
Ended == pc[Runner] \in {"idle", "notify_all", "join", "on_parent_drop", "dropped"}
         \/ ret[Runner] \in {"join", "on_parent_drop"}
Stopped == pc[Runner] \in {"idle", "on_parent_drop", "dropped"} \/ Starting
           \/ ret[Runner] = "on_parent_drop"
RunInv ==
  /\ result \/ Ended => "DONE" \in bits[Main]
  /\ Stopped => \A w \in Workers : pc[w] = "exited"
  /\ \A t \in finished \ {Main} : "DONE" \in bits[t]
  /\ \A th \in Threads : pc[th] = "finish" /\ cur[th] # Main => "DONE" \in bits[cur[th]]
  /\ runs = 0 => pc[Runner] = "idle"
  /\ runs = 0 \/ (runs = 1 /\ Starting) => \A w \in Workers : ~counted[w]

\* What the state word of a task says: that it is queued, or that it is polled.
Waiting(b) == "INACTIVE" \in b /\ "READY" \in b /\ "DONE" \notin b
Active(b) == "INACTIVE" \notin b /\ "DONE" \notin b

\* The queue has no task twice, and has those that are ready and neither polled
\* nor done.
InQueue(t) == \E i \in 1..Len(ready) : ready[i] = t
QueueInv ==
  /\ \A i, j \in 1..Len(ready) : ready[i] = ready[j] => i = j
  /\ \A t \in Tasks : InQueue(t) <=> Waiting(bits[t])

\* SoleAccess, without the cardinality; a result is taken after it was given.
FutureOf(b) == IF "DONE" \notin b THEN "future" ELSE IF HasResult(b) THEN "result" ELSE "none"
PollInv ==
  \A t \in Tasks :
    /\ \A th, u \in Polling(t) : th = u
    /\ Polling(t) # {} <=> Active(bits[t])
FutureInv ==
  \A t \in Tasks :
    /\ fut[t] = FutureOf(bits[t])
    /\ "RESULT_TAKEN" \in bits[t] => "DONE" \in bits[t]

\* The counts.  Those that sleep are always counted: in later runs sleeping may
\* only be too high.
InPollTasks(o) == pc[o] \in {"callback", "pop", "poll", "finish", "leave"}
                  \/ ret[o] \in {"pop", "poll", "leave"}
ForeignCount == foreign \in Nat /\ foreign = Cardinality(Foreign)

Asleep == {w \in Workers : counted[w]}
SleepCount ==
  /\ sleeping \in Nat /\ sleeping >= Cardinality(Asleep)
  /\ runs <= 1 => sleeping = Cardinality(Asleep)

IsAwoken(w) == pc[w] = "wake_up" /\ arg[w] = Wakeup
Awoken == {w \in Workers : IsAwoken(w)}
NotifyCount ==
  /\ notified \in Nat
  /\ notified = Cardinality(Occurrences(port, Wakeup)) + Cardinality(Awoken) + Cardinality(Unposted)
  /\ runs <= 1 => notified <= NumThreads

CountInv == ForeignCount /\ SleepCount /\ NotifyCount

\* The inductive invariant.
IInv == TaskType /\ ThreadType /\ Control /\ RunInv /\ QueueInv /\ PollInv /\ FutureInv /\ CountInv
-----------------------------------------------------------------------------
\* What the assumption on the constants says of the threads and the tasks.
LEMMA Constants ==
  /\ NumThreads \in Nat \ {0} /\ IsFiniteSet(Workers) /\ IsFiniteSet(Others) /\ IsFiniteSet(Threads)
  /\ Main \in Tasks /\ NoTask \notin Tasks /\ Batch \in Nat \ {0}
  /\ Workers \subseteq Threads /\ Others \subseteq Threads /\ Runner \in Threads
  /\ Runner \notin Workers /\ Runner \notin Others /\ Workers \cap Others = {}
  /\ \A th \in Threads : th \in Workers \/ th \in Others \/ th = Runner
  /\ Receivers \subseteq Tasks /\ MaxEvents \in Nat /\ MaxRuns \in Nat
<1>1. NumThreads \in Nat \ {0}
  BY ExecutorAssumption, FS_CardinalityType, FS_EmptySet DEF NumThreads
<1>2. IsFiniteSet(Threads)
  <2>1. IsFiniteSet(Workers \cup Others) BY ExecutorAssumption, FS_Union
  <2> QED BY <2>1, FS_AddElement DEF Threads
<1> QED BY <1>1, <1>2, ExecutorAssumption DEF Threads

USE DEF At, Go, future, threads, run, counters

\* Only thread th moves.
Only(th) ==
  \A u \in Threads \ {th} :
    /\ pc'[u] = pc[u] /\ ret'[u] = ret[u] /\ cur'[u] = cur[u] /\ arg'[u] = arg[u]
    /\ posts'[u] = posts[u] /\ counted'[u] = counted[u]

\* Control is about each thread by itself: it is enough to look at the one that moves.
LEMMA ControlStep ==
  ASSUME Control, NEW th \in Threads, Only(th), Place(th)', Hand(th)', Sleeper(th)'
  PROVE  Control'
<1> SUFFICES ASSUME NEW u \in Threads PROVE (Place(u) /\ Hand(u) /\ Sleeper(u))'
    BY DEF Control
<1>1. CASE u = th BY <1>1
<1>2. CASE u # th
  <2>1. Place(u)' BY <1>2 DEF Control, Only, Place, Calling
  <2>2. Hand(u)' BY <1>2 DEF Control, Only, Hand
  <2>3. Sleeper(u)' BY <1>2 DEF Control, Only, Sleeper
  <2> QED BY <2>1, <2>2, <2>3
<1> QED BY <1>1, <1>2


\* NotifyTaskReady keeps the types and moves only its thread.
LEMMA NotifyTaskReadyTC ==
  ASSUME TaskType, ThreadType, Control, CountInv, NEW th \in Threads, NotifyTaskReady(th)
  PROVE  TaskType' /\ ThreadType' /\ Control' /\ Only(th)
<1> USE Constants DEF NotifyTaskReady, TryNotify, Return
<1>1. TaskType' BY DEF TaskType
<1>2. ThreadType' BY DEF ThreadType, Places
<1>3. Only(th) BY DEF Only, ThreadType
<1>4. Place(th)'
  BY DEF ThreadType, Control, Place, Hand, Calling, WorkerPlaces, OtherPlaces, RunnerPlaces
<1>5. Hand(th)' BY DEF ThreadType, Control, Place, Hand, Calling
<1>6. Sleeper(th)' BY DEF ThreadType, Control, Place, Sleeper, Calling
<1> QED BY <1>1, <1>2, <1>3, <1>4, <1>5, <1>6, ControlStep

\* NotifyId keeps the types and moves only its thread.
LEMMA NotifyIdTC ==
  ASSUME TaskType, ThreadType, Control, CountInv, NEW th \in Threads, NotifyId(th)
  PROVE  TaskType' /\ ThreadType' /\ Control' /\ Only(th)
<1> USE Constants DEF NotifyId, Return
<1>0. posts[th] \in 1..NumThreads BY DEF ThreadType, Control, Hand
<1>1. TaskType' BY DEF TaskType, Wakeup
<1>2. ThreadType'
  <2>1. posts' \in [Threads -> 0..NumThreads] BY <1>0 DEF ThreadType
  <2>2. pc' \in [Threads -> Places] /\ ret' \in [Threads -> Places] BY ZenonT(30) DEF ThreadType, Places
  <2> QED BY <2>1, <2>2 DEF ThreadType
<1>3. Only(th) BY DEF Only, ThreadType
<1>4. Place(th)'
  BY DEF ThreadType, Control, Place, Hand, Calling, WorkerPlaces, OtherPlaces, RunnerPlaces
<1>5. Hand(th)'
  <2>1. posts'[th] = posts[th] - 1 /\ cur'[th] = cur[th] /\ pc[th] = "post" BY DEF ThreadType
  <2>2. \/ posts[th] > 1 /\ pc'[th] = pc[th] /\ ret'[th] = ret[th]
        \/ posts[th] = 1 /\ pc'[th] = ret[th] /\ ret'[th] = "idle"
    BY <1>0 DEF ThreadType
  <2> HIDE DEF NotifyId
  <2> QED BY <1>0, <2>1, <2>2 DEF Control, Place, Hand, Calling
<1>6. Sleeper(th)' BY DEF ThreadType, Control, Place, Sleeper, Calling
<1> QED BY <1>1, <1>2, <1>3, <1>4, <1>5, <1>6, ControlStep

\* TakeTaskResult keeps the types and moves only its thread.
LEMMA TakeTaskResultTC ==
  ASSUME TaskType, ThreadType, Control, CountInv, NEW th \in Threads, TakeTaskResult(th)
  PROVE  TaskType' /\ ThreadType' /\ Control' /\ Only(th)
<1> USE Constants DEF TakeTaskResult, Return
<1>1. TaskType' BY DEF TaskType, TakeResult, Bits
<1>2. ThreadType' BY DEF ThreadType, Places
<1>3. Only(th) BY DEF Only, ThreadType
<1>4. Place(th)'
  BY DEF ThreadType, Control, Place, Hand, Calling, WorkerPlaces, OtherPlaces, RunnerPlaces
<1>5. Hand(th)'
  <2>1. /\ pc'[th] = ret[th] /\ ret'[th] = "idle" /\ posts'[th] = posts[th] /\ cur'[th] = cur[th]
        /\ pc[th] = "take"
    BY DEF ThreadType
  <2> HIDE DEF TakeTaskResult
  <2> QED BY <2>1 DEF Control, Place, Hand, Calling, RunnerPlaces
<1>6. Sleeper(th)'
  <2>1. pc'[th] = ret[th] /\ counted' = counted /\ pc[th] = "take" BY DEF ThreadType
  <2> HIDE DEF TakeTaskResult
  <2> QED BY <2>1 DEF Control, Place, Sleeper, Calling, RunnerPlaces
<1> QED BY <1>1, <1>2, <1>3, <1>4, <1>5, <1>6, ControlStep

\* Pop keeps the types and moves only its thread.
LEMMA PopTC ==
  ASSUME TaskType, ThreadType, Control, CountInv, NEW th \in Threads, Pop(th)
  PROVE  TaskType' /\ ThreadType' /\ Control' /\ Only(th)
<1> USE Constants DEF Pop
<1>0. Head(ready) \in Tasks /\ Tail(ready) \in Seq(Tasks) BY DEF TaskType
<1>1. TaskType'
  <2>1. Claim(bits[Head(ready)]) \subseteq Bits /\ DropFuture(Claim(bits[Head(ready)])) \subseteq Bits
    BY <1>0 DEF TaskType, Claim, DropFuture, Bits
  <2>2. fut' \in [Tasks -> {"future", "result", "none"}] BY <1>0 DEF TaskType
  <2>3. bits' \in [Tasks -> SUBSET Bits] BY <1>0, <2>1 DEF TaskType
  <2> QED BY <1>0, <2>2, <2>3 DEF TaskType
<1>2. ThreadType'
  <2>1. cur' \in [Threads -> Tasks \cup {NoTask}] BY <1>0 DEF ThreadType
  <2>2. pc' \in [Threads -> Places] BY ZenonT(30) DEF ThreadType, Places
  <2> QED BY <2>1, <2>2 DEF ThreadType
<1>3. Only(th) BY DEF Only, ThreadType
<1>4. Place(th)'
  BY DEF ThreadType, Control, Place, Hand, Calling, WorkerPlaces, OtherPlaces, RunnerPlaces
<1>5. Hand(th)'
  <2>1. /\ pc'[th] \in {"poll", "finish"} /\ ret'[th] = ret[th] /\ posts'[th] = posts[th]
        /\ cur'[th] \in Tasks /\ pc[th] = "pop"
    BY <1>0 DEF ThreadType
  <2> HIDE DEF Pop
  <2> QED BY <2>1 DEF Control, Place, Hand, Calling
<1>6. Sleeper(th)' BY DEF ThreadType, Control, Place, Sleeper, Calling
<1> QED BY <1>1, <1>2, <1>3, <1>4, <1>5, <1>6, ControlStep

\* PollReady keeps the types and moves only its thread.
LEMMA PollReadyTC ==
  ASSUME TaskType, ThreadType, Control, CountInv, NEW th \in Threads, PollReady(th)
  PROVE  TaskType' /\ ThreadType' /\ Control' /\ Only(th)
<1> USE Constants DEF PollReady
<1>1. TaskType' BY DEF TaskType, Complete, Bits
<1>2. ThreadType' BY DEF ThreadType, Places
<1>3. Only(th) BY DEF Only, ThreadType
<1>4. Place(th)'
  BY DEF ThreadType, Control, Place, Hand, Calling, WorkerPlaces, OtherPlaces, RunnerPlaces
<1>5. Hand(th)' BY DEF ThreadType, Control, Place, Hand, Calling
<1>6. Sleeper(th)' BY DEF ThreadType, Control, Place, Sleeper, Calling
<1> QED BY <1>1, <1>2, <1>3, <1>4, <1>5, <1>6, ControlStep

\* DidFinish moves its thread to where it goes on, or has it wake the joiner first.
LEMMA DidFinishEffect ==
  ASSUME TaskType, ThreadType, Control, NEW th \in Threads, DidFinish(th)
  PROVE  /\ pc[th] = "finish" /\ th \in Workers \cup Others /\ cur[th] \in Tasks
         /\ cur' = [cur EXCEPT ![th] = NoTask] /\ ret[th] = "idle"
         /\ polls' \in [Threads -> 0..Batch] /\ joiner' \in [Tasks -> Tasks \cup {NoTask}]
         /\ UNCHANGED <<bits, fut, ready, foreign, sleeping, notified, port, done, result, posts, counted, events,
                        runs>>
         /\ finished' = finished \cup {cur[th]}
         /\ \E p \in {"pop", "more", "leave", "exited"} :
              /\ th \in Workers => p # "leave"
              /\ th \in Others => p \in {"pop", "leave"}
              /\ \/ pc' = [pc EXCEPT ![th] = p] /\ ret' = ret /\ arg' = arg
                 \/ /\ p # "exited" /\ pc' = [pc EXCEPT ![th] = "wake_joiner"] /\ ret' = [ret EXCEPT ![th] = p]
                    /\ \E j \in Tasks : arg' = [arg EXCEPT ![th] = j]
<1> USE Constants
<1>1. /\ pc[th] = "finish" /\ th \in Workers \cup Others /\ cur[th] \in Tasks /\ ret[th] = "idle"
  BY DEF DidFinish, ThreadType, Control, Place, Hand, Calling, RunnerPlaces
<1>2. cur' = [cur EXCEPT ![th] = NoTask] /\ finished' = finished \cup {cur[th]} BY DEF DidFinish, Polled
<1>3. polls' \in [Threads -> 0..Batch]
  <2>1. PICK n \in 0..Batch : polls' = [polls EXCEPT ![th] = n] BY DEF DidFinish, Polled, ThreadType
  <2> QED BY <2>1 DEF ThreadType
<1>4. joiner' \in [Tasks -> Tasks \cup {NoTask}] BY <1>1 DEF DidFinish, TaskType
<1>5. UNCHANGED <<bits, fut, ready, foreign, sleeping, notified, port, done, result, posts, counted, events, runs>>
  BY DEF DidFinish
<1>6. PICK q \in {"pop", "more", "leave"} :
        q = AfterPoll(th) /\ (th \in Workers => q # "leave") /\ (th \in Others => q # "more")
  BY DEF AfterPoll
<1>7. PICK x \in {"exited", "leave"} :
        /\ x = IF th \in Workers THEN "exited" ELSE "leave"
        /\ (th \in Workers => x # "leave") /\ (th \in Others => x # "exited")
  OBVIOUS
<1>8. joiner[cur[th]] # NoTask => joiner[cur[th]] \in Tasks BY <1>1 DEF TaskType
<1>9. \/ pc' = [pc EXCEPT ![th] = q] /\ ret' = ret /\ arg' = arg
      \/ /\ pc' = [pc EXCEPT ![th] = "wake_joiner"] /\ ret' = [ret EXCEPT ![th] = q]
         /\ joiner[cur[th]] \in Tasks /\ arg' = [arg EXCEPT ![th] = joiner[cur[th]]]
      \/ pc' = [pc EXCEPT ![th] = x] /\ ret' = ret /\ arg' = arg
  BY <1>6, <1>7, <1>8 DEF DidFinish, Call
<1>10. \E p \in {"pop", "more", "leave", "exited"} :
         /\ th \in Workers => p # "leave"
         /\ th \in Others => p \in {"pop", "leave"}
         /\ \/ pc' = [pc EXCEPT ![th] = p] /\ ret' = ret /\ arg' = arg
            \/ /\ p # "exited" /\ pc' = [pc EXCEPT ![th] = "wake_joiner"] /\ ret' = [ret EXCEPT ![th] = p]
               /\ \E j \in Tasks : arg' = [arg EXCEPT ![th] = j]
  BY <1>6, <1>7, <1>9, Zenon
<1> QED BY <1>1, <1>2, <1>3, <1>4, <1>5, <1>10

\* DidFinish keeps the types and moves only its thread.
LEMMA DidFinishTC ==
  ASSUME TaskType, ThreadType, Control, CountInv, NEW th \in Threads, DidFinish(th)
  PROVE  TaskType' /\ ThreadType' /\ Control' /\ Only(th)
<1> USE Constants
<1>0. /\ pc[th] = "finish" /\ th \in Workers \cup Others /\ cur[th] \in Tasks
      /\ cur' = [cur EXCEPT ![th] = NoTask] /\ ret[th] = "idle"
      /\ polls' \in [Threads -> 0..Batch] /\ joiner' \in [Tasks -> Tasks \cup {NoTask}]
      /\ UNCHANGED <<bits, fut, ready, foreign, sleeping, notified, port, done, result, posts, counted, events, runs>>
      /\ finished' = finished \cup {cur[th]}
  BY DidFinishEffect
<1>1. PICK p \in {"pop", "more", "leave", "exited"} :
        /\ th \in Workers => p # "leave"
        /\ th \in Others => p \in {"pop", "leave"}
        /\ \/ pc' = [pc EXCEPT ![th] = p] /\ ret' = ret /\ arg' = arg
           \/ /\ p # "exited" /\ pc' = [pc EXCEPT ![th] = "wake_joiner"] /\ ret' = [ret EXCEPT ![th] = p]
              /\ \E j \in Tasks : arg' = [arg EXCEPT ![th] = j]
  BY DidFinishEffect
<1>2. TaskType' BY <1>0 DEF TaskType
<1>3. ThreadType' BY <1>0, <1>1 DEF ThreadType, Places
<1>4. Only(th) BY <1>0, <1>1 DEF Only, ThreadType
<1>5. /\ cur'[th] = NoTask /\ posts' = posts /\ counted' = counted
      /\ \/ pc'[th] = p /\ ret'[th] = "idle"
         \/ p # "exited" /\ pc'[th] = "wake_joiner" /\ ret'[th] = p /\ arg'[th] \in Tasks
  BY <1>0, <1>1 DEF ThreadType
<1>6. Place(th)' BY <1>0, <1>1, <1>5 DEF Place, Calling, WorkerPlaces, OtherPlaces
<1>7. Hand(th)' BY <1>0, <1>1, <1>5 DEF Control, Hand
<1>8. Sleeper(th)' BY <1>0, <1>1, <1>5 DEF Control, Sleeper
<1> QED BY <1>2, <1>3, <1>4, <1>6, <1>7, <1>8, ControlStep

\* PollPending keeps the types and moves only its thread.
LEMMA PollPendingTC ==
  ASSUME TaskType, ThreadType, Control, CountInv, NEW th \in Threads, PollPending(th)
  PROVE  TaskType' /\ ThreadType' /\ Control' /\ Only(th)
<1> USE Constants DEF PollPending, Polled, AfterPoll
<1>0. cur[th] \in Tasks BY DEF ThreadType, Control, Hand
<1>1. TaskType'
  <2>1. bits' \in [Tasks -> SUBSET Bits] BY <1>0 DEF TaskType, Release, Bits
  <2>2. ready' \in Seq(Tasks) BY <1>0 DEF TaskType
  <2> QED BY <2>1, <2>2 DEF TaskType
<1>2. ThreadType'
  <2>1. cur' \in [Threads -> Tasks \cup {NoTask}] BY DEF ThreadType
  <2>2. /\ pc' = [pc EXCEPT ![th] = IF polls[th] + 1 < Batch THEN "pop"
                                 ELSE IF th \in Workers THEN "more" ELSE "leave"]
        /\ polls' = [polls EXCEPT ![th] = IF polls[th] + 1 < Batch THEN polls[th] + 1 ELSE 0]
    BY DEF ThreadType
  <2>3. pc' \in [Threads -> Places] /\ polls' \in [Threads -> 0..Batch]
    <3> HIDE DEF PollPending
    <3> QED BY <2>2 DEF ThreadType, Places
  <2> QED BY <2>1, <2>2, <2>3 DEF ThreadType
<1>3. Only(th) BY DEF Only, ThreadType
<1>4. Place(th)'
  BY DEF ThreadType, Control, Place, Hand, Calling, WorkerPlaces, OtherPlaces, RunnerPlaces
<1>5. Hand(th)' BY DEF ThreadType, Control, Place, Hand, Calling
<1>6. Sleeper(th)' BY DEF ThreadType, Control, Place, Sleeper, Calling
<1> QED BY <1>1, <1>2, <1>3, <1>4, <1>5, <1>6, ControlStep

\* MoreReady keeps the types and moves only its thread.
LEMMA MoreReadyTC ==
  ASSUME TaskType, ThreadType, Control, CountInv, NEW th \in Threads, MoreReady(th)
  PROVE  TaskType' /\ ThreadType' /\ Control' /\ Only(th)
<1> USE Constants DEF MoreReady, TryNotify
<1>1. TaskType' BY DEF TaskType
<1>2. ThreadType' BY DEF ThreadType, Places
<1>3. Only(th) BY DEF Only, ThreadType
<1>4. Place(th)'
  BY DEF ThreadType, Control, Place, Hand, Calling, WorkerPlaces, OtherPlaces, RunnerPlaces
<1>5. Hand(th)' BY DEF ThreadType, Control, Place, Hand, Calling
<1>6. Sleeper(th)' BY DEF ThreadType, Control, Place, Sleeper, Calling
<1> QED BY <1>1, <1>2, <1>3, <1>4, <1>5, <1>6, ControlStep

\* NoneReady keeps the types and moves only its thread.
LEMMA NoneReadyTC ==
  ASSUME TaskType, ThreadType, Control, CountInv, NEW th \in Threads, NoneReady(th)
  PROVE  TaskType' /\ ThreadType' /\ Control' /\ Only(th)
<1> USE Constants DEF NoneReady
<1>1. TaskType' BY DEF TaskType
<1>2. ThreadType' BY DEF ThreadType, Places
<1>3. Only(th) BY DEF Only, ThreadType
<1>4. Place(th)'
  BY DEF ThreadType, Control, Place, Hand, Calling, WorkerPlaces, OtherPlaces, RunnerPlaces
<1>5. Hand(th)' BY DEF ThreadType, Control, Place, Hand, Calling
<1>6. Sleeper(th)' BY DEF ThreadType, Control, Place, Sleeper, Calling
<1> QED BY <1>1, <1>2, <1>3, <1>4, <1>5, <1>6, ControlStep

\* Sleep keeps the types and moves only its thread.
LEMMA SleepTC ==
  ASSUME TaskType, ThreadType, Control, CountInv, NEW th \in Threads, Sleep(th)
  PROVE  TaskType' /\ ThreadType' /\ Control' /\ Only(th)
<1> USE Constants DEF Sleep
<1>1. TaskType' BY DEF TaskType
<1>2. ThreadType' BY DEF ThreadType, Places
<1>3. Only(th) BY DEF Only, ThreadType
<1>4. Place(th)'
  BY DEF ThreadType, Control, Place, Hand, Calling, WorkerPlaces, OtherPlaces, RunnerPlaces
<1>5. Hand(th)' BY DEF ThreadType, Control, Place, Hand, Calling
<1>6. Sleeper(th)'
  BY DEF ThreadType, Control, Place, Sleeper, OtherPlaces, RunnerPlaces
<1> QED BY <1>1, <1>2, <1>3, <1>4, <1>5, <1>6, ControlStep

\* Recheck keeps the types and moves only its thread.
LEMMA RecheckTC ==
  ASSUME TaskType, ThreadType, Control, CountInv, NEW th \in Threads, Recheck(th)
  PROVE  TaskType' /\ ThreadType' /\ Control' /\ Only(th)
<1> USE Constants DEF Recheck
<1>1. TaskType' BY DEF TaskType
<1>2. ThreadType' BY DEF ThreadType, Places
<1>3. Only(th) BY DEF Only, ThreadType
<1>4. Place(th)'
  BY DEF ThreadType, Control, Place, Hand, Calling, WorkerPlaces, OtherPlaces, RunnerPlaces
<1>5. Hand(th)' BY DEF ThreadType, Control, Place, Hand, Calling
<1>6. Sleeper(th)' BY DEF ThreadType, Control, Place, Sleeper, Calling
<1> QED BY <1>1, <1>2, <1>3, <1>4, <1>5, <1>6, ControlStep

\* LostRace keeps the types and moves only its thread.
LEMMA LostRaceTC ==
  ASSUME TaskType, ThreadType, Control, CountInv, NEW th \in Threads, LostRace(th)
  PROVE  TaskType' /\ ThreadType' /\ Control' /\ Only(th)
<1> USE Constants DEF LostRace
<1>1. TaskType' BY DEF TaskType
<1>2. ThreadType' BY DEF ThreadType, Places
<1>3. Only(th) BY DEF Only, ThreadType
<1>4. Place(th)'
  BY DEF ThreadType, Control, Place, Hand, Calling, WorkerPlaces, OtherPlaces, RunnerPlaces
<1>5. Hand(th)' BY DEF ThreadType, Control, Place, Hand, Calling
<1>6. Sleeper(th)' BY DEF ThreadType, Control, Place, Sleeper, Calling
<1> QED BY <1>1, <1>2, <1>3, <1>4, <1>5, <1>6, ControlStep

\* CheckDone keeps the types and moves only its thread.
LEMMA CheckDoneTC ==
  ASSUME TaskType, ThreadType, Control, CountInv, NEW th \in Threads, CheckDone(th)
  PROVE  TaskType' /\ ThreadType' /\ Control' /\ Only(th)
<1> USE Constants DEF CheckDone
<1>1. TaskType' BY DEF TaskType
<1>2. ThreadType' BY DEF ThreadType, Places
<1>3. Only(th) BY DEF Only, ThreadType
<1>4. Place(th)'
  BY DEF ThreadType, Control, Place, Hand, Calling, WorkerPlaces, OtherPlaces, RunnerPlaces
<1>5. Hand(th)' BY DEF ThreadType, Control, Place, Hand, Calling
<1>6. Sleeper(th)' BY DEF ThreadType, Control, Place, Sleeper, Calling
<1> QED BY <1>1, <1>2, <1>3, <1>4, <1>5, <1>6, ControlStep

\* Receive keeps the types and moves only its thread.
LEMMA ReceiveTC ==
  ASSUME TaskType, ThreadType, Control, CountInv, NEW th \in Threads, Receive(th)
  PROVE  TaskType' /\ ThreadType' /\ Control' /\ Only(th)
<1> USE Constants DEF Receive, Wakeup
<1>0. Head(port) \in Tasks \cup {NoTask} BY DEF TaskType
<1>1. TaskType' BY DEF TaskType
<1>2. ThreadType' BY <1>0 DEF ThreadType, Places
<1>3. Only(th) BY DEF Only, ThreadType
<1>4. Place(th)'
  BY DEF ThreadType, Control, Place, Hand, Calling, WorkerPlaces, OtherPlaces, RunnerPlaces
<1>5. Hand(th)' BY DEF ThreadType, Control, Place, Hand, Calling
<1>6. Sleeper(th)' BY DEF ThreadType, Control, Place, Sleeper, Calling
<1> QED BY <1>1, <1>2, <1>3, <1>4, <1>5, <1>6, ControlStep

\* TimedOut keeps the types and moves only its thread.
LEMMA TimedOutTC ==
  ASSUME TaskType, ThreadType, Control, CountInv, NEW th \in Threads, TimedOut(th)
  PROVE  TaskType' /\ ThreadType' /\ Control' /\ Only(th)
<1> USE Constants DEF TimedOut
<1>1. TaskType' BY DEF TaskType
<1>2. ThreadType' BY DEF ThreadType, Places
<1>3. Only(th) BY DEF Only, ThreadType
<1>4. Place(th)'
  BY DEF ThreadType, Control, Place, Hand, Calling, WorkerPlaces, OtherPlaces, RunnerPlaces
<1>5. Hand(th)' BY DEF ThreadType, Control, Place, Hand, Calling
<1>6. Sleeper(th)' BY DEF ThreadType, Control, Place, Sleeper, Calling
<1> QED BY <1>1, <1>2, <1>3, <1>4, <1>5, <1>6, ControlStep

\* WakeUp keeps the types and moves only its thread.
LEMMA WakeUpTC ==
  ASSUME TaskType, ThreadType, Control, CountInv, NEW th \in Threads, WakeUp(th)
  PROVE  TaskType' /\ ThreadType' /\ Control' /\ Only(th)
<1> USE Constants DEF WakeUp
<1>1. TaskType' BY DEF TaskType
<1>2. ThreadType' BY DEF ThreadType, Places
<1>3. Only(th) BY DEF Only, ThreadType
<1>4. Place(th)'
  BY DEF ThreadType, Control, Place, Hand, Calling, WorkerPlaces, OtherPlaces, RunnerPlaces
<1>5. Hand(th)' BY DEF Wakeup, ThreadType, Control, Place, Hand, Calling
<1>6. Sleeper(th)' BY DEF ThreadType, Control, Place, Sleeper, Calling
<1> QED BY <1>1, <1>2, <1>3, <1>4, <1>5, <1>6, ControlStep

\* NoMoreTasks keeps the types and moves only its thread.
LEMMA NoMoreTasksTC ==
  ASSUME TaskType, ThreadType, Control, CountInv, NEW th \in Threads, NoMoreTasks(th)
  PROVE  TaskType' /\ ThreadType' /\ Control' /\ Only(th)
<1> USE Constants DEF NoMoreTasks
<1>1. TaskType' BY DEF TaskType
<1>2. ThreadType' BY DEF ThreadType, Places
<1>3. Only(th) BY DEF Only, ThreadType
<1>4. Place(th)'
  BY DEF ThreadType, Control, Place, Hand, Calling, WorkerPlaces, OtherPlaces, RunnerPlaces
<1>5. Hand(th)' BY DEF ThreadType, Control, Place, Hand, Calling
<1>6. Sleeper(th)' BY DEF ThreadType, Control, Place, Sleeper, Calling
<1> QED BY <1>1, <1>2, <1>3, <1>4, <1>5, <1>6, ControlStep

\* Leave keeps the types and moves only its thread.
LEMMA LeaveTC ==
  ASSUME TaskType, ThreadType, Control, CountInv, NEW th \in Threads, Leave(th)
  PROVE  TaskType' /\ ThreadType' /\ Control' /\ Only(th)
<1> USE Constants DEF Leave
<1>1. TaskType' BY DEF TaskType
<1>2. ThreadType' BY DEF ThreadType, Places
<1>3. Only(th) BY DEF Only, ThreadType
<1>4. Place(th)'
  BY DEF ThreadType, Control, Place, Hand, Calling, WorkerPlaces, OtherPlaces, RunnerPlaces
<1>5. Hand(th)' BY DEF ThreadType, Control, Place, Hand, Calling
<1>6. Sleeper(th)' BY DEF ThreadType, Control, Place, Sleeper, Calling
<1> QED BY <1>1, <1>2, <1>3, <1>4, <1>5, <1>6, ControlStep

\* Left keeps the types and moves only its thread.
LEMMA LeftTC ==
  ASSUME TaskType, ThreadType, Control, CountInv, NEW th \in Threads, Left(th)
  PROVE  TaskType' /\ ThreadType' /\ Control' /\ Only(th)
<1> USE Constants DEF Left
<1>1. TaskType' BY DEF TaskType
<1>2. ThreadType' BY DEF ThreadType, Places
<1>3. Only(th) BY DEF Only, ThreadType
<1>4. Place(th)'
  BY DEF ThreadType, Control, Place, Hand, Calling, WorkerPlaces, OtherPlaces, RunnerPlaces
<1>5. Hand(th)' BY DEF ThreadType, Control, Place, Hand, Calling
<1>6. Sleeper(th)' BY DEF ThreadType, Control, Place, Sleeper, Calling
<1> QED BY <1>1, <1>2, <1>3, <1>4, <1>5, <1>6, ControlStep

\* Where a thread may be that joins a task, and where it goes on: to take its
\* result, or on as before when it has left a waker.
JoinMoves(th) ==
  /\ pc[th] = "poll" \/ (th \in Others /\ pc[th] = "idle")
  /\ \/ UNCHANGED <<pc, ret, arg>>
     \/ /\ pc' = [pc EXCEPT ![th] = "take"] /\ ret' = [ret EXCEPT ![th] = pc[th]]
        /\ \E t \in Tasks : arg' = [arg EXCEPT ![th] = t]

\* What a join leaves alone.
JoinKeeps ==
  UNCHANGED <<bits, fut, ready, threads, port, done, finished, result, cur, posts, polls, counted, runs>>

\* A join takes the result of a task or leaves a waker.
LEMMA JoinEffect ==
  ASSUME TaskType, ThreadType, Control, NEW th \in Threads, PollJoins(th) \/ OtherJoins(th)
  PROVE  /\ joiner' \in [Tasks -> Tasks \cup {NoTask}] /\ events' \in 0..MaxEvents
         /\ JoinMoves(th) /\ JoinKeeps
<1>1. CASE PollJoins(th)
  <2>1. pc[th] = "poll" /\ cur[th] \in Tasks BY <1>1, Constants DEF PollJoins, ThreadType, Control, Hand
  <2>2. PICK t \in Tasks : PollJoinResult(th, t, cur[th], "poll") BY <1>1 DEF PollJoins
  <2>3. joiner' \in [Tasks -> Tasks \cup {NoTask}] BY <2>1, <2>2 DEF PollJoinResult, TaskType
  <2>4. events' \in 0..MaxEvents BY <1>1, Constants DEF PollJoins, TaskType
  <2>5. JoinMoves(th) BY <2>1, <2>2 DEF JoinMoves, PollJoinResult, Call
  <2>6. JoinKeeps BY <1>1 DEF JoinKeeps, PollJoins
  <2> QED BY <2>3, <2>4, <2>5, <2>6
<1>2. CASE OtherJoins(th)
  <2>1. pc[th] = "idle" /\ th \in Others BY <1>2 DEF OtherJoins
  <2>2. PICK t \in Tasks : PollJoinResult(th, t, NoTask, "idle") BY <1>2 DEF OtherJoins
  <2>3. joiner' \in [Tasks -> Tasks \cup {NoTask}] BY <2>2 DEF PollJoinResult, TaskType
  <2>4. events' \in 0..MaxEvents BY <1>2, Constants DEF OtherJoins, TaskType
  <2>5. JoinMoves(th) BY <2>1, <2>2 DEF JoinMoves, PollJoinResult, Call
  <2>6. JoinKeeps BY <1>2 DEF JoinKeeps, OtherJoins
  <2> QED BY <2>3, <2>4, <2>5, <2>6
<1> QED BY <1>1, <1>2

\* It keeps the types and moves only its thread, a worker or another one.
LEMMA JoinTC ==
  ASSUME TaskType, ThreadType, Control, NEW th \in Threads, PollJoins(th) \/ OtherJoins(th)
  PROVE  TaskType' /\ ThreadType' /\ Control' /\ Only(th) /\ th # Runner /\ ret[th] = "idle"
<1>1. joiner' \in [Tasks -> Tasks \cup {NoTask}] /\ events' \in 0..MaxEvents /\ JoinMoves(th) /\ JoinKeeps
  BY JoinEffect
<1>2. th \in Workers \cup Others /\ ret[th] = "idle" /\ th # Runner
  BY <1>1, Constants DEF JoinMoves, Control, Place, Calling, RunnerPlaces
<1>3. TaskType' BY <1>1 DEF JoinKeeps, TaskType
<1>4. ThreadType' BY <1>1 DEF JoinMoves, JoinKeeps, ThreadType, Places
<1>5. Only(th) BY <1>1 DEF JoinMoves, JoinKeeps, Only, ThreadType
<1>6. \/ pc'[th] = pc[th] /\ ret'[th] = ret[th] /\ arg'[th] = arg[th]
      \/ pc'[th] = "take" /\ ret'[th] = pc[th] /\ arg'[th] \in Tasks
  BY <1>1 DEF JoinMoves, ThreadType
<1>7. /\ pc[th] = "poll" \/ (th \in Others /\ pc[th] = "idle")
      /\ cur' = cur /\ posts' = posts /\ counted' = counted
  BY <1>1 DEF JoinMoves, JoinKeeps
<1>8. Place(th)' BY <1>2, <1>6, <1>7, Constants DEF Control, Place, Calling, WorkerPlaces, OtherPlaces
<1>9. Hand(th)' BY <1>2, <1>6, <1>7 DEF Control, Hand
<1>10. Sleeper(th)' BY <1>6, <1>7 DEF Control, Sleeper
<1> QED BY <1>2, <1>3, <1>4, <1>5, <1>8, <1>9, <1>10, ControlStep

\* Enter keeps the types and moves only its thread.
LEMMA EnterTC ==
  ASSUME TaskType, ThreadType, Control, CountInv, NEW th \in Threads, Enter(th)
  PROVE  TaskType' /\ ThreadType' /\ Control' /\ Only(th)
<1> USE Constants DEF Enter
<1>1. TaskType' BY DEF TaskType
<1>2. ThreadType' BY DEF ThreadType, Places
<1>3. Only(th) BY DEF Only, ThreadType
<1>4. Place(th)'
  BY DEF ThreadType, Control, Place, Hand, Calling, WorkerPlaces, OtherPlaces, RunnerPlaces
<1>5. Hand(th)' BY DEF ThreadType, Control, Place, Hand, Calling
<1>6. Sleeper(th)' BY DEF ThreadType, Control, Place, Sleeper, Calling
<1> QED BY <1>1, <1>2, <1>3, <1>4, <1>5, <1>6, ControlStep

\* Finished keeps the types and moves only its thread.
LEMMA FinishedTC ==
  ASSUME TaskType, ThreadType, Control, CountInv, Finished
  PROVE  TaskType' /\ ThreadType' /\ Control' /\ Only(Runner)
<1> USE Constants DEF Finished, MarkDone, Call
<1>1. TaskType' BY DEF TaskType
<1>2. ThreadType' BY DEF ThreadType, Places
<1>3. Only(Runner) BY DEF Only, ThreadType
<1>4. Place(Runner)'
  BY DEF ThreadType, Control, Place, Hand, Calling, WorkerPlaces, OtherPlaces, RunnerPlaces
<1>5. Hand(Runner)' BY DEF ThreadType, Control, Place, Hand, Calling
<1>6. Sleeper(Runner)' BY DEF ThreadType, Control, Place, Sleeper, Calling
<1> QED BY <1>1, <1>2, <1>3, <1>4, <1>5, <1>6, ControlStep

\* NotifyAll keeps the types and moves only its thread.
LEMMA NotifyAllTC ==
  ASSUME TaskType, ThreadType, Control, CountInv, NotifyAll
  PROVE  TaskType' /\ ThreadType' /\ Control' /\ Only(Runner)
<1> USE Constants DEF NotifyAll, Return, CountInv, NotifyCount
<1>1. TaskType' BY DEF TaskType
<1>2. ThreadType' BY DEF ThreadType, Places
<1>3. Only(Runner) BY DEF Only, ThreadType
<1>4. Place(Runner)'
  BY DEF ThreadType, Control, Place, Hand, Calling, WorkerPlaces, OtherPlaces, RunnerPlaces
<1>5. Hand(Runner)' BY DEF ThreadType, Control, Place, Hand, Calling
<1>6. Sleeper(Runner)' BY DEF ThreadType, Control, Place, Sleeper, Calling
<1> QED BY <1>1, <1>2, <1>3, <1>4, <1>5, <1>6, ControlStep

\* JoinAll keeps the types and moves only its thread.
LEMMA JoinAllTC ==
  ASSUME TaskType, ThreadType, Control, CountInv, JoinAll
  PROVE  TaskType' /\ ThreadType' /\ Control' /\ Only(Runner)
<1> USE Constants DEF JoinAll
<1>1. TaskType' BY DEF TaskType
<1>2. ThreadType' BY DEF ThreadType, Places
<1>3. Only(Runner) BY DEF Only, ThreadType
<1>4. Place(Runner)'
  BY DEF ThreadType, Control, Place, Hand, Calling, WorkerPlaces, OtherPlaces, RunnerPlaces
<1>5. Hand(Runner)' BY DEF ThreadType, Control, Place, Hand, Calling
<1>6. Sleeper(Runner)' BY DEF ThreadType, Control, Place, Sleeper, Calling
<1> QED BY <1>1, <1>2, <1>3, <1>4, <1>5, <1>6, ControlStep

\* SpawnMain keeps the types and moves only its thread.
LEMMA SpawnMainTC ==
  ASSUME TaskType, ThreadType, Control, CountInv, SpawnMain
  PROVE  TaskType' /\ ThreadType' /\ Control' /\ Only(Runner)
<1> USE Constants DEF SpawnMain, Call
<1>1. TaskType'
  <2>1. bits' \in [Tasks -> SUBSET Bits] BY DEF TaskType, MarkReady, NewFuture, Bits
  <2>2. ready' \in Seq(Tasks) /\ runs' \in 0..MaxRuns BY DEF TaskType
  <2> QED BY <2>1, <2>2 DEF TaskType
<1>2. ThreadType' BY DEF ThreadType, Places
<1>3. Only(Runner) BY DEF Only, ThreadType
<1>4. Place(Runner)'
  BY DEF ThreadType, Control, Place, Hand, Calling, WorkerPlaces, OtherPlaces, RunnerPlaces
<1>5. Hand(Runner)' BY DEF ThreadType, Control, Place, Hand, Calling
<1>6. Sleeper(Runner)' BY DEF ThreadType, Control, Place, Sleeper, Calling
<1> QED BY <1>1, <1>2, <1>3, <1>4, <1>5, <1>6, ControlStep

\* WakeOneThread keeps the types and moves only its thread.
LEMMA WakeOneThreadTC ==
  ASSUME TaskType, ThreadType, Control, CountInv, WakeOneThread
  PROVE  TaskType' /\ ThreadType' /\ Control' /\ Only(Runner)
<1> USE Constants DEF WakeOneThread, TryNotify
<1>1. TaskType' BY DEF TaskType
<1>2. ThreadType' BY DEF ThreadType, Places
<1>3. Only(Runner) BY DEF Only, ThreadType
<1>4. Place(Runner)'
  BY DEF ThreadType, Control, Place, Hand, Calling, WorkerPlaces, OtherPlaces, RunnerPlaces
<1>5. Hand(Runner)'
  <2>1. /\ pc[Runner] = "monitor" /\ pc'[Runner] = "post" /\ ret'[Runner] = "monitor"
        /\ posts'[Runner] = 1 /\ cur' = cur
    BY DEF ThreadType
  <2> HIDE DEF WakeOneThread
  <2> QED BY <2>1 DEF Control, Place, Hand, Calling
<1>6. Sleeper(Runner)' BY DEF ThreadType, Control, Place, Sleeper, Calling
<1> QED BY <1>1, <1>2, <1>3, <1>4, <1>5, <1>6, ControlStep

\* Drop keeps the types and moves only its thread.
LEMMA DropTC ==
  ASSUME TaskType, ThreadType, Control, CountInv, Drop
  PROVE  TaskType' /\ ThreadType' /\ Control' /\ Only(Runner)
<1> USE Constants DEF Drop, MarkDone, Call
<1>1. TaskType' BY DEF TaskType
<1>2. ThreadType' BY DEF ThreadType, Places
<1>3. Only(Runner) BY DEF Only, ThreadType
<1>4. Place(Runner)'
  BY DEF ThreadType, Control, Place, Hand, Calling, WorkerPlaces, OtherPlaces, RunnerPlaces
<1>5. Hand(Runner)' BY DEF ThreadType, Control, Place, Hand, Calling
<1>6. Sleeper(Runner)' BY DEF ThreadType, Control, Place, Sleeper, Calling
<1> QED BY <1>1, <1>2, <1>3, <1>4, <1>5, <1>6, ControlStep

\* OnParentDrop keeps the types and moves only its thread.
LEMMA OnParentDropTC ==
  ASSUME TaskType, ThreadType, Control, CountInv, OnParentDrop
  PROVE  TaskType' /\ ThreadType' /\ Control' /\ Only(Runner)
<1> USE Constants DEF OnParentDrop
<1>1. TaskType' BY DEF TaskType, TryDrop, DropFuture, Bits
<1>2. ThreadType' BY DEF ThreadType, Places
<1>3. Only(Runner) BY DEF Only, ThreadType
<1>4. Place(Runner)'
  BY DEF ThreadType, Control, Place, Hand, Calling, WorkerPlaces, OtherPlaces, RunnerPlaces
<1>5. Hand(Runner)' BY DEF ThreadType, Control, Place, Hand, Calling
<1>6. Sleeper(Runner)' BY DEF ThreadType, Control, Place, Sleeper, Calling
<1> QED BY <1>1, <1>2, <1>3, <1>4, <1>5, <1>6, ControlStep

\* Where a thread goes on when it has woken a task.
Backs == {"idle", "pop", "poll", "more", "leave"}

\* Waking a task changes its state word, the queue and where the thread is.
LEMMA WakeEffect ==
  ASSUME TaskType, ThreadType, NEW th \in Threads, NEW t \in Tasks,
         NEW back \in Backs, Wake(th, t, back)
  PROVE  /\ bits' \in [Tasks -> SUBSET Bits] /\ ready' \in Seq(Tasks)
         /\ pc' \in [Threads -> Places] /\ ret' \in [Threads -> Places]
         /\ \/ pc' = [pc EXCEPT ![th] = "notify"] /\ ret' = [ret EXCEPT ![th] = back]
            \/ pc' = [pc EXCEPT ![th] = back] /\ ret' = [ret EXCEPT ![th] = "idle"]
<1>1. bits' \in [Tasks -> SUBSET Bits] BY DEF Wake, TaskType, MarkReady, Bits
<1>2. ready' \in Seq(Tasks) BY DEF Wake, TaskType
<1>3. \/ pc' = [pc EXCEPT ![th] = "notify"] /\ ret' = [ret EXCEPT ![th] = back]
      \/ pc' = [pc EXCEPT ![th] = back] /\ ret' = [ret EXCEPT ![th] = "idle"]
  BY DEF Wake, Call
<1>4. pc' \in [Threads -> Places] /\ ret' \in [Threads -> Places]
  BY <1>3 DEF ThreadType, Places, Backs
<1> QED BY <1>1, <1>2, <1>3, <1>4

\* Where a thread may be that wakes a task, and where it goes on.
Waking(th, back) ==
  \/ pc[th] = "poll" /\ back = "poll"
  \/ th \in Others /\ pc[th] = "idle" /\ back = "idle"
  \/ pc[th] = "callback" /\ back = "pop"
  \/ pc[th] = "deliver" /\ back = "pop"
  \/ pc[th] = "wake_joiner" /\ back = ret[th] /\ back \in {"pop", "more", "leave"}

\* The actions that wake a task or cancel one.
WakeStep(th, t, back) ==
  /\ Wake(th, t, back) /\ Waking(th, back) /\ events' \in 0..MaxEvents
  /\ arg' = arg \/ arg' = [arg EXCEPT ![th] = NoTask]
  /\ UNCHANGED <<fut, threads, port, run, cur, posts, polls, counted, runs>>
CancelStep(th, t, back) ==
  /\ CancelTask(th, t, back) /\ Waking(th, back) /\ events' \in 0..MaxEvents
  /\ UNCHANGED <<fut, threads, port, done, finished, result, cur, posts, polls, counted, runs>>

\* Task::wake keeps the types and where threads are.
LEMMA WakeTC ==
  ASSUME TaskType, ThreadType, Control, NEW th \in Threads, NEW t \in Tasks,
         NEW back \in Backs, WakeStep(th, t, back)
  PROVE  TaskType' /\ ThreadType' /\ Control' /\ Only(th)
<1> USE Constants DEF WakeStep
<1>0. /\ bits' \in [Tasks -> SUBSET Bits] /\ ready' \in Seq(Tasks)
      /\ pc' \in [Threads -> Places] /\ ret' \in [Threads -> Places]
      /\ \/ pc' = [pc EXCEPT ![th] = "notify"] /\ ret' = [ret EXCEPT ![th] = back]
         \/ pc' = [pc EXCEPT ![th] = back] /\ ret' = [ret EXCEPT ![th] = "idle"]
  BY WakeEffect
<1>1. TaskType' BY <1>0 DEF TaskType
<1>2. ThreadType' BY <1>0 DEF ThreadType
<1>3. Only(th) BY <1>0 DEF Only, ThreadType
<1>4. \/ pc'[th] = "notify" /\ ret'[th] = back
      \/ pc'[th] = back /\ ret'[th] = "idle"
  BY <1>0 DEF ThreadType
<1>5. Place(th)'
  BY <1>4 DEF Waking, Control, Place, Calling, WorkerPlaces, OtherPlaces, RunnerPlaces
<1>6. Hand(th)' BY <1>4 DEF Waking, Control, Place, Hand, Calling, RunnerPlaces
<1>7. Sleeper(th)' BY <1>4 DEF Waking, Control, Sleeper, Place
<1> QED BY <1>1, <1>2, <1>3, <1>5, <1>6, <1>7, ControlStep

\* Cancelling a task changes its state word, the queue, and what the thread is to join.
LEMMA CancelEffect ==
  ASSUME TaskType, ThreadType, NEW th \in Threads, NEW t \in Tasks,
         NEW back \in {"idle", "poll"}, CancelTask(th, t, back)
  PROVE  /\ bits' \in [Tasks -> SUBSET Bits] /\ ready' \in Seq(Tasks)
         /\ pc' = [pc EXCEPT ![th] = "take"] /\ ret' = [ret EXCEPT ![th] = back]
         /\ arg' = [arg EXCEPT ![th] = t] /\ joiner' \in [Tasks -> Tasks \cup {NoTask}]
<1>1. bits' \in [Tasks -> SUBSET Bits] BY DEF CancelTask, TaskType, Cancel, Bits
<1>2. ready' \in Seq(Tasks) BY DEF CancelTask, TaskType
<1>3. joiner' \in [Tasks -> Tasks \cup {NoTask}] BY DEF CancelTask, TaskType
<1> QED BY <1>1, <1>2, <1>3 DEF CancelTask, Call

\* cancel_task keeps the types and where threads are.
LEMMA CancelTC ==
  ASSUME TaskType, ThreadType, Control, NEW th \in Threads, NEW t \in Tasks,
         NEW back \in {"idle", "poll"}, CancelStep(th, t, back)
  PROVE  TaskType' /\ ThreadType' /\ Control' /\ Only(th)
<1> USE Constants DEF CancelStep
<1>0. /\ bits' \in [Tasks -> SUBSET Bits] /\ ready' \in Seq(Tasks)
      /\ pc' = [pc EXCEPT ![th] = "take"] /\ ret' = [ret EXCEPT ![th] = back]
      /\ arg' = [arg EXCEPT ![th] = t] /\ joiner' \in [Tasks -> Tasks \cup {NoTask}]
  BY CancelEffect
<1>1. TaskType' BY <1>0 DEF TaskType
<1>2. ThreadType' BY <1>0 DEF ThreadType, Places
<1>3. Only(th) BY <1>0 DEF Only, ThreadType
<1>4. pc'[th] = "take" /\ ret'[th] = back /\ arg'[th] = t
  BY <1>0 DEF ThreadType
<1>5. Place(th)'
  BY <1>4 DEF Waking, Control, Place, Calling, WorkerPlaces, OtherPlaces, RunnerPlaces
<1>6. Hand(th)' BY <1>4 DEF Waking, Control, Place, Hand, Calling, RunnerPlaces
<1>7. Sleeper(th)' BY <1>4 DEF Waking, Control, Sleeper, Place
<1> QED BY <1>1, <1>2, <1>3, <1>5, <1>6, <1>7, ControlStep

\* The places where a task is woken.
LEMMA WakeSteps ==
  ASSUME TaskType, ThreadType, Control, NEW th \in Threads,
         PollWakes(th) \/ OtherWakes(th) \/ Callback(th) \/ DeliverPacket(th) \/ WakeJoiner(th)
  PROVE  \E t \in Tasks, back \in Backs : WakeStep(th, t, back)
<1> USE Constants DEF WakeStep, Waking, Backs
<1>1. CASE PollWakes(th) BY <1>1 DEF PollWakes, TaskType
<1>2. CASE OtherWakes(th) BY <1>2 DEF OtherWakes, TaskType
<1>3. CASE Callback(th) BY <1>3 DEF Callback, TaskType
<1>4. CASE DeliverPacket(th) BY <1>4 DEF DeliverPacket, TaskType, Control, Hand
<1>5. CASE WakeJoiner(th) BY <1>5 DEF WakeJoiner, TaskType, Control, Hand
<1> QED BY <1>1, <1>2, <1>3, <1>4, <1>5

\* The two places where a task is cancelled; it is never the main one.
LEMMA CancelSteps ==
  ASSUME TaskType, NEW th \in Threads, PollCancels(th) \/ OtherCancels(th)
  PROVE  \E t \in Tasks \ {Main}, back \in {"idle", "poll"} : CancelStep(th, t, back)
<1> USE Constants DEF CancelStep, Waking
<1>1. CASE PollCancels(th) BY <1>1 DEF PollCancels, TaskType
<1>2. CASE OtherCancels(th) BY <1>2 DEF OtherCancels, TaskType
<1> QED BY <1>1, <1>2

\* Starting the workers moves all of them at once; they had stopped.
LEMMA CreateWorkerThreadsTC ==
  ASSUME TaskType, ThreadType, Control, RunInv, CreateWorkerThreads
  PROVE  TaskType' /\ ThreadType' /\ Control'
<1> USE Constants DEF CreateWorkerThreads
<1>1. TaskType' BY DEF TaskType
<1>2. ThreadType'
  <2>1. pc' \in [Threads -> Places] BY DEF ThreadType, Places
  <2>2. counted' \in [Threads -> BOOLEAN] OBVIOUS
  <2> QED BY <2>1, <2>2 DEF ThreadType
<1>3. SUFFICES ASSUME NEW u \in Threads PROVE Place(u)' /\ Hand(u)' /\ Sleeper(u)'
  BY <1>1, <1>2 DEF Control
<1>4. counted'[u] = FALSE OBVIOUS
<1>5. CASE u \in Workers
  <2>1. pc[u] = "exited" BY <1>5 DEF RunInv, Stopped, Starting
  <2>2. pc'[u] = "pop" BY <1>5
  <2>3. Place(u)' BY <1>5, <2>1, <2>2 DEF Control, Place, Calling, WorkerPlaces
  <2>4. Hand(u)' BY <1>5, <2>1, <2>2 DEF Control, Hand
  <2>5. Sleeper(u)' BY <1>4, <2>2 DEF Sleeper
  <2> QED BY <2>3, <2>4, <2>5
<1>6. CASE u \in Others
  <2>1. pc'[u] = pc[u] BY <1>6
  <2>2. Place(u)' BY <1>6, <2>1 DEF Control, Place, Calling
  <2>3. Hand(u)' BY <1>6, <2>1 DEF Control, Hand
  <2>4. Sleeper(u)' BY <1>4, <1>6, <2>1 DEF Control, Sleeper, Place, OtherPlaces
  <2> QED BY <2>2, <2>3, <2>4
<1>7. CASE u = Runner
  <2>1. pc[u] = "start" /\ pc'[u] = "monitor" BY <1>7
  <2>2. Place(u)' BY <1>7, <2>1 DEF Control, Place, Calling, RunnerPlaces
  <2>3. Hand(u)' BY <1>7, <2>1 DEF Control, Hand
  <2>4. Sleeper(u)' BY <1>4, <2>1 DEF Sleeper
  <2> QED BY <2>2, <2>3, <2>4
<1> QED BY <1>5, <1>6, <1>7

\* A packet moves no thread.
LEMMA PacketArrivesTC ==
  ASSUME TaskType, ThreadType, Control, PacketArrives
  PROVE  TaskType' /\ ThreadType' /\ Control'
<1> USE Constants DEF PacketArrives
<1>1. TaskType' BY DEF TaskType
<1>2. ThreadType' BY DEF ThreadType
<1>3. Control' BY DEF Control, Place, Hand, Sleeper, Calling
<1> QED BY <1>1, <1>2, <1>3

\* The initial state has the types, and every thread is where it may be.
LEMMA InitTC ==
  ASSUME Init PROVE TaskType /\ ThreadType /\ Control
<1> USE Constants DEF Init
<1>1. TaskType
  <2>1. bits \in [Tasks -> SUBSET Bits] BY DEF Bits, NewFuture, DropFuture
  <2>2. ready \in Seq(Tasks) /\ port \in Seq(Tasks \cup {Wakeup}) OBVIOUS
  <2>3. fut \in [Tasks -> {"future", "result", "none"}] OBVIOUS
  <2>4. finished \subseteq Tasks /\ events \in 0..MaxEvents /\ runs \in 0..MaxRuns OBVIOUS
  <2>5. done \in BOOLEAN /\ result \in BOOLEAN /\ joiner \in [Tasks -> Tasks \cup {NoTask}] OBVIOUS
  <2> HIDE DEF Init
  <2> QED BY <2>1, <2>2, <2>3, <2>4, <2>5 DEF TaskType
<1>2. ThreadType BY DEF ThreadType, Places
<1>3. SUFFICES ASSUME NEW th \in Threads PROVE Place(th) /\ Hand(th) /\ Sleeper(th)
  BY <1>1, <1>2 DEF Control
<1>4. Place(th) BY DEF Place, Calling, WorkerPlaces, OtherPlaces, RunnerPlaces
<1>5. Hand(th) BY DEF Hand
<1>6. Sleeper(th) BY DEF Sleeper
<1> QED BY <1>4, <1>5, <1>6
-----------------------------------------------------------------------------
(***************************************************************************)
(* The run and its workers.                                                *)
(***************************************************************************)
\* A task that is done stays so.
DoneStays == \A t \in Tasks : "DONE" \in bits[t] => "DONE" \in bits'[t]

\* A step of a worker or of another thread.
LEMMA RunStep ==
  ASSUME TaskType, ThreadType, Control, RunInv, NEW th \in Threads \ {Runner}, Only(th),
         runs' = runs, DoneStays, pc[th] # "exited",
         result' => result \/ "DONE" \in bits'[Main],
         finished' = finished \/ (pc[th] = "finish" /\ finished' = finished \cup {cur[th]}),
         pc'[th] = "finish" /\ cur'[th] # Main => "DONE" \in bits'[cur'[th]],
         counted'[th] => counted[th] \/ pc[th] = "sleep"
  PROVE  RunInv'
<1> USE Constants
<1>1. pc'[Runner] = pc[Runner] /\ ret'[Runner] = ret[Runner] BY DEF Only
<1>2. (Starting' <=> Starting) /\ (Ended' <=> Ended) /\ (Stopped' <=> Stopped)
  BY <1>1 DEF Starting, Ended, Stopped
<1>3. (result \/ Ended => "DONE" \in bits[Main])' BY <1>2 DEF RunInv, DoneStays
<1>4. (Stopped => \A w \in Workers : pc[w] = "exited")' BY <1>2 DEF RunInv, Only
<1>5. (\A t \in finished \ {Main} : "DONE" \in bits[t])'
  BY DEF RunInv, DoneStays, TaskType, Control, Hand, ThreadType
<1>6. ASSUME NEW u \in Threads, pc'[u] = "finish", cur'[u] # Main PROVE "DONE" \in bits'[cur'[u]]
  <2>1. CASE u = th BY <1>6, <2>1
  <2>2. CASE u # th
    <3>1. pc[u] = "finish" /\ cur'[u] = cur[u] BY <1>6, <2>2 DEF Only
    <3>2. cur[u] \in Tasks BY <3>1 DEF ThreadType, Control, Hand
    <3> QED BY <1>6, <3>1, <3>2 DEF RunInv, DoneStays
  <2> QED BY <2>1, <2>2
<1>7. (runs = 0 => pc[Runner] = "idle")' BY <1>1 DEF RunInv
<1>8. (runs = 0 \/ (runs = 1 /\ Starting) => \A w \in Workers : ~counted[w])'
  <2> SUFFICES ASSUME runs = 0 \/ (runs = 1 /\ Starting), NEW w \in Workers PROVE ~counted'[w]
    BY <1>2
  <2>1. ~counted[w] /\ pc[w] = "exited" BY DEF RunInv, Stopped
  <2> QED BY <2>1 DEF Only
<1> QED BY <1>3, <1>4, <1>5, <1>6, <1>7, <1>8 DEF RunInv

\* A step of the thread in run() that does nothing to the tasks.
LEMMA RunnerStepRun ==
  ASSUME TaskType, ThreadType, Control, RunInv, Only(Runner), UNCHANGED <<bits, finished, result, runs>>,
         Ended' => Ended \/ result,
         Stopped' => Stopped \/ \A w \in Workers : pc[w] = "exited",
         Starting' => Starting, runs # 0 \/ pc'[Runner] = "idle", pc'[Runner] # "finish",
         counted'[Runner] = counted[Runner]
  PROVE  RunInv'
<1> USE Constants
<1>1. \A w \in Workers : pc'[w] = pc[w] /\ counted'[w] = counted[w] BY DEF Only
<1>2. \A u \in Threads : pc'[u] = "finish" => pc[u] = "finish" /\ cur'[u] = cur[u] BY DEF Only
<1> QED BY <1>1, <1>2 DEF RunInv

\* What run() knows depends on these variables only.
LEMMA NoRunChange ==
  ASSUME RunInv, UNCHANGED <<bits, finished, result, runs, pc, ret, cur, counted>> PROVE RunInv'
  BY DEF RunInv, Starting, Ended, Stopped

\* No run has started.
LEMMA InitRun ==
  ASSUME Init PROVE RunInv
  BY Constants DEF Init, RunInv, Starting, Ended, Stopped, DropFuture

\* A step of a worker or of another thread that does nothing to the tasks.
LEMMA Quiet ==
  ASSUME TaskType, ThreadType, Control, RunInv, NEW th \in Threads \ {Runner}, Only(th),
         UNCHANGED <<bits, finished, result, runs>>, pc[th] # "exited", pc'[th] # "finish",
         counted'[th] => counted[th] \/ pc[th] = "sleep"
  PROVE  RunInv'
  BY RunStep DEF DoneStays

\* The steps of a thread that wakes, polls or cancels tasks.
LEMMA PollRun ==
  ASSUME TaskType, ThreadType, Control, RunInv, CountInv, NEW th \in Threads,
         \/ TakeTaskResult(th) \/ Pop(th) \/ PollReady(th) \/ DidFinish(th) \/ PollPending(th)
  PROVE  RunInv'
<1>0. th # Runner /\ pc[th] # "exited"
  BY DEF Control, Place, RunnerPlaces, TakeTaskResult, Pop, PollReady, DidFinish, PollPending
<1>1. CASE TakeTaskResult(th)
  <2>1. Only(th) BY <1>1, TakeTaskResultTC
  <2>2. DoneStays BY <1>1 DEF DoneStays, TakeTaskResult, TakeResult, TaskType
  <2>3. pc'[th] # "finish"
    BY <1>0, <1>1, Constants DEF TakeTaskResult, Return, ThreadType, Control, Place, Calling
  <2>4. UNCHANGED <<finished, result, runs, counted>> BY <1>1 DEF TakeTaskResult
  <2> QED BY <1>0, <2>1, <2>2, <2>3, <2>4, RunStep
<1>2. CASE Pop(th)
  <2>0. Head(ready) \in Tasks BY <1>2 DEF Pop, TaskType
  <2>1. Only(th) BY <1>2, PopTC
  <2>2. DoneStays BY <1>2, <2>0 DEF DoneStays, Pop, TaskType
  <2>3. pc'[th] = "finish" => "DONE" \in bits'[cur'[th]]
    BY <1>2, <2>0 DEF Pop, DropFuture, ThreadType, TaskType
  <2>4. UNCHANGED <<finished, result, runs, counted>> BY <1>2 DEF Pop
  <2> QED BY <1>0, <2>1, <2>2, <2>3, <2>4, RunStep
<1>3. CASE PollReady(th)
  <2>0. cur[th] \in Tasks /\ cur' = cur BY <1>3 DEF PollReady, ThreadType, Control, Hand
  <2>1. Only(th) BY <1>3, PollReadyTC
  <2>2. DoneStays BY <1>3, <2>0 DEF DoneStays, PollReady, Complete, TaskType
  <2>3. "DONE" \in bits'[cur'[th]] BY <1>3, <2>0 DEF PollReady, Complete, TaskType
  <2>4. UNCHANGED <<finished, runs, counted>> BY <1>3 DEF PollReady
  <2>5. result' => result \/ "DONE" \in bits'[Main] BY <1>3, <2>0, <2>3 DEF PollReady
  <2> QED BY <1>0, <2>1, <2>2, <2>3, <2>4, <2>5, RunStep
<1>4. CASE DidFinish(th)
  <2>1. Only(th) BY <1>4, DidFinishTC
  <2>2. DoneStays BY <1>4 DEF DoneStays, DidFinish
  <2>3. pc'[th] # "finish" BY <1>4, DidFinishEffect DEF ThreadType
  <2>4. UNCHANGED <<result, runs, counted>> /\ pc[th] = "finish" /\ finished' = finished \cup {cur[th]}
    BY <1>4 DEF DidFinish
  <2> QED BY <1>0, <2>1, <2>2, <2>3, <2>4, RunStep
<1>5. CASE PollPending(th)
  <2>0. cur[th] \in Tasks BY <1>5 DEF PollPending, ThreadType, Control, Hand
  <2>1. Only(th) BY <1>5, PollPendingTC
  <2>2. DoneStays BY <1>5, <2>0 DEF DoneStays, PollPending, Release, TaskType
  <2>3. pc'[th] # "finish" BY <1>5 DEF PollPending, Polled, AfterPoll, ThreadType
  <2>4. UNCHANGED <<finished, result, runs, counted>> BY <1>5 DEF PollPending
  <2> QED BY <1>0, <2>1, <2>2, <2>3, <2>4, RunStep
<1> QED BY <1>1, <1>2, <1>3, <1>4, <1>5

\* Waking a task does not change what run() knows.
LEMMA WakeRun ==
  ASSUME TaskType, ThreadType, Control, RunInv, NEW th \in Threads, NEW t \in Tasks,
         NEW back \in Backs, WakeStep(th, t, back)
  PROVE  RunInv'
<1>0. th # Runner /\ pc[th] # "exited" BY Constants DEF WakeStep, Waking, Control, Place, RunnerPlaces
<1>1. Only(th) BY WakeTC
<1>2. DoneStays BY DEF DoneStays, WakeStep, Wake, MarkReady, TaskType
<1>3. pc'[th] # "finish" BY DEF WakeStep, Wake, Call, ThreadType, Backs
<1>4. UNCHANGED <<finished, result, runs, counted>> BY DEF WakeStep
<1> QED BY <1>0, <1>1, <1>2, <1>3, <1>4, RunStep

\* Nor does cancelling one.
LEMMA CancelRun ==
  ASSUME TaskType, ThreadType, Control, RunInv, NEW th \in Threads, NEW t \in Tasks \ {Main},
         NEW back \in {"idle", "poll"}, CancelStep(th, t, back)
  PROVE  RunInv'
<1>0. th # Runner /\ pc[th] # "exited" BY Constants DEF CancelStep, Waking, Control, Place, RunnerPlaces
<1>1. Only(th) BY CancelTC
<1>2. DoneStays BY DEF DoneStays, CancelStep, CancelTask, Cancel, TaskType
<1>3. pc'[th] # "finish" BY CancelEffect DEF CancelStep, ThreadType
<1>4. UNCHANGED <<finished, result, runs, counted>> BY DEF CancelStep
<1> QED BY <1>0, <1>1, <1>2, <1>3, <1>4, RunStep

\* The other steps of workers and other threads, and the rest of theirs that run() makes.
LEMMA StepRun ==
  ASSUME TaskType, ThreadType, Control, RunInv, CountInv, NEW th \in Threads,
         \/ MoreReady(th) \/ NoneReady(th) \/ Sleep(th) \/ Recheck(th) \/ LostRace(th)
         \/ CheckDone(th) \/ Receive(th) \/ TimedOut(th) \/ WakeUp(th)
         \/ NoMoreTasks(th) \/ Leave(th) \/ Left(th) \/ Enter(th)
  PROVE  RunInv'
<1>0. th \in Threads \ {Runner} /\ pc[th] # "exited"
  BY Constants DEF Control, Place, RunnerPlaces, MoreReady, NoneReady, Sleep, Recheck, LostRace, CheckDone,
     Receive, TimedOut, WakeUp, NoMoreTasks, Leave, Left, Enter
<1> USE <1>0, Quiet DEF ThreadType
<1>1. CASE MoreReady(th) BY <1>1, MoreReadyTC DEF MoreReady, TryNotify
<1>2. CASE NoneReady(th) BY <1>2, NoneReadyTC DEF NoneReady
<1>3. CASE Sleep(th) BY <1>3, SleepTC DEF Sleep
<1>4. CASE Recheck(th) BY <1>4, RecheckTC DEF Recheck
<1>5. CASE LostRace(th) BY <1>5, LostRaceTC DEF LostRace
<1>6. CASE CheckDone(th) BY <1>6, CheckDoneTC DEF CheckDone
<1>7. CASE Receive(th) BY <1>7, ReceiveTC DEF Receive
<1>8. CASE TimedOut(th) BY <1>8, TimedOutTC DEF TimedOut
<1>9. CASE WakeUp(th) BY <1>9, WakeUpTC DEF WakeUp
<1>10. CASE NoMoreTasks(th) BY <1>10, NoMoreTasksTC DEF NoMoreTasks
<1>11. CASE Leave(th) BY <1>11, LeaveTC DEF Leave
<1>12. CASE Left(th) BY <1>12, LeftTC DEF Left
<1>13. CASE Enter(th) BY <1>13, EnterTC DEF Enter
<1> QED BY <1>1, <1>2, <1>3, <1>4, <1>5, <1>6, <1>7, <1>8, <1>9, <1>10, <1>11, <1>12, <1>13

\* Nor does a notification, whoever posts it.
LEMMA NotifyRun ==
  ASSUME TaskType, ThreadType, Control, RunInv, CountInv, NEW th \in Threads,
         NotifyTaskReady(th) \/ NotifyId(th)
  PROVE  RunInv'
<1>1. Only(th) BY NotifyTaskReadyTC, NotifyIdTC
<1>2. UNCHANGED <<bits, finished, result, runs, counted>> BY DEF NotifyTaskReady, NotifyId
<1>3. \/ pc[th] = "notify" /\ pc'[th] = "post" /\ ret'[th] = ret[th]
      \/ pc[th] \in {"notify", "post"} /\ pc'[th] = ret[th] /\ ret'[th] = "idle"
      \/ pc[th] = "post" /\ pc'[th] = pc[th] /\ ret'[th] = ret[th]
  BY DEF NotifyTaskReady, NotifyId, TryNotify, Return, ThreadType
<1>4. pc[th] # "exited" /\ pc'[th] # "finish"
  BY <1>3, Constants DEF Control, Place, Calling
<1>5. CASE th # Runner BY <1>1, <1>2, <1>4, <1>5, Quiet
<1>6. CASE th = Runner
  <2>1. runs # 0 BY <1>3, <1>6 DEF RunInv
  <2>2. (Ended' => Ended) /\ (Stopped' => Stopped) /\ (Starting' => Starting)
    BY <1>3, <1>6, Constants DEF Ended, Stopped, Starting, Control, Place, Calling
  <2> QED BY <1>1, <1>2, <1>4, <1>6, <2>1, <2>2, RunnerStepRun
<1> QED BY <1>5, <1>6

\* run() itself, from the result to the join.
LEMMA RunnerRun ==
  ASSUME TaskType, ThreadType, Control, RunInv, CountInv,
         Finished \/ NotifyAll \/ JoinAll \/ WakeOneThread \/ Drop
  PROVE  RunInv'
<1>1. Only(Runner) BY FinishedTC, NotifyAllTC, JoinAllTC, WakeOneThreadTC, DropTC
<1>2. UNCHANGED <<bits, finished, result, runs, counted>>
  BY DEF Finished, NotifyAll, JoinAll, WakeOneThread, Drop, MarkDone
<1>3. runs # 0 BY DEF RunInv, Finished, NotifyAll, JoinAll, WakeOneThread, Drop, MarkDone, TaskType
<1> USE <1>1, <1>2, <1>3, RunnerStepRun, Constants
       DEF Ended, Stopped, Starting, Control, Place, Calling, ThreadType
<1>4. CASE Finished BY <1>4 DEF Finished, MarkDone, Call
<1>5. CASE NotifyAll BY <1>5 DEF NotifyAll, Return
<1>6. CASE JoinAll BY <1>6 DEF JoinAll
<1>7. CASE WakeOneThread BY <1>7 DEF WakeOneThread, TryNotify
<1>8. CASE Drop BY <1>8 DEF Drop, MarkDone, Call
<1> QED BY <1>4, <1>5, <1>6, <1>7, <1>8

\* The workers are started awake.
LEMMA CreateWorkerThreadsRun ==
  ASSUME TaskType, ThreadType, Control, RunInv, CreateWorkerThreads
  PROVE  RunInv'
<1> USE Constants DEF CreateWorkerThreads
<1>1. pc[Runner] = "start" /\ pc'[Runner] = "monitor" /\ ret' = ret /\ ret[Runner] = "idle"
  BY DEF Control, Place, Calling
<1>2. ~Ended' /\ ~Stopped' /\ ~Starting' BY <1>1 DEF Ended, Stopped, Starting
<1>3. \A w \in Workers : ~counted'[w] BY Zenon
<1>4. \A u \in Threads : pc'[u] = "finish" => pc[u] = "finish" OBVIOUS
<1>5. UNCHANGED <<bits, finished, result, runs, cur>> OBVIOUS
<1> HIDE DEF CreateWorkerThreads
<1> QED BY <1>1, <1>2, <1>3, <1>4, <1>5 DEF RunInv

\* A new main task is not done, and no worker runs yet.
LEMMA SpawnMainRun ==
  ASSUME TaskType, ThreadType, Control, RunInv, CountInv, SpawnMain
  PROVE  RunInv'
<1> USE Constants DEF SpawnMain, Call
<1>1. pc[Runner] = "idle" /\ pc'[Runner] = "notify" /\ ret'[Runner] = "start"
  BY DEF ThreadType
<1>2. Stopped /\ ~Ended' BY <1>1 DEF Ended, Stopped
<1>3. \A u \in Threads \ {Runner} : pc'[u] = pc[u] BY DEF ThreadType
<1>4. ~result' /\ runs' = runs + 1 /\ finished' = finished \ {Main} /\ cur' = cur /\ counted' = counted
  OBVIOUS
<1>5. \A t \in Tasks \ {Main} : bits'[t] = bits[t] BY DEF TaskType
<1> HIDE DEF SpawnMain, Call
<1>6. (\A t \in finished \ {Main} : "DONE" \in bits[t])' BY <1>4, <1>5 DEF RunInv, TaskType
<1>7. ASSUME NEW u \in Threads, pc'[u] = "finish", cur'[u] # Main PROVE "DONE" \in bits'[cur'[u]]
  <2>1. pc[u] = "finish" /\ cur[u] # Main BY <1>1, <1>3, <1>4, <1>7
  <2>2. cur[u] \in Tasks BY <2>1 DEF ThreadType, Control, Hand
  <2> QED BY <1>4, <1>5, <2>1, <2>2 DEF RunInv
<1>8. (runs = 0 \/ (runs = 1 /\ Starting) => \A w \in Workers : ~counted[w])'
  BY <1>4 DEF RunInv, TaskType
<1>9. (Stopped => \A w \in Workers : pc[w] = "exited")' BY <1>2, <1>3 DEF RunInv
<1>10. runs' # 0 BY <1>4 DEF TaskType
<1> QED BY <1>2, <1>4, <1>6, <1>7, <1>8, <1>9, <1>10 DEF RunInv

\* Dropping the tasks makes all of them done.
LEMMA OnParentDropRun ==
  ASSUME TaskType, ThreadType, Control, RunInv, CountInv, OnParentDrop
  PROVE  RunInv'
<1> USE Constants
<1>1. /\ pc[Runner] = "on_parent_drop" /\ pc'[Runner] = "dropped" /\ ret' = ret
      /\ UNCHANGED <<finished, result, runs, cur, counted>>
  BY DEF OnParentDrop, ThreadType
<1>2. Only(Runner) BY OnParentDropTC
<1>3. \A t \in Tasks : "DONE" \in bits'[t] \/ (t \in finished /\ bits'[t] = bits[t])
  BY DEF OnParentDrop, TryDrop, DropFuture
<1>4. Stopped /\ Ended /\ runs # 0 BY <1>1 DEF Stopped, Ended, RunInv
<1>5. \A u \in Threads : pc'[u] = "finish" => pc[u] = "finish" BY <1>1, <1>2 DEF Only
<1>6. Starting' => Starting BY <1>1 DEF Starting
<1>7. \A w \in Workers : pc'[w] = "exited" BY <1>2, <1>4 DEF RunInv, Only
<1>8. \A t \in Tasks : "DONE" \in bits[t] => "DONE" \in bits'[t] BY <1>3
<1>9. (\A th \in Threads : pc[th] = "finish" /\ cur[th] # Main => "DONE" \in bits[cur[th]])'
  BY <1>1, <1>5, <1>8 DEF RunInv, ThreadType, Control, Hand
<1> QED BY <1>1, <1>3, <1>4, <1>6, <1>7, <1>8, <1>9 DEF RunInv, TaskType
-----------------------------------------------------------------------------
(***************************************************************************)
(* The queue.                                                              *)
(***************************************************************************)
\* Neither the queue nor who belongs to it changes.
LEMMA QueueSame ==
  ASSUME TaskType, QueueInv, ready' = ready, \A t \in Tasks : Waiting(bits'[t]) <=> Waiting(bits[t])
  PROVE  QueueInv'
  BY DEF QueueInv, InQueue

\* A task that was not waiting is appended.
LEMMA QueueAppend ==
  ASSUME TaskType, QueueInv, NEW t \in Tasks, ready' = Append(ready, t), ~Waiting(bits[t]),
         Waiting(bits'[t]), \A u \in Tasks \ {t} : bits'[u] = bits[u]
  PROVE  QueueInv'
<1>1. /\ Len(ready') = Len(ready) + 1 /\ Len(ready) \in Nat /\ ready'[Len(ready) + 1] = t
      /\ \A i \in 1..Len(ready) : ready'[i] = ready[i]
  BY DEF TaskType
<1>2. \A i \in 1..Len(ready) : ready[i] # t BY DEF QueueInv, InQueue
<1>3. \A i, j \in 1..Len(ready') : ready'[i] = ready'[j] => i = j
  BY <1>1, <1>2 DEF QueueInv
<1>4. ASSUME NEW u \in Tasks PROVE InQueue(u)' <=> Waiting(bits'[u])
  <2>1. CASE u = t BY <1>1, <2>1 DEF InQueue
  <2>2. CASE u # t
    <3>1. InQueue(u)' <=> InQueue(u) BY <1>1, <2>2 DEF InQueue
    <3> QED BY <2>2, <3>1 DEF QueueInv
  <2> QED BY <2>1, <2>2
<1> QED BY <1>3, <1>4 DEF QueueInv

\* The first one is taken off.
LEMMA QueueTail ==
  ASSUME TaskType, QueueInv, ready # <<>>, ready' = Tail(ready), ~Waiting(bits'[Head(ready)]),
         \A u \in Tasks \ {Head(ready)} : bits'[u] = bits[u]
  PROVE  QueueInv'
<1>1. /\ Len(ready') = Len(ready) - 1 /\ Len(ready) \in Nat \ {0} /\ ready[1] = Head(ready)
      /\ \A i \in 1..Len(ready') : ready'[i] = ready[i + 1]
  BY DEF TaskType
<1>2. \A i \in 1..Len(ready') : i + 1 \in 1..Len(ready) BY <1>1
<1>3. \A i, j \in 1..Len(ready') : ready'[i] = ready'[j] => i = j
  BY <1>1, <1>2 DEF QueueInv
<1>4. ASSUME NEW u \in Tasks PROVE InQueue(u)' <=> Waiting(bits'[u])
  <2>1. CASE u = Head(ready)
    <3>1. ~InQueue(u)' BY <1>1, <1>2, <2>1 DEF InQueue, QueueInv
    <3> QED BY <2>1, <3>1
  <2>2. CASE u # Head(ready)
    <3>1. ASSUME InQueue(u) PROVE InQueue(u)'
      <4>1. PICK i \in 1..Len(ready) : ready[i] = u BY <3>1 DEF InQueue
      <4>2. i - 1 \in 1..Len(ready') /\ ready'[i - 1] = u BY <1>1, <2>2, <4>1
      <4> QED BY <4>2 DEF InQueue
    <3>2. InQueue(u)' => InQueue(u) BY <1>1, <1>2 DEF InQueue
    <3> QED BY <2>2, <3>1, <3>2 DEF QueueInv
  <2> QED BY <2>1, <2>2
<1> QED BY <1>3, <1>4 DEF QueueInv
-----------------------------------------------------------------------------
(***************************************************************************)
(* Who polls a task, and what is left of its future.                       *)
(***************************************************************************)
\* No thread starts or stops polling.
LEMMA PollSame ==
  ASSUME PollInv, NEW th \in Threads, Only(th),
         \A t \in Tasks : Active(bits'[t]) <=> Active(bits[t]),
         \A t \in Tasks : (cur'[th] = t /\ pc'[th] # "finish") <=> (cur[th] = t /\ pc[th] # "finish")
  PROVE  PollInv'
<1>1. \A t \in Tasks : Polling(t)' = Polling(t) BY DEF Polling, Only
<1> QED BY <1>1 DEF PollInv

\* Thread th polls task t, and now stops.
LEMMA PollEnds ==
  ASSUME PollInv, NEW th \in Threads, Only(th), NEW t \in Tasks, th \in Polling(t),
         \A u \in Tasks : cur'[th] # u \/ pc'[th] = "finish",
         ~Active(bits'[t]), \A u \in Tasks \ {t} : Active(bits'[u]) <=> Active(bits[u])
  PROVE  PollInv'
<1>1. Polling(t)' = {}
  <2>1. \A u \in Threads : u \in Polling(t)' => u \in Polling(t) \/ u = th BY DEF Polling, Only
  <2>2. th \notin Polling(t)' BY DEF Polling
  <2>3. \A u \in Polling(t) : u = th BY DEF PollInv
  <2> QED BY <2>1, <2>2, <2>3 DEF Polling
<1>2. \A u \in Tasks \ {t} : Polling(u)' = Polling(u) BY DEF Polling, Only
<1> QED BY <1>1, <1>2 DEF PollInv

\* It starts to.
LEMMA PollStarts ==
  ASSUME PollInv, NEW th \in Threads, Only(th), NEW t \in Tasks, ~Active(bits[t]), NoTask \notin Tasks,
         cur[th] = NoTask, cur'[th] = t, pc'[th] # "finish",
         Active(bits'[t]), \A u \in Tasks \ {t} : Active(bits'[u]) <=> Active(bits[u])
  PROVE  PollInv'
<1>1. Polling(t) = {} BY DEF PollInv
<1>2. Polling(t)' = {th} BY <1>1 DEF Polling, Only
<1>3. \A u \in Tasks \ {t} : Polling(u)' = Polling(u) BY DEF Polling, Only
<1> QED BY <1>2, <1>3 DEF PollInv

\* Neither the tasks nor who polls them change.
LEMMA TasksSame ==
  ASSUME TaskType, QueueInv, PollInv, FutureInv, UNCHANGED <<bits, fut, ready>>, NEW th \in Threads, Only(th),
         \A t \in Tasks : (cur'[th] = t /\ pc'[th] # "finish") <=> (cur[th] = t /\ pc[th] # "finish")
  PROVE  QueueInv' /\ PollInv' /\ FutureInv'
<1>1. QueueInv' BY QueueSame
<1>2. PollInv' BY PollSame
<1>3. FutureInv' BY DEF FutureInv
<1> QED BY <1>1, <1>2, <1>3

\* Marking a task ready, and cancelling it, queue it if need be and change nothing else.
LEMMA MarkTasks ==
  ASSUME TaskType, ThreadType, QueueInv, PollInv, FutureInv, NEW th \in Threads, Only(th),
         NEW t \in Tasks, NEW more \in {{}, {"READY"}, {"CANCELLED", "READY"}},
         more = {} => ~ToQueue(bits[t]),
         bits' = [bits EXCEPT ![t] = @ \cup more], fut' = fut, cur' = cur,
         ready' = IF ToQueue(bits[t]) THEN Append(ready, t) ELSE ready,
         pc[th] # "finish", pc'[th] # "finish"
  PROVE  QueueInv' /\ PollInv' /\ FutureInv'
<1>1. /\ \A u \in Tasks \ {t} : bits'[u] = bits[u]
      /\ bits'[t] = bits[t] \cup more
  BY DEF TaskType
<1>2. /\ \A b \in {"INACTIVE", "DONE", "RESULT_TAKEN"} : b \in bits'[t] <=> b \in bits[t]
  BY <1>1
<1>3. QueueInv'
  <2>1. CASE ToQueue(bits[t])
    <3>1. ~Waiting(bits[t]) /\ Waiting(bits'[t]) BY <1>1, <2>1 DEF ToQueue, Waiting
    <3> QED BY <1>1, <2>1, <3>1, QueueAppend
  <2>2. CASE ~ToQueue(bits[t])
    <3>1. Waiting(bits'[t]) <=> Waiting(bits[t]) BY <1>1, <2>2 DEF ToQueue, Waiting
    <3> QED BY <1>1, <2>2, <3>1, QueueSame
  <2> QED BY <2>1, <2>2
<1>4. PollInv'
  <2>1. \A u \in Tasks : Active(bits'[u]) <=> Active(bits[u]) BY <1>1, <1>2 DEF Active
  <2> QED BY <2>1, PollSame
<1>5. FutureInv'
  <2>1. HasResult(bits'[t]) <=> HasResult(bits[t]) BY <1>1 DEF HasResult
  <2>2. FutureOf(bits'[t]) = FutureOf(bits[t]) BY <1>2, <2>1 DEF FutureOf
  <2> QED BY <1>1, <1>2, <2>2 DEF FutureInv
<1> QED BY <1>3, <1>4, <1>5

\* Waking a task that is not queued queues it.
LEMMA WakeTasks ==
  ASSUME TaskType, ThreadType, Control, QueueInv, PollInv, FutureInv, NEW th \in Threads, NEW t \in Tasks,
         NEW back \in Backs, WakeStep(th, t, back)
  PROVE  QueueInv' /\ PollInv' /\ FutureInv'
<1>1. Only(th) BY WakeTC
<1>2. pc[th] # "finish" BY DEF WakeStep, Waking
<1>3. pc'[th] # "finish" BY DEF WakeStep, Wake, Call, ThreadType, Backs
<1>4. bits' = [bits EXCEPT ![t] = @ \cup {"READY"}] BY DEF WakeStep, Wake, MarkReady
<1>5. fut' = fut /\ cur' = cur /\ ready' = IF ToQueue(bits[t]) THEN Append(ready, t) ELSE ready
  BY DEF WakeStep, Wake
<1> QED BY <1>1, <1>2, <1>3, <1>4, <1>5, MarkTasks

\* So does cancelling it, unless it is finished.
LEMMA CancelTasks ==
  ASSUME TaskType, ThreadType, Control, RunInv, QueueInv, PollInv, FutureInv, NEW th \in Threads,
         NEW t \in Tasks \ {Main}, NEW back \in {"idle", "poll"}, CancelStep(th, t, back)
  PROVE  QueueInv' /\ PollInv' /\ FutureInv'
<1>1. Only(th) BY CancelTC
<1>2. pc[th] # "finish" BY DEF CancelStep, Waking
<1>3. pc'[th] # "finish" BY CancelEffect DEF CancelStep, ThreadType
<1>5. fut' = fut /\ cur' = cur /\ ready' = IF ToQueue(bits[t]) THEN Append(ready, t) ELSE ready
  BY DEF CancelStep, CancelTask
<1>6. CASE t \in finished
  <2>1. bits' = [bits EXCEPT ![t] = @ \cup {}] BY <1>6 DEF CancelStep, CancelTask, TaskType
  <2>2. ~ToQueue(bits[t]) BY <1>6 DEF RunInv, ToQueue
  <2> QED BY <1>1, <1>2, <1>3, <1>5, <2>1, <2>2, MarkTasks
<1>7. CASE t \notin finished
  <2>1. bits' = [bits EXCEPT ![t] = @ \cup {"CANCELLED", "READY"}]
    BY <1>7 DEF CancelStep, CancelTask, Cancel
  <2> QED BY <1>1, <1>2, <1>3, <1>5, <2>1, MarkTasks
<1> QED BY <1>6, <1>7

\* The result is taken at most once.
LEMMA TakeTaskResultTasks ==
  ASSUME TaskType, ThreadType, Control, CountInv, QueueInv, PollInv, FutureInv, NEW th \in Threads,
         TakeTaskResult(th)
  PROVE  QueueInv' /\ PollInv' /\ FutureInv'
<1> DEFINE t == arg[th]
<1>0. t \in Tasks /\ pc[th] = "take" BY DEF TakeTaskResult, Control, Hand
<1>1. Only(th) BY TakeTaskResultTC
<1>2. /\ \A u \in Tasks \ {t} : bits'[u] = bits[u] /\ fut'[u] = fut[u]
      /\ bits'[t] = TakeResult(bits[t])
      /\ fut'[t] = IF HasResult(bits[t]) THEN "none" ELSE fut[t]
      /\ ready' = ready /\ cur' = cur /\ pc'[th] = ret[th]
  BY <1>0 DEF TakeTaskResult, TaskType, ThreadType, Return
<1> HIDE DEF t
<1>3. \A b \in {"INACTIVE", "READY", "DONE"} : b \in bits'[t] <=> b \in bits[t]
  BY <1>2 DEF TakeResult
<1>4. QueueInv' BY <1>2, <1>3, QueueSame DEF Waiting
<1>5. PollInv'
  <2>1. pc'[th] # "finish" BY <1>0, <1>2, Constants DEF Control, Place, Calling, RunnerPlaces
  <2>2. \A u \in Tasks : Active(bits'[u]) <=> Active(bits[u]) BY <1>2, <1>3 DEF Active
  <2> QED BY <1>0, <1>1, <1>2, <2>1, <2>2, PollSame
<1>6. FutureInv'
  <2>1. fut'[t] = FutureOf(bits'[t])
    <3>1. CASE HasResult(bits[t]) BY <1>0, <1>2, <3>1 DEF FutureOf, HasResult, TakeResult
    <3>2. CASE ~HasResult(bits[t]) BY <1>0, <1>2, <3>2 DEF FutureOf, TakeResult, FutureInv
    <3> QED BY <3>1, <3>2
  <2>2. "RESULT_TAKEN" \in bits'[t] => "DONE" \in bits'[t]
    BY <1>0, <1>2 DEF TakeResult, HasResult, FutureInv
  <2> QED BY <1>2, <2>1, <2>2 DEF FutureInv
<1> QED BY <1>4, <1>5, <1>6

\* The first task of the queue is claimed, and dropped if it was cancelled.
LEMMA PopTasks ==
  ASSUME TaskType, ThreadType, Control, CountInv, QueueInv, PollInv, FutureInv, NEW th \in Threads, Pop(th)
  PROVE  QueueInv' /\ PollInv' /\ FutureInv'
<1> DEFINE t == Head(ready)
<1>0. t \in Tasks /\ pc[th] = "pop" /\ ready # <<>> /\ ready' = Tail(ready) BY DEF Pop, TaskType
<1>1. Only(th) BY PopTC
<1>2. Waiting(bits[t])
  <2>1. 1 \in 1..Len(ready) /\ ready[1] = t BY <1>0 DEF TaskType
  <2> QED BY <1>0, <2>1 DEF QueueInv, InQueue
<1>3. /\ \A u \in Tasks \ {t} : bits'[u] = bits[u] /\ fut'[u] = fut[u]
      /\ cur'[th] = t /\ cur[th] = NoTask
  <2>1. \A u \in Tasks \ {t} : bits'[u] = bits[u] BY <1>0 DEF Pop, TaskType
  <2>2. \A u \in Tasks \ {t} : fut'[u] = fut[u] BY <1>0 DEF Pop, TaskType
  <2>3. cur'[th] = t BY <1>0 DEF Pop, ThreadType
  <2>4. cur[th] = NoTask BY <1>0, Constants DEF Control, Hand, Place, Calling
  <2> QED BY <2>1, <2>2, <2>3, <2>4
<1>4. \/ bits'[t] = DropFuture(Claim(bits[t])) /\ fut'[t] = "none" /\ pc'[th] = "finish"
      \/ bits'[t] = Claim(bits[t]) /\ fut'[t] = fut[t] /\ pc'[th] = "poll"
  BY <1>0 DEF Pop, TaskType, ThreadType
<1>5. QueueInv'
  <2>1. ~Waiting(bits'[t]) BY <1>4 DEF Waiting, DropFuture, Claim
  <2> QED BY <1>0, <1>3, <2>1, QueueTail
<1> HIDE DEF t
<1>6. CASE bits'[t] = DropFuture(Claim(bits[t])) /\ fut'[t] = "none" /\ pc'[th] = "finish"
  <2>1. PollInv'
    <3>1. \A u \in Tasks : Active(bits'[u]) <=> Active(bits[u])
      BY <1>2, <1>3, <1>6 DEF Active, DropFuture, Claim, Waiting
    <3>2. \A u \in Tasks : cur[th] # u BY <1>3, Constants
    <3> QED BY <1>1, <1>6, <3>1, <3>2, PollSame
  <2>2. FutureInv'
    <3>1. fut'[t] = FutureOf(bits'[t]) /\ "DONE" \in bits'[t] BY <1>6 DEF FutureOf, DropFuture, HasResult
    <3> QED BY <1>3, <3>1 DEF FutureInv
  <2> QED BY <1>5, <2>1, <2>2
<1>7. CASE bits'[t] = Claim(bits[t]) /\ fut'[t] = fut[t] /\ pc'[th] = "poll"
  <2>1. PollInv'
    <3>1. ~Active(bits[t]) /\ Active(bits'[t]) BY <1>2, <1>7 DEF Active, Claim, Waiting
    <3> QED BY <1>0, <1>1, <1>3, <1>7, <3>1, Constants, PollStarts
  <2>2. FutureInv'
    <3>1. "DONE" \notin bits[t] /\ "DONE" \notin bits'[t] BY <1>2, <1>7 DEF Waiting, Claim
    <3>2. "RESULT_TAKEN" \notin bits'[t] BY <1>0, <1>7, <3>1 DEF FutureInv, Claim
    <3>3. fut'[t] = FutureOf(bits'[t]) BY <1>0, <1>7, <3>1 DEF FutureInv, FutureOf
    <3> QED BY <1>3, <3>2, <3>3 DEF FutureInv
  <2> QED BY <1>5, <2>1, <2>2
<1> QED BY <1>4, <1>6, <1>7

\* A thread that polls a task is the one that does.
LEMMA Polls ==
  ASSUME ThreadType, Control, PollInv, NEW th \in Threads, pc[th] = "poll"
  PROVE  cur[th] \in Tasks /\ th \in Polling(cur[th]) /\ Active(bits[cur[th]])
<1>1. cur[th] \in Tasks BY DEF ThreadType, Control, Hand
<1>2. th \in Polling(cur[th]) BY DEF Polling
<1> QED BY <1>1, <1>2 DEF PollInv

\* A future that completes leaves its result.
LEMMA PollReadyTasks ==
  ASSUME TaskType, ThreadType, Control, CountInv, QueueInv, PollInv, FutureInv,
         NEW th \in Threads, PollReady(th)
  PROVE  QueueInv' /\ PollInv' /\ FutureInv'
<1> DEFINE t == cur[th]
<1>0. t \in Tasks /\ th \in Polling(t) /\ Active(bits[t]) BY Polls DEF PollReady
<1>1. Only(th) BY PollReadyTC
<1>2. /\ \A u \in Tasks \ {t} : bits'[u] = bits[u] /\ fut'[u] = fut[u]
      /\ bits'[t] = Complete(bits[t]) /\ fut'[t] = "result"
      /\ ready' = ready /\ pc'[th] = "finish"
  BY <1>0 DEF PollReady, TaskType, ThreadType
<1> HIDE DEF t
<1>3. QueueInv' BY <1>0, <1>2, QueueSame DEF Waiting, Active, Complete
<1>4. PollInv'
  <2>1. ~Active(bits'[t]) BY <1>2 DEF Active, Complete
  <2> QED BY <1>0, <1>1, <1>2, <2>1, PollEnds
<1>5. FutureInv'
  <2>1. "RESULT_TAKEN" \notin bits[t] BY <1>0 DEF Active, FutureInv
  <2>2. fut'[t] = FutureOf(bits'[t]) /\ "DONE" \in bits'[t]
    BY <1>2, <2>1 DEF FutureOf, HasResult, Complete
  <2> QED BY <1>2, <2>2 DEF FutureInv
<1> QED BY <1>3, <1>4, <1>5

\* A future that does not is given up, and queued if it was woken.
LEMMA PollPendingTasks ==
  ASSUME TaskType, ThreadType, Control, CountInv, QueueInv, PollInv, FutureInv,
         NEW th \in Threads, PollPending(th)
  PROVE  QueueInv' /\ PollInv' /\ FutureInv'
<1> DEFINE t == cur[th]
<1>0. t \in Tasks /\ th \in Polling(t) /\ Active(bits[t]) BY Polls DEF PollPending
<1>1. Only(th) BY PollPendingTC
<1>2. /\ \A u \in Tasks \ {t} : bits'[u] = bits[u]
      /\ bits'[t] = Release(bits[t]) /\ fut' = fut
      /\ ready' = IF "READY" \in bits[t] THEN Append(ready, t) ELSE ready
      /\ cur'[th] = NoTask
  BY <1>0 DEF PollPending, Polled, TaskType, ThreadType
<1> HIDE DEF t
<1>3. QueueInv'
  <2>1. ~Waiting(bits[t]) BY <1>0 DEF Active, Waiting
  <2>2. Waiting(bits'[t]) <=> "READY" \in bits[t] BY <1>0, <1>2 DEF Active, Waiting, Release
  <2>3. CASE "READY" \in bits[t] BY <1>0, <1>2, <2>1, <2>2, <2>3, QueueAppend
  <2>4. CASE "READY" \notin bits[t] BY <1>0, <1>2, <2>1, <2>2, <2>4, QueueSame
  <2> QED BY <2>3, <2>4
<1>4. PollInv'
  <2>1. ~Active(bits'[t]) BY <1>2 DEF Active, Release
  <2> QED BY <1>0, <1>1, <1>2, <2>1, Constants, PollEnds
<1>5. FutureInv'
  <2>1. "DONE" \notin bits[t] /\ "DONE" \notin bits'[t] BY <1>0, <1>2 DEF Active, Release
  <2>2. "RESULT_TAKEN" \notin bits'[t] BY <1>0, <1>2, <2>1 DEF FutureInv, Release
  <2>3. fut'[t] = FutureOf(bits'[t]) BY <1>0, <1>2, <2>1 DEF FutureInv, FutureOf
  <2> QED BY <1>2, <2>2, <2>3 DEF FutureInv
<1> QED BY <1>3, <1>4, <1>5

\* The main task was done, so that no one polls it or has it queued.
LEMMA SpawnMainTasks ==
  ASSUME TaskType, ThreadType, Control, RunInv, CountInv, QueueInv, PollInv, FutureInv, SpawnMain
  PROVE  QueueInv' /\ PollInv' /\ FutureInv'
<1> USE Constants
<1>1. Only(Runner) BY SpawnMainTC
<1>2. "DONE" \in bits[Main] BY DEF SpawnMain, RunInv, Ended
<1>3. /\ \A u \in Tasks \ {Main} : bits'[u] = bits[u] /\ fut'[u] = fut[u]
      /\ bits'[Main] = {"INACTIVE", "READY"} /\ fut'[Main] = "future"
      /\ ready' = Append(ready, Main)
      /\ cur' = cur /\ pc[Runner] = "idle" /\ pc'[Runner] = "notify"
  BY DEF SpawnMain, Call, MarkReady, NewFuture, TaskType, ThreadType
<1>4. QueueInv' BY <1>2, <1>3, QueueAppend DEF Waiting
<1>5. PollInv' BY <1>1, <1>2, <1>3, PollSame DEF Active
<1>6. FutureInv' BY <1>3 DEF FutureInv, FutureOf
<1> QED BY <1>4, <1>5, <1>6

\* No one polls a task when the executor drops them all.
LEMMA OnParentDropTasks ==
  ASSUME TaskType, ThreadType, Control, RunInv, CountInv, QueueInv, PollInv, FutureInv, OnParentDrop
  PROVE  QueueInv' /\ PollInv' /\ FutureInv'
<1> USE Constants
<1>1. Only(Runner) BY OnParentDropTC
<1>2. "DONE" \in bits[Main] /\ \A w \in Workers : pc[w] = "exited"
  BY DEF OnParentDrop, RunInv, Ended, Stopped
<1>3. \A t \in finished : "DONE" \in bits[t] BY <1>2 DEF RunInv
<1>4. ASSUME NEW t \in Tasks PROVE "DONE" \in bits'[t] /\ fut'[t] = FutureOf(bits'[t])
  <2>1. CASE t \in finished
    BY <1>3, <2>1 DEF OnParentDrop, FutureInv
  <2>2. CASE t \notin finished /\ "DONE" \in bits[t]
    <3>1. bits'[t] = bits[t] \ {"INACTIVE"} /\ fut'[t] = fut[t] BY <2>2 DEF OnParentDrop, TryDrop
    <3>2. HasResult(bits'[t]) <=> HasResult(bits[t]) BY <3>1 DEF HasResult
    <3> QED BY <2>2, <3>1, <3>2 DEF FutureInv, FutureOf
  <2>3. CASE t \notin finished /\ "DONE" \notin bits[t]
    <3>1. /\ bits'[t] = (bits[t] \ {"INACTIVE"}) \cup {"DONE", "RESULT_TAKEN"} /\ fut'[t] = "none"
      BY <2>3 DEF OnParentDrop, TryDrop, DropFuture
    <3> QED BY <3>1 DEF FutureOf, HasResult
  <2> QED BY <2>1, <2>2, <2>3
<1>5. QueueInv'
  <2>1. ready' = <<>> BY DEF OnParentDrop
  <2> QED BY <1>4, <2>1 DEF QueueInv, InQueue, Waiting
<1>6. PollInv'
  <2>1. \A th \in Threads : cur'[th] = NoTask
    BY <1>2 DEF OnParentDrop, Control, Hand, Place, Calling, ThreadType
  <2>2. \A t \in Tasks : Polling(t)' = {} BY <2>1 DEF Polling
  <2> QED BY <1>4, <2>2 DEF PollInv, Active
<1>7. FutureInv' BY <1>4 DEF FutureInv
<1> QED BY <1>5, <1>6, <1>7

\* The other steps do nothing to the tasks.
LEMMA DidFinishTasks ==
  ASSUME TaskType, ThreadType, Control, CountInv, QueueInv, PollInv, FutureInv,
         NEW th \in Threads, DidFinish(th)
  PROVE  QueueInv' /\ PollInv' /\ FutureInv'
<1>1. Only(th) BY DidFinishTC
<1>2. pc[th] = "finish" /\ cur'[th] = NoTask /\ UNCHANGED <<bits, fut, ready>>
  BY DidFinishEffect DEF ThreadType
<1> QED BY <1>1, <1>2, Constants, TasksSame

\* Nor does posting a notification.
LEMMA NotifyTasks ==
  ASSUME TaskType, ThreadType, Control, CountInv, QueueInv, PollInv, FutureInv, NEW th \in Threads,
         NotifyTaskReady(th) \/ NotifyId(th)
  PROVE  QueueInv' /\ PollInv' /\ FutureInv'
<1>1. Only(th) BY NotifyTaskReadyTC, NotifyIdTC
<1>2. UNCHANGED <<bits, fut, ready, cur>> BY DEF NotifyTaskReady, NotifyId
<1>3. pc[th] \in {"notify", "post"} /\ pc'[th] \in {"post", ret[th]}
  BY DEF NotifyTaskReady, NotifyId, TryNotify, Return, ThreadType
<1>4. pc'[th] # "finish" BY <1>3, Constants DEF Control, Place, Calling
<1> QED BY <1>1, <1>2, <1>3, <1>4, TasksSame

\* Nor do these steps of workers and other threads.
LEMMA StepTasks ==
  ASSUME TaskType, ThreadType, Control, CountInv, QueueInv, PollInv, FutureInv, NEW th \in Threads,
         \/ MoreReady(th) \/ NoneReady(th) \/ Sleep(th) \/ Recheck(th) \/ LostRace(th)
         \/ CheckDone(th) \/ Receive(th) \/ TimedOut(th) \/ WakeUp(th)
         \/ NoMoreTasks(th) \/ Leave(th) \/ Left(th) \/ Enter(th)
  PROVE  QueueInv' /\ PollInv' /\ FutureInv'
<1> USE TasksSame DEF ThreadType
<1>1. CASE MoreReady(th) BY <1>1, MoreReadyTC DEF MoreReady, TryNotify
<1>2. CASE NoneReady(th) BY <1>2, NoneReadyTC DEF NoneReady
<1>3. CASE Sleep(th) BY <1>3, SleepTC DEF Sleep
<1>4. CASE Recheck(th) BY <1>4, RecheckTC DEF Recheck
<1>5. CASE LostRace(th) BY <1>5, LostRaceTC DEF LostRace
<1>6. CASE CheckDone(th) BY <1>6, CheckDoneTC DEF CheckDone
<1>7. CASE Receive(th) BY <1>7, ReceiveTC DEF Receive
<1>8. CASE TimedOut(th) BY <1>8, TimedOutTC DEF TimedOut
<1>9. CASE WakeUp(th) BY <1>9, WakeUpTC DEF WakeUp
<1>10. CASE NoMoreTasks(th) BY <1>10, NoMoreTasksTC DEF NoMoreTasks
<1>11. CASE Leave(th) BY <1>11, LeaveTC DEF Leave
<1>12. CASE Left(th) BY <1>12, LeftTC DEF Left
<1>13. CASE Enter(th) BY <1>13, EnterTC DEF Enter
<1> QED BY <1>1, <1>2, <1>3, <1>4, <1>5, <1>6, <1>7, <1>8, <1>9, <1>10, <1>11, <1>12, <1>13

\* Nor does run(), while it waits and as it ends.
LEMMA RunnerTasks ==
  ASSUME TaskType, ThreadType, Control, CountInv, QueueInv, PollInv, FutureInv,
         Finished \/ NotifyAll \/ JoinAll \/ WakeOneThread \/ Drop
  PROVE  QueueInv' /\ PollInv' /\ FutureInv'
<1>1. Only(Runner) /\ Control' BY FinishedTC, NotifyAllTC, JoinAllTC, WakeOneThreadTC, DropTC
<1>2. UNCHANGED <<bits, fut, ready, cur>>
  BY DEF Finished, NotifyAll, JoinAll, WakeOneThread, Drop, MarkDone
<1>3. pc[Runner] # "finish" /\ pc'[Runner] # "finish"
  BY <1>1, Constants DEF Control, Place, RunnerPlaces
<1> QED BY <1>1, <1>2, <1>3, Constants, TasksSame

\* Nor does starting the workers, which polled nothing.
LEMMA CreateWorkerThreadsTasks ==
  ASSUME TaskType, ThreadType, Control, RunInv, QueueInv, PollInv, FutureInv, CreateWorkerThreads
  PROVE  QueueInv' /\ PollInv' /\ FutureInv'
<1> USE Constants
<1>1. UNCHANGED <<bits, fut, ready, cur>> BY DEF CreateWorkerThreads
<1>2. \A w \in Workers : pc[w] = "exited" BY DEF CreateWorkerThreads, RunInv, Stopped, Starting
<1>3. \A w \in Workers : cur[w] = NoTask BY <1>2 DEF Control, Hand, Place, Calling
<1>4. \A o \in Others : pc'[o] = pc[o] BY DEF CreateWorkerThreads
<1>5. pc[Runner] # "finish" /\ pc'[Runner] # "finish" BY DEF CreateWorkerThreads
<1>6. \A t \in Tasks, th \in Threads : th \in Polling(t)' <=> th \in Polling(t)
  BY <1>1, <1>3, <1>4, <1>5 DEF Polling
<1>7. \A t \in Tasks : Polling(t)' = Polling(t) BY <1>6 DEF Polling
<1>8. QueueInv' BY <1>1, QueueSame
<1>9. PollInv' BY <1>1, <1>7 DEF PollInv
<1>10. FutureInv' BY <1>1 DEF FutureInv
<1> QED BY <1>8, <1>9, <1>10

\* What is said of tasks depends on these variables only.
LEMMA NoTasksChange ==
  ASSUME QueueInv, PollInv, FutureInv, UNCHANGED <<bits, fut, ready, pc, cur>>
  PROVE  QueueInv' /\ PollInv' /\ FutureInv'
  BY DEF QueueInv, InQueue, PollInv, Polling, FutureInv

\* The tasks are new, and the main one is done.
LEMMA InitTasks ==
  ASSUME Init PROVE QueueInv /\ PollInv /\ FutureInv
<1> USE Constants
<1>1. QueueInv BY DEF Init, QueueInv, InQueue, Waiting, NewFuture, DropFuture
<1>2. \A t \in Tasks : Polling(t) = {} BY DEF Init, Polling
<1>3. PollInv BY <1>2 DEF Init, PollInv, Active, NewFuture, DropFuture
<1>4. ASSUME NEW t \in Tasks
      PROVE  fut[t] = FutureOf(bits[t]) /\ ("RESULT_TAKEN" \in bits[t] => "DONE" \in bits[t])
  <2>1. CASE t = Main
    <3>1. bits[t] = {"DONE", "RESULT_TAKEN"} /\ fut[t] = "none" BY <2>1 DEF Init, DropFuture
    <3> QED BY <3>1 DEF FutureOf, HasResult
  <2>2. CASE t # Main
    <3>1. bits[t] = {"INACTIVE"} /\ fut[t] = "future" BY <2>2 DEF Init, NewFuture
    <3> QED BY <3>1 DEF FutureOf
  <2> QED BY <2>1, <2>2
<1>5. FutureInv BY <1>4 DEF FutureInv
<1> QED BY <1>1, <1>3, <1>5
-----------------------------------------------------------------------------
(***************************************************************************)
(* threads_state.                                                          *)
(***************************************************************************)
\* No thread enters poll_tasks or leaves it.
LEMMA ForeignSame ==
  ASSUME ForeignCount, NEW th \in Threads, Only(th), foreign' = foreign,
         th \in Others => (InPollTasks(th)' <=> InPollTasks(th))
  PROVE  ForeignCount'
<1>1. \A o \in Others : InPollTasks(o)' <=> InPollTasks(o) BY Constants DEF InPollTasks, Only
<1>2. Foreign' = Foreign BY <1>1 DEF Foreign, InPollTasks
<1> QED BY <1>2 DEF ForeignCount

\* A thread that enters was not counted.
LEMMA EnterForeign ==
  ASSUME TaskType, ThreadType, Control, CountInv, NEW th \in Threads, Enter(th)
  PROVE  ForeignCount'
<1>1. Only(th) BY EnterTC
<1>2. /\ th \in Others /\ pc[th] = "idle" /\ pc'[th] = "callback" /\ ret[th] = "idle"
      /\ foreign' = foreign + 1
  BY Constants DEF Enter, ThreadType, Control, Place, Calling
<1>3. Foreign' = Foreign \cup {th} /\ th \notin Foreign BY <1>1, <1>2, Constants DEF Foreign, Only
<1>4. IsFiniteSet(Foreign) BY Constants, FS_Subset DEF Foreign
<1>5. Cardinality(Foreign') = Cardinality(Foreign) + 1 BY <1>3, <1>4, FS_AddElement
<1> QED BY <1>2, <1>5 DEF CountInv, ForeignCount

\* A thread that leaves was.
LEMMA LeaveForeign ==
  ASSUME TaskType, ThreadType, Control, CountInv, NEW th \in Threads, Leave(th)
  PROVE  ForeignCount'
<1>1. Only(th) BY LeaveTC
<1>2. /\ th \in Others /\ pc[th] = "leave" /\ pc'[th] \in {"left", "idle"} /\ ret'[th] = "idle"
      /\ foreign' = foreign - 1
  BY Constants DEF Leave, ThreadType, Control, Place, Calling, WorkerPlaces, RunnerPlaces
<1>3. Foreign' = Foreign \ {th} /\ th \in Foreign BY <1>1, <1>2, Constants DEF Foreign, Only
<1>4. IsFiniteSet(Foreign) BY Constants, FS_Subset DEF Foreign
<1>5. Cardinality(Foreign') = Cardinality(Foreign) - 1 BY <1>3, <1>4, FS_RemoveElement
<1>6. Cardinality(Foreign') \in Nat BY <1>3, <1>4, FS_RemoveElement, FS_CardinalityType
<1> QED BY <1>2, <1>5, <1>6 DEF CountInv, ForeignCount

\* At most as many workers sleep as there are.
LEMMA AsleepFinite ==
  IsFiniteSet(Asleep) /\ Cardinality(Asleep) \in Nat /\ Cardinality(Asleep) <= NumThreads
<1>1. Asleep \subseteq Workers BY DEF Asleep
<1> QED BY <1>1, Constants, FS_Subset, FS_CardinalityType DEF NumThreads

\* No worker goes to sleep or wakes up.
LEMMA SleepSame ==
  ASSUME TaskType, SleepCount, UNCHANGED <<sleeping, counted>>, runs' = runs \/ runs' = runs + 1
  PROVE  SleepCount'
  BY DEF SleepCount, Asleep, TaskType

\* A worker that goes to sleep was not counted.
LEMMA SleepSleeping ==
  ASSUME TaskType, ThreadType, Control, CountInv, NEW th \in Threads, Sleep(th)
  PROVE  SleepCount'
<1>1. th \in Workers /\ sleeping' = sleeping + 1 /\ runs' = runs
  BY Constants DEF Sleep, Control, Place, OtherPlaces, RunnerPlaces
<1>2. ~counted[th] BY DEF Sleep, Control, Sleeper
<1>3. Asleep' = Asleep \cup {th} /\ th \notin Asleep
  BY <1>1, <1>2, Constants DEF Sleep, Asleep, ThreadType
<1>4. Cardinality(Asleep') = Cardinality(Asleep) + 1 BY <1>3, AsleepFinite, FS_AddElement
<1> QED BY <1>1, <1>4, AsleepFinite DEF CountInv, SleepCount

\* A worker is subtracted exactly if it was counted.
LEMMA AwakeSleeping ==
  ASSUME TaskType, ThreadType, Control, CountInv, NEW th \in Workers, runs' = runs,
         counted' = [counted EXCEPT ![th] = FALSE],
         sleeping' = IF counted[th] THEN sleeping - 1 ELSE sleeping
  PROVE  SleepCount'
<1>1. CASE counted[th]
  <2>1. Asleep' = Asleep \ {th} /\ th \in Asleep BY <1>1, Constants DEF Asleep, ThreadType
  <2>2. Cardinality(Asleep') = Cardinality(Asleep) - 1 /\ Cardinality(Asleep') \in Nat
    BY <2>1, AsleepFinite, FS_RemoveElement, FS_CardinalityType
  <2> QED BY <1>1, <2>2, AsleepFinite DEF CountInv, SleepCount
<1>2. CASE ~counted[th]
  <2>1. Asleep' = Asleep BY <1>2, Constants DEF Asleep, ThreadType
  <2> QED BY <1>2, <2>1 DEF CountInv, SleepCount
<1> QED BY <1>1, <1>2

\* The workers start awake, and none was counted in the first run.
LEMMA CreateWorkerThreadsSleeping ==
  ASSUME TaskType, ThreadType, Control, RunInv, CountInv, CreateWorkerThreads
  PROVE  SleepCount'
<1>1. Asleep' = {} BY Constants DEF Asleep, CreateWorkerThreads
<1>2. Cardinality(Asleep') = 0 BY <1>1, FS_EmptySet
<1>3. Starting /\ runs # 0 /\ runs' = runs /\ sleeping' = sleeping
  BY DEF CreateWorkerThreads, Starting, RunInv
<1>4. ASSUME runs <= 1 PROVE sleeping = 0
  <2>1. runs = 1 BY <1>3, <1>4 DEF TaskType
  <2>2. Asleep = {} BY <1>3, <2>1 DEF RunInv, Asleep
  <2> QED BY <1>4, <2>2, FS_EmptySet DEF CountInv, SleepCount
<1> QED BY <1>2, <1>3, <1>4 DEF CountInv, SleepCount

\* How often a packet is on the port, as one is posted and as one is taken.
LEMMA OccurrencesFinite ==
  ASSUME NEW S, NEW s \in Seq(S), NEW e
  PROVE  IsFiniteSet(Occurrences(s, e)) /\ Cardinality(Occurrences(s, e)) \in Nat
<1>1. Occurrences(s, e) \subseteq 1..Len(s) /\ Len(s) \in Int BY DEF Occurrences
<1>2. IsFiniteSet(1..Len(s)) BY <1>1, FS_Interval
<1>3. IsFiniteSet(Occurrences(s, e)) BY <1>1, <1>2, FS_Subset
<1> QED BY <1>3, FS_CardinalityType

\* One more, if it is the packet that is posted.
LEMMA OccurrencesAppend ==
  ASSUME NEW S, NEW s \in Seq(S), NEW x \in S, NEW e
  PROVE  Cardinality(Occurrences(Append(s, x), e))
         = IF x = e THEN Cardinality(Occurrences(s, e)) + 1 ELSE Cardinality(Occurrences(s, e))
<1>1. CASE x = e
  <2>1. Occurrences(Append(s, x), e) = Occurrences(s, e) \cup {Len(s) + 1} BY <1>1 DEF Occurrences
  <2>2. Len(s) + 1 \notin Occurrences(s, e) BY DEF Occurrences
  <2>3. IsFiniteSet(Occurrences(s, e)) BY OccurrencesFinite
  <2> QED BY <1>1, <2>1, <2>2, <2>3, FS_AddElement
<1>2. CASE x # e
  <2>1. Occurrences(Append(s, x), e) = Occurrences(s, e) BY <1>2 DEF Occurrences
  <2> QED BY <1>2, <2>1
<1> QED BY <1>1, <1>2

\* One less, if it is the one that is taken.
LEMMA OccurrencesTail ==
  ASSUME NEW S, NEW s \in Seq(S), s # <<>>, NEW e
  PROVE  Cardinality(Occurrences(s, e))
         = IF Head(s) = e THEN Cardinality(Occurrences(Tail(s), e)) + 1
           ELSE Cardinality(Occurrences(Tail(s), e))
<1> DEFINE A == Occurrences(Tail(s), e)
           B == Occurrences(s, e) \ {1}
           f == [i \in A |-> i + 1]
<1>1. /\ Tail(s) \in Seq(S) /\ Len(Tail(s)) = Len(s) - 1 /\ Len(s) \in Nat \ {0} /\ Head(s) = s[1]
      /\ \A i \in 1..Len(s) - 1 : Tail(s)[i] = s[i + 1]
  OBVIOUS
<1>2. DOMAIN Tail(s) = 1..Len(s) - 1 /\ DOMAIN s = 1..Len(s) BY <1>1
<1>3. f \in [A -> B] BY <1>1, <1>2 DEF Occurrences
<1>4. \A i, j \in A : f[i] = f[j] => i = j BY <1>1, <1>2 DEF Occurrences
<1>5. ASSUME NEW b \in B PROVE \E i \in A : f[i] = b
  <2>1. b - 1 \in A BY <1>1, <1>2 DEF Occurrences
  <2>2. b \in Int BY <1>2 DEF Occurrences
  <2> QED BY <2>1, <2>2
<1>6. f \in Bijection(A, B) BY <1>3, <1>4, <1>5 DEF Bijection, Injection, Surjection, IsInjective
<1>7. IsFiniteSet(A) BY <1>1, OccurrencesFinite
<1>8. Cardinality(B) = Cardinality(A) BY <1>6, <1>7, FS_Bijection DEF ExistsBijection
<1>9. 1 \in Occurrences(s, e) <=> Head(s) = e BY <1>1, <1>2 DEF Occurrences
<1>10. /\ Cardinality(B) = IF Head(s) = e THEN Cardinality(Occurrences(s, e)) - 1
                           ELSE Cardinality(Occurrences(s, e))
       /\ Cardinality(Occurrences(s, e)) \in Nat
  BY <1>9, OccurrencesFinite, FS_RemoveElement
<1> QED BY <1>8, <1>10

\* The notifications that are still to be posted.
LEMMA UnpostedFinite ==
  ASSUME ThreadType
  PROVE  IsFiniteSet(Unposted) /\ Cardinality(Unposted) \in Nat
<1>1. \A th \in Threads : \A i \in 1..posts[th] : i \in 1..NumThreads BY Constants DEF ThreadType
<1>2. Unposted \subseteq Threads \X (1..NumThreads) BY <1>1 DEF Unposted
<1>3. IsFiniteSet(1..NumThreads) BY Constants, FS_Interval
<1>4. IsFiniteSet(Threads \X (1..NumThreads)) BY <1>3, Constants, FS_Product
<1>5. IsFiniteSet(Unposted) BY <1>2, <1>4, FS_Subset
<1> QED BY <1>5, FS_CardinalityType

\* A thread that has none to post is given n.
LEMMA UnpostedMore ==
  ASSUME ThreadType, NEW th \in Threads, posts[th] = 0, NEW n \in 0..NumThreads,
         posts' = [posts EXCEPT ![th] = n]
  PROVE  Cardinality(Unposted') = Cardinality(Unposted) + n
<1> DEFINE P == {<<th, i>> : i \in 1..n}
           f == [i \in 1..n |-> <<th, i>>]
<1>0. n \in Nat BY Constants
<1>1. IsFiniteSet(P) /\ Cardinality(P) = n
  <2>1. f \in [1..n -> P] OBVIOUS
  <2>2. \A i, j \in 1..n : f[i] = f[j] => i = j OBVIOUS
  <2>3. \A b \in P : \E i \in 1..n : f[i] = b OBVIOUS
  <2>4. f \in Bijection(1..n, P) BY <2>1, <2>2, <2>3 DEF Bijection, Injection, Surjection, IsInjective
  <2>5. IsFiniteSet(1..n) /\ Cardinality(1..n) = n BY <1>0, FS_Interval
  <2> QED BY <2>4, <2>5, FS_Bijection DEF ExistsBijection
<1>2. \A u \in Threads : posts'[u] = IF u = th THEN n ELSE posts[u] BY DEF ThreadType
<1>3. Unposted' = Unposted \cup P BY <1>0, <1>2 DEF Unposted
<1>4. Unposted \cap P = {} BY DEF Unposted
<1>5. Cardinality(Unposted \cap P) = 0 BY <1>4, FS_EmptySet
<1>6. IsFiniteSet(Unposted) /\ Cardinality(Unposted) \in Nat BY UnpostedFinite
<1>7. Cardinality(Unposted \cup P) = Cardinality(Unposted) + Cardinality(P) - Cardinality(Unposted \cap P)
  BY <1>1, <1>6, FS_Union
<1> QED BY <1>0, <1>1, <1>3, <1>5, <1>6, <1>7

\* It posts one.
LEMMA UnpostedLess ==
  ASSUME ThreadType, NEW th \in Threads, posts[th] > 0, posts' = [posts EXCEPT ![th] = @ - 1]
  PROVE  Cardinality(Unposted) = Cardinality(Unposted') + 1 /\ Cardinality(Unposted') \in Nat
<1> DEFINE n == posts[th]
<1>1. n \in Nat \ {0} BY Constants DEF ThreadType
<1>2. \A u \in Threads : posts'[u] = IF u = th THEN n - 1 ELSE posts[u] BY DEF ThreadType
<1>3. Unposted' = Unposted \ {<<th, n>>} BY <1>1, <1>2 DEF Unposted
<1>4. <<th, n>> \in Unposted BY <1>1 DEF Unposted
<1>5. IsFiniteSet(Unposted) /\ Cardinality(Unposted) \in Nat BY UnpostedFinite
<1> HIDE DEF n
<1>6. /\ Cardinality(Unposted \ {<<th, n>>}) = Cardinality(Unposted) - 1
      /\ Cardinality(Unposted \ {<<th, n>>}) \in Nat
  BY <1>4, <1>5, FS_RemoveElement, FS_CardinalityType
<1> QED BY <1>3, <1>5, <1>6

\* The workers that have just taken a notification are finitely many.
LEMMA AwokenFinite ==
  IsFiniteSet(Awoken) /\ Cardinality(Awoken) \in Nat
<1>1. Awoken \subseteq Workers BY DEF Awoken
<1> QED BY <1>1, Constants, FS_Subset, FS_CardinalityType

\* No worker takes one, or takes note of one.
LEMMA AwokenSame ==
  ASSUME NEW th \in Threads, Only(th), th \in Workers => (IsAwoken(th)' <=> IsAwoken(th))
  PROVE  Awoken' = Awoken
<1>1. \A w \in Workers : IsAwoken(w)' <=> IsAwoken(w) BY Constants DEF IsAwoken, Only
<1> QED BY <1>1 DEF Awoken

\* No notification is made, posted or taken.
LEMMA NotifySame ==
  ASSUME TaskType, NotifyCount, UNCHANGED <<notified, port, posts>>, runs' = runs \/ runs' = runs + 1,
         Awoken' = Awoken
  PROVE  NotifyCount'
<1>1. Unposted' = Unposted BY DEF Unposted
<1> QED BY <1>1 DEF NotifyCount, TaskType

\* One more notification, to be posted.
LEMMA NotifyMore ==
  ASSUME TaskType, ThreadType, Control, CountInv, NEW th \in Threads, Only(th), pc[th] # "post",
         NEW n \in 0..NumThreads, posts' = [posts EXCEPT ![th] = n], notified' = notified + n,
         UNCHANGED <<port, runs>>, runs <= 1 => notified + n <= NumThreads,
         pc[th] # "wake_up", pc'[th] # "wake_up"
  PROVE  NotifyCount'
<1>0. n \in Nat BY Constants
<1>1. posts[th] = 0 BY Constants DEF ThreadType, Control, Hand
<1>2. Cardinality(Unposted') = Cardinality(Unposted) + n BY <1>1, UnpostedMore
<1>3. Awoken' = Awoken BY AwokenSame DEF IsAwoken
<1>4. Cardinality(Unposted) \in Nat /\ Cardinality(Awoken) \in Nat
      /\ Cardinality(Occurrences(port, Wakeup)) \in Nat
  BY UnpostedFinite, AwokenFinite, OccurrencesFinite DEF TaskType
<1> QED BY <1>0, <1>2, <1>3, <1>4 DEF CountInv, NotifyCount

\* notify_task_ready makes one when every worker sleeps and none is on its way.
LEMMA NotifyTaskReadyCount ==
  ASSUME TaskType, ThreadType, Control, CountInv, NEW th \in Threads, NotifyTaskReady(th)
  PROVE  NotifyCount'
<1>1. Only(th) BY NotifyTaskReadyTC
<1>2. pc[th] = "notify" /\ UNCHANGED <<port, runs, arg>> BY DEF NotifyTaskReady
<1>3. CASE AllAsleep /\ TryNotify(th)
  <2>1. /\ posts' = [posts EXCEPT ![th] = 1] /\ notified' = notified + 1 /\ pc'[th] = "post"
        /\ notified = 0
    BY <1>3 DEF TryNotify, ThreadType, AllAsleep
  <2>2. 1 \in 0..NumThreads /\ notified + 1 <= NumThreads BY <2>1, Constants
  <2> QED BY <1>1, <1>2, <2>1, <2>2, NotifyMore
<1>4. CASE Return(th) /\ UNCHANGED <<notified, posts>>
  <2>1. pc'[th] = ret[th] BY <1>4 DEF Return, ThreadType
  <2>2. pc'[th] # "wake_up" BY <1>2, <2>1, Constants DEF Control, Place, Calling
  <2>3. Awoken' = Awoken BY <1>1, <1>2, <2>2, AwokenSame DEF IsAwoken
  <2> QED BY <1>2, <1>4, <2>3, NotifySame DEF CountInv
<1> QED BY <1>3, <1>4 DEF NotifyTaskReady

\* A worker that leaves tasks behind makes one if fewer are on their way than workers sleep.
LEMMA MoreReadyCount ==
  ASSUME TaskType, ThreadType, Control, CountInv, NEW th \in Threads, MoreReady(th)
  PROVE  NotifyCount'
<1>1. Only(th) BY MoreReadyTC
<1>2. pc[th] = "more" /\ UNCHANGED <<port, runs, arg>> BY DEF MoreReady
<1>3. CASE notified < sleeping /\ TryNotify(th)
  <2>1. posts' = [posts EXCEPT ![th] = 1] /\ notified' = notified + 1 /\ pc'[th] = "post"
    BY <1>3 DEF TryNotify, ThreadType
  <2>2. runs <= 1 => notified + 1 <= NumThreads
    BY <1>3, AsleepFinite, Constants DEF CountInv, SleepCount, NotifyCount
  <2>3. 1 \in 0..NumThreads BY Constants
  <2> QED BY <1>1, <1>2, <2>1, <2>2, <2>3, NotifyMore
<1>4. CASE /\ pc' \in {[pc EXCEPT ![th] = "check_done"], [pc EXCEPT ![th] = "pop"]}
           /\ UNCHANGED <<notified, posts>>
  <2>1. pc'[th] # "wake_up" BY <1>4 DEF ThreadType
  <2>2. Awoken' = Awoken BY <1>1, <1>2, <2>1, AwokenSame DEF IsAwoken
  <2> QED BY <1>2, <1>4, <2>2, NotifySame DEF CountInv
<1> QED BY <1>3, <1>4 DEF MoreReady

\* The monitor makes one if none is on its way.
LEMMA WakeOneThreadCount ==
  ASSUME TaskType, ThreadType, Control, CountInv, WakeOneThread
  PROVE  NotifyCount'
<1>1. Only(Runner) BY WakeOneThreadTC
<1>2. /\ pc[Runner] = "monitor" /\ pc'[Runner] = "post" /\ UNCHANGED <<port, runs>>
      /\ posts' = [posts EXCEPT ![Runner] = 1] /\ notified' = notified + 1 /\ notified = 0
  BY Constants DEF WakeOneThread, TryNotify, ThreadType
<1>3. 1 \in 0..NumThreads /\ notified + 1 <= NumThreads BY <1>2, Constants
<1> QED BY <1>1, <1>2, <1>3, Constants, NotifyMore

\* mark_done makes as many as are missing.
LEMMA NotifyAllCount ==
  ASSUME TaskType, ThreadType, Control, CountInv, NotifyAll
  PROVE  NotifyCount'
<1>1. Only(Runner) BY NotifyAllTC
<1>2. pc[Runner] = "notify_all" /\ UNCHANGED <<port, runs, arg>> BY DEF NotifyAll
<1>3. CASE notified < NumThreads /\ notified' = NumThreads
           /\ posts' = [posts EXCEPT ![Runner] = NumThreads - notified] /\ Go(Runner, "post")
  <2>1. pc'[Runner] = "post" BY <1>3, Constants DEF ThreadType
  <2>2. NumThreads - notified \in 0..NumThreads /\ notified' = notified + (NumThreads - notified)
        /\ notified + (NumThreads - notified) <= NumThreads
    BY <1>3, Constants DEF CountInv, NotifyCount
  <2> QED BY <1>1, <1>2, <1>3, <2>1, <2>2, Constants, NotifyMore
<1>4. CASE UNCHANGED <<notified, posts>>
  <2>1. Awoken' = Awoken BY <1>1, Constants, AwokenSame
  <2> QED BY <1>2, <1>4, <2>1, NotifySame DEF CountInv
<1> QED BY <1>3, <1>4 DEF NotifyAll

\* A notification moves from its thread to the port.
LEMMA NotifyIdCount ==
  ASSUME TaskType, ThreadType, Control, CountInv, NEW th \in Threads, NotifyId(th)
  PROVE  NotifyCount'
<1>1. Only(th) BY NotifyIdTC
<1>2. /\ pc[th] = "post" /\ port' = Append(port, Wakeup) /\ UNCHANGED <<notified, runs, arg>>
      /\ posts' = [posts EXCEPT ![th] = @ - 1]
  BY DEF NotifyId
<1>3. posts[th] > 0 BY <1>2 DEF Control, Hand
<1>4. Cardinality(Unposted) = Cardinality(Unposted') + 1 /\ Cardinality(Unposted') \in Nat
  BY <1>2, <1>3, UnpostedLess
<1>7. Cardinality(Occurrences(port', Wakeup)) = Cardinality(Occurrences(port, Wakeup)) + 1
  BY <1>2, OccurrencesAppend DEF TaskType
<1>8. pc'[th] # "wake_up"
  BY <1>2, Constants, ZenonT(30) DEF NotifyId, Return, ThreadType, Control, Place, Calling
<1>9. Awoken' = Awoken BY <1>1, <1>2, <1>8, AwokenSame DEF IsAwoken
<1>10. Cardinality(Awoken) \in Nat /\ Cardinality(Occurrences(port, Wakeup)) \in Nat
  BY AwokenFinite, OccurrencesFinite DEF TaskType
<1> QED BY <1>2, <1>4, <1>7, <1>9, <1>10 DEF CountInv, NotifyCount

\* A worker takes it from the port.
LEMMA ReceiveCount ==
  ASSUME TaskType, ThreadType, Control, CountInv, NEW th \in Threads, Receive(th)
  PROVE  NotifyCount'
<1>1. Only(th) BY ReceiveTC
<1>2. /\ pc[th] = "wait" /\ pc'[th] = "wake_up" /\ arg'[th] = Head(port) /\ port # <<>>
      /\ port' = Tail(port) /\ UNCHANGED <<notified, runs, posts>> /\ th \in Workers
  BY Constants DEF Receive, ThreadType, Control, Place, OtherPlaces, RunnerPlaces
<1>3. Unposted' = Unposted BY <1>2 DEF Unposted
<1>4. Cardinality(Occurrences(port, Wakeup))
      = IF Head(port) = Wakeup THEN Cardinality(Occurrences(port', Wakeup)) + 1
        ELSE Cardinality(Occurrences(port', Wakeup))
  BY <1>2, OccurrencesTail DEF TaskType
<1>5. /\ Cardinality(Occurrences(port', Wakeup)) \in Nat /\ Cardinality(Awoken) \in Nat
      /\ Cardinality(Unposted) \in Nat
  <2>1. port' \in Seq(Tasks \cup {Wakeup}) BY ReceiveTC DEF TaskType
  <2> QED BY <2>1, OccurrencesFinite, AwokenFinite, UnpostedFinite
<1>6. CASE Head(port) = Wakeup
  <2>1. \A w \in Workers : IsAwoken(w)' <=> (IsAwoken(w) \/ w = th)
    BY <1>1, <1>2, <1>6, Constants DEF IsAwoken, Only
  <2>2. Awoken' = Awoken \cup {th} /\ th \notin Awoken BY <1>2, <2>1 DEF Awoken, IsAwoken
  <2>3. Cardinality(Awoken') = Cardinality(Awoken) + 1 BY <2>2, AwokenFinite, FS_AddElement
  <2> QED BY <1>2, <1>3, <1>4, <1>5, <1>6, <2>3 DEF CountInv, NotifyCount
<1>7. CASE Head(port) # Wakeup
  <2>1. Awoken' = Awoken BY <1>1, <1>2, <1>7, AwokenSame DEF IsAwoken
  <2> QED BY <1>2, <1>3, <1>4, <1>5, <1>7, <2>1 DEF CountInv, NotifyCount
<1> QED BY <1>6, <1>7

\* It takes note of it.
LEMMA WakeUpCount ==
  ASSUME TaskType, ThreadType, Control, CountInv, NEW th \in Threads, WakeUp(th)
  PROVE  NotifyCount'
<1>1. Only(th) BY WakeUpTC
<1>2. /\ pc[th] = "wake_up" /\ pc'[th] \in {"pop", "deliver"} /\ arg' = arg /\ th \in Workers
      /\ notified' = (IF arg[th] = Wakeup THEN notified - 1 ELSE notified)
      /\ UNCHANGED <<port, runs, posts>>
  BY Constants DEF WakeUp, ThreadType, Control, Place, OtherPlaces, RunnerPlaces
<1>3. Unposted' = Unposted BY <1>2 DEF Unposted
<1>4. /\ Cardinality(Occurrences(port, Wakeup)) \in Nat /\ Cardinality(Awoken) \in Nat
      /\ Cardinality(Unposted) \in Nat
  BY OccurrencesFinite, AwokenFinite, UnpostedFinite DEF TaskType
<1>5. CASE arg[th] = Wakeup
  <2>1. \A w \in Workers : IsAwoken(w)' <=> (IsAwoken(w) /\ w # th)
    BY <1>1, <1>2, Constants DEF IsAwoken, Only
  <2>2. Awoken' = Awoken \ {th} /\ th \in Awoken BY <1>2, <1>5, <2>1 DEF Awoken, IsAwoken
  <2>3. Cardinality(Awoken') = Cardinality(Awoken) - 1 /\ Cardinality(Awoken') \in Nat
    BY <2>2, AwokenFinite, FS_RemoveElement, FS_CardinalityType
  <2> QED BY <1>2, <1>3, <1>4, <1>5, <2>3, Constants DEF CountInv, NotifyCount
<1>6. CASE arg[th] # Wakeup
  <2>1. Awoken' = Awoken BY <1>1, <1>2, <1>6, AwokenSame DEF IsAwoken
  <2> QED BY <1>2, <1>3, <1>4, <1>6, <2>1 DEF CountInv, NotifyCount
<1> QED BY <1>5, <1>6

\* The packet of a receiver is no notification.
LEMMA PacketArrivesCount ==
  ASSUME TaskType, ThreadType, Control, CountInv, PacketArrives
  PROVE  NotifyCount'
<1>1. PICK t \in Receivers : port' = Append(port, t) BY DEF PacketArrives
<1>2. t # Wakeup /\ t \in Tasks BY Constants DEF Wakeup
<1>3. Cardinality(Occurrences(port', Wakeup)) = Cardinality(Occurrences(port, Wakeup))
  <2>1. port \in Seq(Tasks \cup {Wakeup}) BY DEF TaskType
  <2> QED BY <1>1, <1>2, <2>1, OccurrencesAppend
<1>4. UNCHANGED <<notified, runs, posts, pc, arg>> BY DEF PacketArrives
<1>5. Unposted' = Unposted /\ Awoken' = Awoken BY <1>4 DEF Unposted, Awoken, IsAwoken
<1> QED BY <1>3, <1>4, <1>5 DEF CountInv, NotifyCount

\* The counts as a whole.
LEMMA CountSame ==
  ASSUME TaskType, CountInv, NEW th \in Threads, Only(th),
         UNCHANGED <<foreign, sleeping, counted, notified, port, posts>>, runs' = runs \/ runs' = runs + 1,
         th \in Others => (InPollTasks(th)' <=> InPollTasks(th)),
         th \in Workers => (IsAwoken(th)' <=> IsAwoken(th))
  PROVE  CountInv'
<1>1. ForeignCount' BY ForeignSame DEF CountInv
<1>2. SleepCount' BY SleepSame DEF CountInv
<1>3. NotifyCount' BY AwokenSame, NotifySame DEF CountInv
<1> QED BY <1>1, <1>2, <1>3 DEF CountInv

\* Polling changes no count.
LEMMA PollCount ==
  ASSUME TaskType, ThreadType, Control, CountInv, NEW th \in Threads,
         \/ TakeTaskResult(th) \/ Pop(th) \/ PollReady(th) \/ DidFinish(th) \/ PollPending(th)
  PROVE  CountInv'
<1> USE Constants
<1>1. Only(th) BY TakeTaskResultTC, PopTC, PollReadyTC, DidFinishTC, PollPendingTC
<1>2. UNCHANGED <<foreign, sleeping, counted, notified, port, posts, runs>>
  BY DEF TakeTaskResult, Pop, PollReady, DidFinish, PollPending
<1>3. \/ pc[th] = "take" /\ pc'[th] = ret[th] /\ ret'[th] = "idle"
      \/ /\ pc[th] \in {"pop", "poll", "finish"} /\ ret' = ret
         /\ pc'[th] \in {"pop", "poll", "finish", "more", "leave", "exited"}
         /\ th \in Others => pc'[th] \notin {"more", "exited"}
      \/ /\ pc[th] = "finish" /\ pc'[th] = "wake_joiner" /\ ret'[th] \in {"pop", "more", "leave"}
         /\ th \in Others => ret'[th] # "more"
  <2>1. CASE TakeTaskResult(th) BY <2>1 DEF TakeTaskResult, Return, ThreadType
  <2>2. CASE Pop(th) BY <2>2 DEF Pop, ThreadType
  <2>3. CASE PollReady(th) BY <2>3 DEF PollReady, ThreadType
  <2>4. CASE DidFinish(th) BY <2>4, DidFinishEffect DEF ThreadType
  <2>5. CASE PollPending(th) BY <2>5 DEF PollPending, Polled, AfterPoll, ThreadType
  <2> QED BY <2>1, <2>2, <2>3, <2>4, <2>5
<1>4. pc[th] # "wake_up" /\ pc'[th] # "wake_up" BY <1>3 DEF Control, Place, Calling, RunnerPlaces
<1>5. th \in Others => (InPollTasks(th)' <=> InPollTasks(th))
  BY <1>3 DEF InPollTasks, Control, Place, Calling
<1> QED BY <1>1, <1>2, <1>4, <1>5, CountSame DEF IsAwoken

\* Nor does waking a task.
LEMMA WakeCount ==
  ASSUME TaskType, ThreadType, Control, CountInv, NEW th \in Threads, NEW t \in Tasks,
         NEW back \in Backs, WakeStep(th, t, back)
  PROVE  CountInv'
<1> USE Constants
<1>1. Only(th) BY WakeTC
<1>2. UNCHANGED <<foreign, sleeping, counted, notified, port, posts, runs>> BY DEF WakeStep
<1>3. Waking(th, back) BY DEF WakeStep
<1>4. \/ pc'[th] = "notify" /\ ret'[th] = back
      \/ pc'[th] = back /\ ret'[th] = "idle"
  BY DEF WakeStep, Wake, Call, ThreadType
<1>5. pc[th] # "wake_up" /\ pc'[th] # "wake_up" BY <1>3, <1>4 DEF Waking
<1>6. th \in Others => (InPollTasks(th)' <=> InPollTasks(th))
  BY <1>3, <1>4 DEF Waking, InPollTasks, Control, Place, Calling, OtherPlaces
<1> QED BY <1>1, <1>2, <1>5, <1>6, CountSame DEF IsAwoken

\* Nor does cancelling one.
LEMMA CancelCount ==
  ASSUME TaskType, ThreadType, Control, CountInv, NEW th \in Threads, NEW t \in Tasks,
         NEW back \in {"idle", "poll"}, CancelStep(th, t, back)
  PROVE  CountInv'
<1> USE Constants
<1>1. Only(th) BY CancelTC
<1>2. UNCHANGED <<foreign, sleeping, counted, notified, port, posts, runs>> BY DEF CancelStep
<1>3. Waking(th, back) BY DEF CancelStep
<1>4. pc'[th] = "take" /\ ret'[th] = back BY DEF CancelStep, CancelTask, Call, ThreadType
<1>5. pc[th] # "wake_up" /\ pc'[th] # "wake_up" BY <1>3, <1>4 DEF Waking
<1>6. th \in Others => (InPollTasks(th)' <=> InPollTasks(th))
  BY <1>3, <1>4 DEF Waking, InPollTasks, Control, Place, Calling, OtherPlaces
<1> QED BY <1>1, <1>2, <1>5, <1>6, CountSame DEF IsAwoken

\* A notification is made, or goes to the port.
LEMMA NotifyingCount ==
  ASSUME TaskType, ThreadType, Control, CountInv, NEW th \in Threads, NotifyTaskReady(th) \/ NotifyId(th)
  PROVE  CountInv'
<1> USE Constants
<1>1. Only(th) BY NotifyTaskReadyTC, NotifyIdTC
<1>2. UNCHANGED <<foreign, sleeping, counted, runs>> BY DEF NotifyTaskReady, NotifyId
<1>3. \/ pc[th] = "notify" /\ pc'[th] = "post" /\ ret'[th] = ret[th]
      \/ pc[th] \in {"notify", "post"} /\ pc'[th] = ret[th] /\ ret'[th] = "idle"
      \/ pc[th] = "post" /\ pc'[th] = pc[th] /\ ret'[th] = ret[th]
  BY DEF NotifyTaskReady, NotifyId, TryNotify, Return, ThreadType
<1>4. th \in Others => (InPollTasks(th)' <=> InPollTasks(th))
  BY <1>3 DEF InPollTasks, Control, Place, Calling
<1>5. ForeignCount' BY <1>1, <1>2, <1>4, ForeignSame DEF CountInv
<1>6. SleepCount' BY <1>2, SleepSame DEF CountInv
<1> QED BY <1>5, <1>6, NotifyTaskReadyCount, NotifyIdCount DEF CountInv

\* The steps of workers.
LEMMA WorkerCount ==
  ASSUME TaskType, ThreadType, Control, CountInv, NEW th \in Threads,
         \/ MoreReady(th) \/ NoneReady(th) \/ Sleep(th) \/ Recheck(th) \/ LostRace(th)
         \/ CheckDone(th) \/ Receive(th) \/ TimedOut(th) \/ WakeUp(th)
  PROVE  CountInv'
<1> USE Constants
<1>0. th \in Workers
  BY DEF Control, Place, OtherPlaces, RunnerPlaces, MoreReady, NoneReady, Sleep, Recheck, LostRace, CheckDone,
     Receive, TimedOut, WakeUp
<1>1. ForeignCount'
  <2>1. Only(th)
    BY MoreReadyTC, NoneReadyTC, SleepTC, RecheckTC, LostRaceTC, CheckDoneTC, ReceiveTC, TimedOutTC, WakeUpTC
  <2>2. foreign' = foreign
    BY DEF MoreReady, NoneReady, Sleep, Recheck, LostRace, CheckDone, Receive, TimedOut, WakeUp
  <2> QED BY <1>0, <2>1, <2>2, ForeignSame DEF CountInv
<1>2. CASE MoreReady(th)
  <2>1. SleepCount' BY <1>2, SleepSame DEF CountInv, MoreReady
  <2> QED BY <1>1, <1>2, <2>1, MoreReadyCount DEF CountInv
<1>3. CASE NoneReady(th) BY <1>0, <1>3, NoneReadyTC, CountSame DEF NoneReady, IsAwoken, ThreadType
<1>4. CASE Sleep(th)
  <2>1. SleepCount' BY <1>4, SleepSleeping
  <2>2. pc[th] = "sleep" /\ pc'[th] = "recheck" /\ UNCHANGED <<notified, port, posts, runs>>
    BY <1>4 DEF Sleep, ThreadType
  <2>3. Awoken' = Awoken BY <1>4, <2>2, SleepTC, AwokenSame DEF IsAwoken
  <2>4. NotifyCount' BY <2>2, <2>3, NotifySame DEF CountInv
  <2> QED BY <1>1, <2>1, <2>4 DEF CountInv
<1>5. CASE Recheck(th) BY <1>0, <1>5, RecheckTC, CountSame DEF Recheck, IsAwoken, ThreadType
<1>6. CASE LostRace(th)
  <2>1. counted[th] BY <1>6 DEF LostRace, Control, Sleeper
  <2>2. SleepCount' BY <1>0, <1>6, <2>1, AwakeSleeping DEF LostRace
  <2>3. pc[th] = "lost_race" /\ pc'[th] = "check_done" /\ UNCHANGED <<notified, port, posts, runs>>
    BY <1>6 DEF LostRace, ThreadType
  <2>4. Awoken' = Awoken BY <1>6, <2>3, LostRaceTC, AwokenSame DEF IsAwoken
  <2>5. NotifyCount' BY <2>3, <2>4, NotifySame DEF CountInv
  <2> QED BY <1>1, <2>2, <2>5 DEF CountInv
<1>7. CASE CheckDone(th) BY <1>0, <1>7, CheckDoneTC, CountSame DEF CheckDone, IsAwoken, ThreadType
<1>8. CASE Receive(th)
  <2>1. SleepCount' BY <1>8, SleepSame DEF CountInv, Receive
  <2> QED BY <1>1, <1>8, <2>1, ReceiveCount DEF CountInv
<1>9. CASE TimedOut(th) BY <1>0, <1>9, TimedOutTC, CountSame DEF TimedOut, IsAwoken, ThreadType
<1>10. CASE WakeUp(th)
  <2>1. SleepCount' BY <1>0, <1>10, AwakeSleeping DEF WakeUp
  <2> QED BY <1>1, <1>10, <2>1, WakeUpCount DEF CountInv
<1> QED BY <1>2, <1>3, <1>4, <1>5, <1>6, <1>7, <1>8, <1>9, <1>10

\* Those of other threads.
LEMMA OtherCount ==
  ASSUME TaskType, ThreadType, Control, CountInv, NEW th \in Threads,
         NoMoreTasks(th) \/ Leave(th) \/ Left(th) \/ Enter(th)
  PROVE  CountInv'
<1> USE Constants
<1>0. th \in Others /\ ~(th \in Workers)
  BY DEF Control, Place, WorkerPlaces, RunnerPlaces, NoMoreTasks, Leave, Left, Enter
<1>1. Only(th) BY NoMoreTasksTC, LeaveTC, LeftTC, EnterTC
<1>2. UNCHANGED <<sleeping, counted, notified, port, posts, runs>>
  BY DEF NoMoreTasks, Leave, Left, Enter
<1>3. SleepCount' /\ NotifyCount' BY <1>0, <1>1, <1>2, SleepSame, AwokenSame, NotifySame DEF CountInv
<1> USE <1>0, <1>1, <1>2, <1>3, CountSame DEF InPollTasks, ThreadType, Control, Place, Calling
<1>4. CASE NoMoreTasks(th) BY <1>4 DEF NoMoreTasks
<1>5. CASE Left(th) BY <1>5 DEF Left
<1>6. CASE Leave(th) BY <1>6, LeaveForeign DEF CountInv
<1>7. CASE Enter(th) BY <1>7, EnterForeign DEF CountInv
<1> QED BY <1>4, <1>5, <1>6, <1>7

\* Those of run(), join_all and drop.
LEMMA RunnerCount ==
  ASSUME TaskType, ThreadType, Control, RunInv, CountInv,
         Finished \/ NotifyAll \/ JoinAll \/ WakeOneThread \/ Drop \/ SpawnMain \/ OnParentDrop
  PROVE  CountInv'
<1> USE Constants
<1>1. Only(Runner)
  BY FinishedTC, NotifyAllTC, JoinAllTC, WakeOneThreadTC, DropTC, SpawnMainTC, OnParentDropTC
<1>2. UNCHANGED <<foreign, sleeping, counted>> /\ (runs' = runs \/ runs' = runs + 1)
  BY DEF Finished, NotifyAll, JoinAll, WakeOneThread, Drop, MarkDone, SpawnMain, OnParentDrop
<1>3. ForeignCount' BY <1>1, <1>2, ForeignSame DEF CountInv
<1>4. SleepCount' BY <1>2, SleepSame DEF CountInv
<1>5. CASE Finished \/ JoinAll \/ Drop \/ SpawnMain \/ OnParentDrop
  <2>1. UNCHANGED <<notified, port, posts>>
    BY <1>5 DEF Finished, JoinAll, Drop, MarkDone, SpawnMain, OnParentDrop
  <2> QED BY <1>1, <1>2, <2>1, CountSame
<1>6. CASE NotifyAll \/ WakeOneThread
  BY <1>3, <1>4, <1>6, NotifyAllCount, WakeOneThreadCount DEF CountInv
<1> QED BY <1>5, <1>6

\* The workers start awake and with no packet in hand.
LEMMA CreateWorkerThreadsCount ==
  ASSUME TaskType, ThreadType, Control, RunInv, CountInv, CreateWorkerThreads
  PROVE  CountInv'
<1> USE Constants
<1>1. UNCHANGED <<foreign, notified, port, posts, ret, arg, runs>> BY DEF CreateWorkerThreads
<1>2. \A w \in Workers : pc[w] = "exited" /\ pc'[w] = "pop"
  BY DEF CreateWorkerThreads, RunInv, Stopped, Starting
<1>3. Awoken' = Awoken BY <1>2 DEF Awoken, IsAwoken
<1>4. NotifyCount' BY <1>1, <1>3, NotifySame DEF CountInv
<1>5. \A o \in Others : pc'[o] = pc[o] BY DEF CreateWorkerThreads
<1>6. Foreign' = Foreign BY <1>1, <1>5 DEF Foreign
<1>7. ForeignCount' BY <1>1, <1>6 DEF CountInv, ForeignCount
<1> QED BY <1>4, <1>7, CreateWorkerThreadsSleeping DEF CountInv

\* A packet of a receiver changes none of the counts.
LEMMA PacketArrivesCounts ==
  ASSUME TaskType, ThreadType, Control, CountInv, PacketArrives
  PROVE  CountInv'
<1>1. UNCHANGED <<foreign, sleeping, counted, runs, pc, ret>> BY DEF PacketArrives
<1>2. ForeignCount' BY <1>1 DEF CountInv, ForeignCount, Foreign
<1>3. SleepCount' BY <1>1, SleepSame DEF CountInv
<1> QED BY <1>2, <1>3, PacketArrivesCount DEF CountInv

\* All the counts start at zero.
LEMMA InitCount ==
  ASSUME Init PROVE CountInv
<1> USE Constants
<1>1. Foreign = {} /\ Asleep = {} /\ Awoken = {} /\ Unposted = {} /\ Occurrences(port, Wakeup) = {}
  BY DEF Init, Foreign, Asleep, Awoken, IsAwoken, Unposted, Occurrences
<1>2. foreign = 0 /\ sleeping = 0 /\ notified = 0 BY DEF Init
<1>3. Cardinality({}) = 0 BY FS_EmptySet
<1> QED BY <1>1, <1>2, <1>3 DEF CountInv, ForeignCount, SleepCount, NotifyCount
\* A join changes neither a task nor a count, nor what run() knows.
LEMMA JoinIInv ==
  ASSUME IInv, NEW th \in Threads, PollJoins(th) \/ OtherJoins(th)
  PROVE  IInv'
<1> USE DEF IInv
<1>1. TaskType' /\ ThreadType' /\ Control' /\ Only(th) /\ th # Runner /\ ret[th] = "idle" BY JoinTC
<1>2. JoinMoves(th) /\ JoinKeeps BY JoinEffect
<1>3. /\ pc[th] = "poll" \/ (th \in Others /\ pc[th] = "idle")
      /\ (pc'[th] = pc[th] /\ ret'[th] = ret[th]) \/ (pc'[th] = "take" /\ ret'[th] = pc[th])
  BY <1>2 DEF JoinMoves, ThreadType
<1>4. UNCHANGED <<bits, fut, ready, foreign, sleeping, notified, port, finished, result, cur, posts, counted, runs>>
  BY <1>2 DEF JoinKeeps
<1>5. pc[th] \notin {"exited", "finish", "wake_up"} /\ pc'[th] \notin {"finish", "wake_up"} BY <1>3
<1>6. RunInv' BY <1>1, <1>4, <1>5, Quiet
<1>7. QueueInv' /\ PollInv' /\ FutureInv' BY <1>1, <1>4, <1>5, TasksSame
<1>8. th \in Others => (InPollTasks(th)' <=> InPollTasks(th)) BY <1>1, <1>3 DEF InPollTasks
<1>9. CountInv' BY <1>1, <1>4, <1>5, <1>8, CountSame DEF IsAwoken
<1> QED BY <1>1, <1>6, <1>7, <1>9
-----------------------------------------------------------------------------
(***************************************************************************)
(* The theorems.                                                           *)
(***************************************************************************)
\* The initial states satisfy the invariant.
LEMMA InitIInv ==
  ASSUME Init PROVE IInv
  BY InitTC, InitRun, InitTasks, InitCount DEF IInv

\* Every step of a thread preserves it,
LEMMA StepIInv ==
  ASSUME IInv, NEW th \in Threads, Step(th)
  PROVE  IInv'
<1> USE DEF IInv
<1>1. CASE NotifyTaskReady(th) BY <1>1, NotifyTaskReadyTC, NotifyRun, NotifyTasks, NotifyingCount
<1>2. CASE NotifyId(th) BY <1>2, NotifyIdTC, NotifyRun, NotifyTasks, NotifyingCount
<1>3. CASE TakeTaskResult(th) BY <1>3, TakeTaskResultTC, PollRun, TakeTaskResultTasks, PollCount
<1>4. CASE Pop(th) BY <1>4, PopTC, PollRun, PopTasks, PollCount
<1>5. CASE PollReady(th) BY <1>5, PollReadyTC, PollRun, PollReadyTasks, PollCount
<1>6. CASE DidFinish(th) BY <1>6, DidFinishTC, PollRun, DidFinishTasks, PollCount
<1>7. CASE PollPending(th) BY <1>7, PollPendingTC, PollRun, PollPendingTasks, PollCount
<1>8. CASE \/ MoreReady(th) \/ NoneReady(th) \/ Sleep(th) \/ Recheck(th) \/ LostRace(th)
           \/ CheckDone(th) \/ Receive(th) \/ TimedOut(th) \/ WakeUp(th)
  <2>1. TaskType' /\ ThreadType' /\ Control'
    BY <1>8, MoreReadyTC, NoneReadyTC, SleepTC, RecheckTC, LostRaceTC, CheckDoneTC, ReceiveTC, TimedOutTC,
       WakeUpTC
  <2> QED BY <1>8, <2>1, StepRun, StepTasks, WorkerCount
<1>9. CASE Callback(th) \/ DeliverPacket(th) \/ WakeJoiner(th)
  <2>1. PICK t \in Tasks, back \in Backs : WakeStep(th, t, back) BY <1>9, WakeSteps
  <2> QED BY <2>1, WakeTC, WakeRun, WakeTasks, WakeCount
<1>10. CASE NoMoreTasks(th) \/ Leave(th) \/ Left(th)
  <2>1. TaskType' /\ ThreadType' /\ Control' BY <1>10, NoMoreTasksTC, LeaveTC, LeftTC
  <2> QED BY <1>10, <2>1, StepRun, StepTasks, OtherCount
<1> QED BY <1>1, <1>2, <1>3, <1>4, <1>5, <1>6, <1>7, <1>8, <1>9, <1>10 DEF Step

\* every call a task or another thread makes,
LEMMA CallIInv ==
  ASSUME IInv, NEW th \in Threads,
         \/ PollWakes(th) \/ PollCancels(th) \/ PollJoins(th)
         \/ OtherWakes(th) \/ OtherCancels(th) \/ OtherJoins(th) \/ Enter(th)
  PROVE  IInv'
<1> USE DEF IInv
<1>1. CASE PollWakes(th) \/ OtherWakes(th)
  <2>1. PICK t \in Tasks, back \in Backs : WakeStep(th, t, back) BY <1>1, WakeSteps
  <2> QED BY <2>1, WakeTC, WakeRun, WakeTasks, WakeCount
<1>2. CASE PollCancels(th) \/ OtherCancels(th)
  <2>1. PICK t \in Tasks \ {Main}, back \in {"idle", "poll"} : CancelStep(th, t, back) BY <1>2, CancelSteps
  <2> QED BY <2>1, CancelTC, CancelRun, CancelTasks, CancelCount
<1>3. CASE PollJoins(th) \/ OtherJoins(th) BY <1>3, JoinIInv
<1>4. CASE Enter(th) BY <1>4, EnterTC, StepRun, StepTasks, OtherCount
<1> QED BY <1>1, <1>2, <1>3, <1>4

\* and every step of run() and drop.
LEMMA RunnerIInv ==
  ASSUME IInv, RunnerStep \/ SpawnMain \/ WakeOneThread \/ Drop \/ OnParentDrop
  PROVE  IInv'
<1> USE DEF IInv
<1>1. CASE CreateWorkerThreads
  BY <1>1, CreateWorkerThreadsTC, CreateWorkerThreadsRun, CreateWorkerThreadsTasks, CreateWorkerThreadsCount
<1>2. CASE Finished BY <1>2, FinishedTC, RunnerRun, RunnerTasks, RunnerCount
<1>3. CASE NotifyAll BY <1>3, NotifyAllTC, RunnerRun, RunnerTasks, RunnerCount
<1>4. CASE JoinAll BY <1>4, JoinAllTC, RunnerRun, RunnerTasks, RunnerCount
<1>5. CASE WakeOneThread BY <1>5, WakeOneThreadTC, RunnerRun, RunnerTasks, RunnerCount
<1>6. CASE Drop BY <1>6, DropTC, RunnerRun, RunnerTasks, RunnerCount
<1>7. CASE SpawnMain BY <1>7, SpawnMainTC, SpawnMainRun, SpawnMainTasks, RunnerCount
<1>8. CASE OnParentDrop BY <1>8, OnParentDropTC, OnParentDropRun, OnParentDropTasks, RunnerCount
<1> QED BY <1>1, <1>2, <1>3, <1>4, <1>5, <1>6, <1>7, <1>8 DEF RunnerStep

\* So every step does.
LEMMA NextIInv ==
  ASSUME IInv, [Next]_vars PROVE IInv'
<1>1. CASE \E th \in Threads : Step(th) BY <1>1, StepIInv
<1>2. CASE \E th \in Workers \cup Others :
             \/ PollWakes(th) \/ PollCancels(th) \/ PollJoins(th)
             \/ OtherWakes(th) \/ OtherCancels(th) \/ OtherJoins(th) \/ Enter(th)
  BY <1>2, CallIInv, Constants
<1>3. CASE RunnerStep \/ SpawnMain \/ WakeOneThread \/ Drop \/ OnParentDrop BY <1>3, RunnerIInv
<1>4. CASE PacketArrives
  <2>1. UNCHANGED <<bits, fut, ready, finished, result, runs, pc, ret, cur, counted>> BY <1>4 DEF PacketArrives
  <2> QED BY <1>4, <2>1, PacketArrivesTC, NoRunChange, NoTasksChange, PacketArrivesCounts DEF IInv
<1>5. CASE UNCHANGED vars
  <2>1. TaskType' /\ ThreadType' /\ Control'
    BY <1>5 DEF vars, IInv, TaskType, ThreadType, Control, Place, Hand, Sleeper, Calling
  <2>2. RunInv' BY <1>5, NoRunChange DEF vars, IInv
  <2>3. QueueInv' /\ PollInv' /\ FutureInv' BY <1>5, NoTasksChange DEF vars, IInv
  <2>4. CountInv'
    BY <1>5 DEF vars, IInv, CountInv, ForeignCount, SleepCount, NotifyCount, Foreign, Asleep, Awoken, IsAwoken,
       Unposted
  <2> QED BY <2>1, <2>2, <2>3, <2>4 DEF IInv
<1> QED BY <1>1, <1>2, <1>3, <1>4, <1>5 DEF Next

\* The invariant holds, for any number of threads, tasks, events and runs.
THEOREM Invariance == Spec => []IInv
<1>1. Init => IInv BY InitIInv
<1>2. IInv /\ [Next]_vars => IInv' BY NextIInv
<1> QED BY <1>1, <1>2, PTL DEF Spec

\* Every variable has its type; in particular the counts of threads_state never
\* go below zero.
THEOREM TypeCorrect == Spec => []TypeOK
<1>1. ASSUME IInv PROVE TypeOK
  <2>1. foreign \in 0..Cardinality(Others)
    <3>1. Foreign \subseteq Others BY DEF Foreign
    <3>2. Cardinality(Foreign) <= Cardinality(Others) /\ Cardinality(Others) \in Nat
      BY <3>1, Constants, FS_Subset, FS_CardinalityType
    <3> QED BY <1>1, <3>2 DEF IInv, CountInv, ForeignCount
  <2>2. sleeping \in Nat /\ notified \in Nat BY <1>1 DEF IInv, CountInv, SleepCount, NotifyCount
  <2> QED BY <1>1, <2>1, <2>2 DEF IInv, TaskType, ThreadType, TypeOK
<1> QED BY <1>1, Invariance, PTL

\* A task is in the queue exactly when it is ready and neither polled nor done,
\* and then once: whoever pops it gets its future.
THEOREM ReadyQueuedOnce == Spec => []QueuedOnce
<1>1. ASSUME IInv PROVE QueuedOnce
  <2> SUFFICES ASSUME NEW t \in Tasks
               PROVE  Cardinality(Occurrences(ready, t))
                      = IF bits[t] \cap {"INACTIVE", "READY", "DONE"} = {"INACTIVE", "READY"} THEN 1 ELSE 0
    BY DEF QueuedOnce
  <2>1. bits[t] \cap {"INACTIVE", "READY", "DONE"} = {"INACTIVE", "READY"} <=> Waiting(bits[t])
    BY DEF Waiting
  <2>2. Occurrences(ready, t) = {i \in 1..Len(ready) : ready[i] = t}
    BY <1>1 DEF IInv, TaskType, Occurrences
  <2>3. CASE InQueue(t)
    <3>1. PICK i \in 1..Len(ready) : ready[i] = t BY <2>3 DEF InQueue
    <3>2. Occurrences(ready, t) = {i} BY <1>1, <2>2, <3>1 DEF IInv, QueueInv
    <3>3. Cardinality(Occurrences(ready, t)) = 1 BY <3>2, FS_Singleton
    <3> QED BY <1>1, <2>1, <2>3, <3>3 DEF IInv, QueueInv
  <2>4. CASE ~InQueue(t)
    <3>1. Occurrences(ready, t) = {} BY <2>2, <2>4 DEF InQueue
    <3>2. Cardinality(Occurrences(ready, t)) = 0 BY <3>1, FS_EmptySet
    <3> QED BY <1>1, <2>1, <2>4, <3>2 DEF IInv, QueueInv
  <2> QED BY <2>3, <2>4
<1> QED BY <1>1, Invariance, PTL

\* One thread at a time polls a task, between clearing INACTIVE and giving the
\* task up; the future is there until DONE, and then the result until it is taken.
THEOREM PolledByOne == Spec => []SoleAccess
<1>1. ASSUME IInv PROVE SoleAccess
  <2> SUFFICES ASSUME NEW t \in Tasks
               PROVE  /\ Cardinality(Polling(t)) <= 1
                      /\ Polling(t) # {} <=> bits[t] \cap {"INACTIVE", "DONE"} = {}
                      /\ fut[t] = IF "DONE" \notin bits[t] THEN "future"
                                  ELSE IF HasResult(bits[t]) THEN "result" ELSE "none"
    BY DEF SoleAccess
  <2>1. Cardinality(Polling(t)) <= 1
    <3>1. CASE Polling(t) = {} BY <3>1, FS_EmptySet
    <3>2. CASE Polling(t) # {}
      <4>1. PICK th \in Polling(t) : TRUE BY <3>2
      <4>2. Polling(t) = {th} BY <1>1, <4>1 DEF IInv, PollInv
      <4>3. Cardinality(Polling(t)) = 1 BY <4>2, FS_Singleton
      <4> QED BY <4>3
    <3> QED BY <3>1, <3>2
  <2>2. Active(bits[t]) <=> bits[t] \cap {"INACTIVE", "DONE"} = {} BY DEF Active
  <2>3. Polling(t) # {} <=> Active(bits[t]) BY <1>1 DEF IInv, PollInv
  <2>4. fut[t] = FutureOf(bits[t]) BY <1>1 DEF IInv, FutureInv
  <2> QED BY <2>1, <2>2, <2>3, <2>4 DEF FutureOf
<1> QED BY <1>1, Invariance, PTL

\* threads_state is exact: the threads in poll_tasks, the notifications on their
\* way, and in the first run the workers that sleep.
THEOREM CountsExact == Spec => []Counted
<1>1. ASSUME IInv PROVE Counted
  <2>1. Awoken = {w \in Workers : At(w, "wake_up") /\ arg[w] = Wakeup} BY DEF Awoken, IsAwoken
  <2>2. Asleep = {w \in Workers : counted[w]} BY DEF Asleep
  <2> QED BY <1>1, <2>1, <2>2 DEF IInv, CountInv, ForeignCount, SleepCount, NotifyCount, Counted
<1> QED BY <1>1, Invariance, PTL
=============================================================================
