--------------------------- MODULE SemaphoreProofs ---------------------------
(***************************************************************************)
(* Semaphore implements CountingSemaphore, for every set of threads and    *)
(* every initial count.                                                    *)
(***************************************************************************)
EXTENDS Semaphore, TLAPS

\* The inductive invariant.
IInv == TypeOK /\ LockInv /\ CountQueueInSync

LEMMA InitIInv == Init => IInv
  BY SemaphoreAssumption DEF Init, IInv, TypeOK, LockInv, CountQueueInSync, PCs

\* A step of Post, or of Wait, keeps count_, the queue and the lock in step.
LEMMA PostKeepsIInv ==
  ASSUME IInv, NEW t \in Threads, PostLoad(t) \/ PostStep(t)
  PROVE  IInv'
<1> USE DEF IInv, TypeOK, LockInv, CountQueueInSync, PCs, Goto
<1>1. CASE PostLoad(t)      BY <1>1 DEF PostLoad
<1>2. CASE PostFast(t)      BY <1>2 DEF PostFast
<1>3. CASE PostSlowCount(t) BY <1>3 DEF PostSlowCount
<1>4. CASE PostAdd(t)       BY <1>4 DEF PostAdd
<1>5. CASE PostRepair(t)    BY <1>5 DEF PostRepair
<1>6. ASSUME NEW w \in Threads, PostWake(t, w) PROVE IInv'
      BY <1>6 DEF PostWake
<1> QED BY <1>1, <1>2, <1>3, <1>4, <1>5, <1>6 DEF PostStep

LEMMA WaitKeepsIInv ==
  ASSUME IInv, NEW t \in Threads,
         \/ WaitLoad(t) \/ WaitFast(t) \/ WaitSlow(t) \/ Block(t)
         \/ Unblock(t) \/ WaitReturns(t)
  PROVE  IInv'
<1> USE DEF IInv, TypeOK, LockInv, CountQueueInSync, PCs, Goto
<1>1. CASE WaitLoad(t)    BY <1>1 DEF WaitLoad
<1>2. CASE WaitFast(t)    BY <1>2 DEF WaitFast
<1>3. CASE WaitSlow(t)    BY <1>3 DEF WaitSlow
<1>4. CASE Block(t)       BY <1>4 DEF Block
<1>5. CASE Unblock(t)     BY <1>5 DEF Unblock
<1>6. CASE WaitReturns(t) BY <1>6 DEF WaitReturns
<1> QED BY <1>1, <1>2, <1>3, <1>4, <1>5, <1>6

LEMMA NextIInv == IInv /\ [Next]_vars => IInv'
<1> SUFFICES ASSUME IInv, [Next]_vars PROVE IInv'
    OBVIOUS
<1>1. CASE Next
      BY <1>1, PostKeepsIInv, WaitKeepsIInv DEF Next
<1>2. CASE UNCHANGED vars
      BY <1>2 DEF vars, IInv, TypeOK, LockInv, CountQueueInSync
<1> QED BY <1>1, <1>2

\* IInv holds throughout.
THEOREM Invariance == Spec => []IInv
  BY InitIInv, NextIInv, PTL DEF Spec

\* The count and the queue agree in every reachable state.
THEOREM InSync == Spec => []CountQueueInSync
<1>1. IInv => CountQueueInSync BY DEF IInv
<1> QED BY <1>1, Invariance, PTL
-----------------------------------------------------------------------------
\* The refinement.  `stage' and `tokens' are the abstract variables.

tokens == IF count > 0 THEN count ELSE 0
stage  == [t \in Threads |-> Stage(pc[t])]

LEMMA StageOf ==
  /\ \A l \in {"idle"} : Stage(l) = "out"
  /\ \A l \in {"post", "post_slow", "post_add"} : Stage(l) = "posting"
  /\ \A l \in {"wait", "wait_slow", "block"} : Stage(l) = "asked"
  /\ Stage("blocked") = "queued" /\ Stage("ok") = "admitted" /\ Stage("failed") = "failed"
  BY DEF Stage

\* A step that moves one thread moves only that thread's stage.
LEMMA StageMoves ==
  ASSUME TypeOK, NEW t \in Threads, NEW l, pc' = [pc EXCEPT ![t] = l]
  PROVE  stage' = [stage EXCEPT ![t] = Stage(l)]
  BY DEF TypeOK, stage

\* Nobody is queued unless the count is negative.
LEMMA NobodyQueued ==
  ASSUME IInv, count >= 0 \/ waitq = {}
  PROVE  {t \in Threads : stage[t] = "queued"} = {}
<1>1. waitq = {} BY DEF IInv, TypeOK, CountQueueInSync
<1>2. \A t \in Threads : stage[t] = "queued" => pc[t] = "blocked"
      BY StageOf DEF stage, IInv, TypeOK, PCs
<1> QED BY <1>1, <1>2 DEF IInv, CountQueueInSync

LEMMA InitRefines == Init => Promise!AInit
  BY SemaphoreAssumption, StageOf DEF Init, Promise!AInit

\* Every step of Post is a step of the promise, or changes nothing in it.
LEMMA PostRefines ==
  ASSUME IInv, NEW t \in Threads, PostLoad(t) \/ PostStep(t)
  PROVE  Promise!ANext \/ (tokens' = tokens /\ stage' = stage)
<1> USE DEF Goto
<1>t. TypeOK /\ count \in Int /\ pc \in [Threads -> PCs] BY DEF IInv, TypeOK
<1>1. CASE PostLoad(t)
  <2>1. Promise!StartPost(t)
        BY <1>1, <1>t, StageOf, StageMoves
        DEF PostLoad, Promise!StartPost, Promise!Move, stage
  <2> QED BY <2>1 DEF Promise!ANext
<1>2. CASE PostFast(t)
  <2>1. CASE old[t] < 0
    <3>1. stage' = [stage EXCEPT ![t] = "posting"] /\ stage[t] = "posting"
          BY <1>2, <2>1, <1>t, StageOf, StageMoves DEF PostFast, stage
    <3> QED BY <1>2, <2>1, <3>1 DEF PostFast, tokens, stage
  <2>2. CASE ~(old[t] < 0) /\ count = old[t]
    <3>1. count >= 0 BY <2>2, <1>t DEF TypeOK
    <3>2. Promise!Queue = {} BY <3>1, NobodyQueued DEF Promise!Queue, stage
    <3>3. Promise!Move(t, "posting", "out")
          BY <1>2, <2>2, <1>t, StageOf, StageMoves DEF PostFast, Promise!Move, stage
    <3>4. tokens' = tokens + 1 BY <1>2, <2>2, <3>1, <1>t DEF PostFast, tokens
    <3>5. Promise!Keep(t) BY <3>2, <3>3, <3>4 DEF Promise!Keep, tokens
    <3> QED BY <3>5 DEF Promise!ANext
  <2>3. CASE ~(old[t] < 0) /\ count # old[t]
        BY <1>2, <2>3 DEF PostFast, tokens, stage
  <2> QED BY <2>1, <2>2, <2>3
<1>3. CASE PostSlowCount(t)
  <2>1. stage' = [stage EXCEPT ![t] = "posting"] /\ stage[t] = "posting"
        BY <1>3, <1>t, StageOf, StageMoves DEF PostSlowCount, stage
  <2> QED BY <1>3, <2>1 DEF PostSlowCount, tokens, stage
<1>4. CASE PostAdd(t)
  <2>1. count >= 0 BY <1>4 DEF PostAdd, IInv, CountQueueInSync
  <2>2. Promise!Queue = {} BY <2>1, NobodyQueued DEF Promise!Queue, stage
  <2>3. Promise!Move(t, "posting", "out")
        BY <1>4, <1>t, StageOf, StageMoves DEF PostAdd, Promise!Move, stage
  <2>4. tokens' = tokens + 1 BY <1>4, <2>1, <1>t DEF PostAdd, tokens
  <2>5. Promise!Keep(t) BY <2>2, <2>3, <2>4 DEF Promise!Keep, tokens
  <2> QED BY <2>5 DEF Promise!ANext
<1>5. CASE PostRepair(t)
  <2>1. Promise!Queue = {} BY <1>5, NobodyQueued DEF PostRepair, Promise!Queue, stage
  <2>2. Promise!Move(t, "posting", "out")
        BY <1>5, <1>t, StageOf, StageMoves DEF PostRepair, Promise!Move, stage
  <2>3. tokens' = tokens + 1 BY <1>5, <1>t DEF PostRepair, tokens
  <2>4. Promise!Keep(t) BY <2>1, <2>2, <2>3 DEF Promise!Keep, tokens
  <2> QED BY <2>4 DEF Promise!ANext
<1>6. ASSUME NEW w \in Threads, PostWake(t, w) PROVE Promise!ANext
  <2>1. pc[w] = "blocked" /\ w # t /\ pc[t] = "post_slow"
        BY <1>6 DEF PostWake, IInv, CountQueueInSync
  <2>2. stage' = [stage EXCEPT ![t] = "out", ![w] = "admitted"]
        BY <1>6, <2>1, <1>t, StageOf DEF PostWake, stage
  <2>3. tokens' = tokens BY <1>6, <1>t DEF PostWake, tokens
  <2>4. Promise!Admit(t, w)
        BY <2>1, <2>2, <2>3, StageOf DEF Promise!Admit, stage, tokens
  <2> QED BY <2>4 DEF Promise!ANext
<1> QED BY <1>1, <1>2, <1>3, <1>4, <1>5, <1>6 DEF PostStep

\* Likewise for Wait.
LEMMA WaitRefines ==
  ASSUME IInv, NEW t \in Threads,
         \/ WaitLoad(t) \/ WaitFast(t) \/ WaitSlow(t) \/ Block(t)
         \/ Unblock(t) \/ WaitReturns(t)
  PROVE  Promise!ANext \/ (tokens' = tokens /\ stage' = stage)
<1> USE DEF Goto
<1>t. TypeOK /\ count \in Int /\ pc \in [Threads -> PCs] BY DEF IInv, TypeOK
<1>1. CASE WaitLoad(t)
  <2>1. Promise!Ask(t)
        BY <1>1, <1>t, StageOf, StageMoves DEF WaitLoad, Promise!Ask, Promise!Move, stage
  <2> QED BY <2>1 DEF Promise!ANext
<1>2. CASE WaitFast(t)
  <2>1. CASE old[t] <= 0
    <3>1. stage' = [stage EXCEPT ![t] = "asked"] /\ stage[t] = "asked"
          BY <1>2, <2>1, <1>t, StageOf, StageMoves DEF WaitFast, stage
    <3> QED BY <1>2, <2>1, <3>1 DEF WaitFast, tokens, stage
  <2>2. CASE ~(old[t] <= 0) /\ count = old[t]
    <3>1. Promise!Pass(t)
          BY <1>2, <2>2, <1>t, StageOf, StageMoves
          DEF WaitFast, Promise!Pass, Promise!Move, stage, IInv, TypeOK
    <3> QED BY <3>1 DEF Promise!ANext
  <2>3. CASE ~(old[t] <= 0) /\ count # old[t]
        BY <1>2, <2>3 DEF WaitFast, tokens, stage
  <2> QED BY <2>1, <2>2, <2>3
<1>3. CASE WaitSlow(t)
  <2>1. CASE count > 0
    <3>1. Promise!Pass(t)
          BY <1>3, <2>1, <1>t, StageOf, StageMoves
          DEF WaitSlow, Promise!Pass, Promise!Move, stage
    <3> QED BY <3>1 DEF Promise!ANext
  <2>2. CASE ~(count > 0)
    <3>1. stage' = [stage EXCEPT ![t] = "asked"] /\ stage[t] = "asked"
          BY <1>3, <2>2, <1>t, StageOf, StageMoves DEF WaitSlow, stage
    <3> QED BY <1>3, <2>2, <3>1, <1>t DEF WaitSlow, tokens, stage
  <2> QED BY <2>1, <2>2
<1>4. CASE Block(t)
  <2>1. count < 0 BY <1>4 DEF Block, IInv, CountQueueInSync
  <2>2. Promise!Move(t, "asked", "queued") \/ Promise!Move(t, "asked", "failed")
        BY <1>4, <1>t, StageOf, StageMoves DEF Block, Promise!Move, stage
  <2>3. tokens = 0 /\ tokens' = tokens BY <1>4, <2>1, <1>t DEF Block, tokens
  <2>4. Promise!Enqueue(t) \/ Promise!Refuse(t)
        BY <2>2, <2>3 DEF Promise!Enqueue, Promise!Refuse, tokens
  <2> QED BY <2>4 DEF Promise!ANext
<1>5. CASE Unblock(t)
  <2>1. Promise!GiveUp(t)
        BY <1>5, <1>t, StageOf, StageMoves DEF Unblock, Promise!GiveUp, Promise!Move, stage
  <2> QED BY <2>1 DEF Promise!ANext
<1>6. CASE WaitReturns(t)
  <2>1. Promise!Leave(t)
        BY <1>6, <1>t, StageOf, StageMoves
        DEF WaitReturns, Promise!Leave, Promise!Move, stage
  <2> QED BY <2>1 DEF Promise!ANext
<1> QED BY <1>1, <1>2, <1>3, <1>4, <1>5, <1>6

\* The semaphore keeps the promise of semaphore.h, whatever races or fails:
\* Spec implements CountingSemaphore.
THEOREM Refinement == Spec => KeepsPromise
<1>1. IInv /\ [Next]_vars => [Promise!ANext]_<<tokens, stage>>
  <2> SUFFICES ASSUME IInv, [Next]_vars
               PROVE  Promise!ANext \/ (tokens' = tokens /\ stage' = stage)
      OBVIOUS
  <2>1. CASE Next BY <2>1, PostRefines, WaitRefines DEF Next
  <2>2. CASE UNCHANGED vars BY <2>2 DEF vars, tokens, stage
  <2> QED BY <2>1, <2>2
<1>2. IInv /\ [Next]_vars =>
        [Promise!ANext]_<<IF count > 0 THEN count ELSE 0, [t \in Threads |-> Stage(pc[t])]>>
      BY <1>1 DEF tokens, stage
<1> QED BY <1>2, InitRefines, Invariance, PTL DEF Spec, KeepsPromise, Promise!ASpec
=============================================================================
