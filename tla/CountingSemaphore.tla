-------------------------- MODULE CountingSemaphore --------------------------
(***************************************************************************)
(* What kernel/semaphore.h promises: a gatekeeper with a number of tokens. *)
(* Post admits one queued thread, or else keeps a token for a later Wait.  *)
(* A waiter that gives up takes nothing with it.                           *)
(***************************************************************************)
EXTENDS Integers

CONSTANTS Threads, InitialCount

VARIABLES
  tokens,   \* admissions kept for threads still to come
  stage     \* of each thread: see Stages

Stages == {"out", "posting", "asked", "queued", "admitted", "failed"}

Queue == {t \in Threads : stage[t] = "queued"}

AInit ==
  /\ tokens = InitialCount
  /\ stage = [t \in Threads |-> "out"]

Move(t, from, to) == stage[t] = from /\ stage' = [stage EXCEPT ![t] = to]

\* A Post in progress ends by keeping a token, if nobody is queued, or by
\* admitting one queued thread; never without effect.
StartPost(t) == Move(t, "out", "posting") /\ UNCHANGED tokens
Keep(t) ==
  /\ Queue = {}
  /\ Move(t, "posting", "out")
  /\ tokens' = tokens + 1
Admit(t, w) ==
  /\ stage[t] = "posting" /\ stage[w] = "queued"
  /\ stage' = [stage EXCEPT ![t] = "out", ![w] = "admitted"]
  /\ UNCHANGED tokens

\* A Wait passes with a token, is queued or refused when there is none, and
\* may give up while it is queued.
Ask(t)     == Move(t, "out", "asked") /\ UNCHANGED tokens
Pass(t)    == tokens > 0 /\ Move(t, "asked", "admitted") /\ tokens' = tokens - 1
Enqueue(t) == tokens = 0 /\ Move(t, "asked", "queued") /\ UNCHANGED tokens
Refuse(t)  == tokens = 0 /\ Move(t, "asked", "failed") /\ UNCHANGED tokens
GiveUp(t)  == Move(t, "queued", "failed") /\ UNCHANGED tokens
Leave(t)   == (Move(t, "admitted", "out") \/ Move(t, "failed", "out")) /\ UNCHANGED tokens

ANext ==
  \E t \in Threads :
    \/ StartPost(t) \/ Keep(t) \/ \E w \in Threads : Admit(t, w)
    \/ Ask(t) \/ Pass(t) \/ Enqueue(t) \/ Refuse(t) \/ GiveUp(t) \/ Leave(t)

ASpec == AInit /\ [][ANext]_<<tokens, stage>>
=============================================================================
