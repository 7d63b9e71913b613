----------------------------- MODULE MCExecutor ------------------------------
(***************************************************************************)
(* Instances of Executor for TLC: two workers, a thread that runs the      *)
(* executor and one that does not belong to it; the main task and another. *)
(***************************************************************************)
EXTENDS Executor, TLC

CONSTANTS w1, w2, x, main, task

\* Tasks wake, cancel and join each other; the other thread wakes, cancels or joins
\* them, or polls some itself.
AllCalls == (w1 :> {"wake", "cancel", "join"}) @@ (w2 :> {"wake", "cancel", "join"})
         @@ (x :> {"wake", "cancel", "join", "poll_tasks"})

\* The other thread wakes tasks.
WakeCalls == (w1 :> {"wake"}) @@ (w2 :> {"wake"}) @@ (x :> {"wake"})
=============================================================================
