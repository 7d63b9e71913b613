---------------------------- MODULE AtomicFuture -----------------------------
(***************************************************************************)
(* fuchsia-async, atomic_future.rs: the state word of an AtomicFuture, a   *)
(* set of bits, and what its atomic operations do to it.                   *)
(***************************************************************************)
Bits == {"INACTIVE", "READY", "DONE", "CANCELLED", "RESULT_TAKEN"}

\* A new future.
NewFuture == {"INACTIVE"}

\* mark_ready and cancel return true, so that the caller queues the task, when
\* it was neither ready nor active nor done.
MarkReady(b) == b \cup {"READY"}
Cancel(b) == b \cup {"CANCELLED", "READY"}

\* Fault: READY is not looked at.
ToQueue_Again(b) == b \cap {"INACTIVE", "DONE"} = {"INACTIVE"}

ToQueue(b) == b \cap {"INACTIVE", "READY", "DONE"} = {"INACTIVE"}

\* Fault: INACTIVE is not cleared.
Claim_Shared(b) == b \ {"READY"}

\* try_poll: sole responsibility is taken by clearing INACTIVE, and given back
\* by setting DONE, or INACTIVE again.
Claim(b) == b \ {"INACTIVE", "READY"}
Complete(b) == b \cup {"DONE"}
Release(b) == b \cup {"INACTIVE"}

\* drop_future_unchecked, and try_drop of a future no one polls.
DropFuture(b) == b \cup {"DONE", "RESULT_TAKEN"}
TryDrop(b) == IF "DONE" \in b THEN b \ {"INACTIVE"} ELSE DropFuture(b \ {"INACTIVE"})

\* take_result gives the result to one caller.
HasResult(b) == b \cap {"DONE", "RESULT_TAKEN"} = {"DONE"}
TakeResult(b) == IF HasResult(b) THEN b \cup {"RESULT_TAKEN"} ELSE b
=============================================================================
