----------------------------- MODULE DurableLog ------------------------------
(***************************************************************************)
(* What the journal promises (journal.rs): the transactions committed so   *)
(* far, in the order of their commits, how many of them a sync has         *)
(* promised to keep, and what the log was at each crash.  After a crash the *)
(* log is found to hold at least what was promised, and nothing out of its *)
(* place: it is the beginning of what it was then, or at an earlier crash. *)
(***************************************************************************)
EXTENDS Naturals, Sequences, SequencesExt

CONSTANT Txs

VARIABLES log, durable, past

vars == <<log, durable, past>>

Init == log \in Seq(Txs) /\ durable = Len(log) /\ past = {}

\* One transaction is added.
Commit ==
  /\ log' \in Seq(Txs) /\ Len(log') = Len(log) + 1 /\ IsPrefix(log, log')
  /\ UNCHANGED <<durable, past>>

\* A sync returns: what was committed before it was called is promised.
Sync == durable' \in durable..Len(log) /\ UNCHANGED <<log, past>>

\* A crash, and the mount after it.  What is found there stays.
Crash ==
  /\ past' = past \cup {log}
  /\ \E l \in past' : \E n \in 0..Len(l) : log' = SubSeq(l, 1, n)
  /\ IsPrefix(SubSeq(log, 1, durable), log')
  /\ durable' = Len(log')

Next == Commit \/ Sync \/ Crash

Spec == Init /\ [][Next]_vars
=============================================================================
