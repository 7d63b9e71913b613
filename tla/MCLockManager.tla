---------------------------- MODULE MCLockManager ----------------------------
(***************************************************************************)
(* Instances of LockManager for TLC: three tasks and the operations each   *)
(* one may start, any number of times.  Key 0 is the filesystem's.         *)
(***************************************************************************)
EXTENDS LockManager, TLC

CONSTANTS t1, t2, t3

Op(kind, keys, skip) == [kind |-> kind, keys |-> keys, skip |-> skip]

\* A transaction on two objects; readers of both, a flush that skips the limit
\* and a transaction without keys; fsck, a transaction and a writer.
Mixed == (t1 :> {Op("txn", {1, 2}, FALSE)})
      @@ (t2 :> {Op("read", {1, 2}, FALSE), Op("txn", {1}, TRUE), Op("txn", {}, FALSE)})
      @@ (t3 :> {Op("write", {0}, FALSE), Op("txn", {2}, FALSE), Op("write", {1, 2}, FALSE)})
=============================================================================
