----------------------------- MODULE MCSemaphore -----------------------------
(***************************************************************************)
(* The instance of Semaphore for TLC.                                      *)
(***************************************************************************)
EXTENDS Semaphore
=============================================================================
