------------------------------ MODULE MCJournal ------------------------------
(***************************************************************************)
(* The instance of Journal for TLC: its constants are numbers, and are     *)
(* given values in the configuration.                                      *)
(***************************************************************************)
EXTENDS Journal, TLC
=============================================================================
