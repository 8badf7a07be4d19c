-------------------------- MODULE MCSyncRunSettled --------------------------
(* SyncRunSettled for TLC.                                                 *)
EXTENDS SyncRunSettled, SyncRunInstances
=============================================================================
