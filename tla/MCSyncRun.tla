----------------------------- MODULE MCSyncRun -----------------------------
(* SyncRun and its inductive invariant for TLC.                            *)
EXTENDS SyncRunInv, SyncRunInstances
=============================================================================
