----------------------------- MODULE MCSyncWait ------------------------------
(* Model-checking instance of SyncWait.  Nothing is pushed to its loop. *)
EXTENDS SyncWait

NoJobs == {}
==============================================================================
