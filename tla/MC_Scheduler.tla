---------------------------- MODULE MC_Scheduler ----------------------------
(* Instances of ScanScheduler for TLC; the constants are in the .cfg files. *)
EXTENDS ScanScheduler
=============================================================================
