---------------------------- MODULE MC_Discovery ----------------------------
(* Instances of DiscoveryRun for TLC; the constants are in the .cfg files. *)
EXTENDS DiscoveryRun
=============================================================================
