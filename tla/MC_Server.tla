----------------------------- MODULE MC_Server -----------------------------
(* Instances of ScanServer for TLC; the constants are in the .cfg files.    *)
EXTENDS ScanServer
=============================================================================
