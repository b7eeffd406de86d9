------------------------------ MODULE MC_Probe ------------------------------
(* Two probes, of one address (overlapping targets) or of one each. *)
EXTENDS ProbeEngine

MCProbes == 1 .. 2
MCTargets == {<<1, 1>>, <<1, 2>>}
=============================================================================
