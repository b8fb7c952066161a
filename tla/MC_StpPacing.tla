----------------------------- MODULE MC_StpPacing -----------------------------
(* The upload loop for TLC: an RTT of zero and two others. *)
EXTENDS StpPacing

MCRtts == {0, 1, 3}
MCGains == <<125, 75, 100>>
=============================================================================
