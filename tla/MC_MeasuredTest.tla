--------------------------- MODULE MC_MeasuredTest ---------------------------
(* The four tests for TLC, with tasks as model values. *)
EXTENDS MeasuredTest

MCRtts == {1, 2, 5}
MCSizes == {3}
=============================================================================
