--------------------------- MODULE MC_StpUpload ---------------------------
(* The STP upload for TLC.  The constants are given in the .cfg files:     *)
(* ticks stand for about a second, the window for a few datagrams.         *)
EXTENDS StpUpload
=============================================================================
