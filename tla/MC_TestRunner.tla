---------------------------- MODULE MC_TestRunner ----------------------------
(* Three commands for TLC; one file of each extension, which is its name. *)
EXTENDS TestRunner

MCFiles == {"json", "cbor", "html", "other", "none"}
MCExtension == [f \in MCFiles |-> f]
=============================================================================
