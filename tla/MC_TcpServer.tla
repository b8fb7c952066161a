---------------------------- MODULE MC_TcpServer ----------------------------
(* The TCP server for TLC, with connections as model values. *)
EXTENDS TcpServer
=============================================================================
