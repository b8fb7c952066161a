-------------------------- MODULE MC_TcpConnection --------------------------
(* One connection for TLC: read timeouts below, at and above the sleep. *)
EXTENDS TcpConnection

MCReadTimeouts == {1, 2, 3}
=============================================================================
