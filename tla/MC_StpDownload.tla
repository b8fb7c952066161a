--------------------------- MODULE MC_StpDownload ---------------------------
(* The download for TLC: a payload of one datagram and one of two. *)
EXTENDS StpDownload

MCPayloads == {1, 3}
=============================================================================
