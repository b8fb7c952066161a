--------------------------- MODULE MC_HttpTransfer ---------------------------
(* An HTTP task for TLC: nothing, a whole and a broken number of chunks. *)
EXTENDS HttpTransfer

MCPayloads == {0, 3, 4}
=============================================================================
