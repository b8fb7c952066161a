----------------------------- MODULE StpDownload -----------------------------
(***************************************************************************)
(* An STP download test: run_download_test of the client, the server's     *)
(* handling of that client, and the UDP network between them.              *)
(*                                                                         *)
(* The client sends one DOWNLOAD command and then only answers: each       *)
(* datagram it gets is measured and acknowledged, the server's own ACKs    *)
(* included.  The server answers each datagram of a client in download     *)
(* mode with an ACK and a burst of payloads, each cut into fragments.  So  *)
(* nothing but the datagrams on their way keeps a download going.          *)
(*                                                                         *)
(* Abstractions.  Sizes are in units, with at most max_udp_payload in a    *)
(* datagram.  What the receivers do with a datagram depends on its size    *)
(* only, so each direction is a count of datagrams, which also allows any  *)
(* reordering.  The network loses; it does not duplicate, as the client    *)
(* would measure a copy again.  One tick of time is one poll of the client *)
(* (50 ms); the sub-millisecond pauses take none.                          *)
(***************************************************************************)
EXTENDS Integers, FiniteSets

CONSTANTS
  Payloads,         \* payload sizes to consider
  max_udp_payload,  \* MAX_UDP_PAYLOAD
  Burst,            \* payloads the server sends per datagram received
  Duration,         \* length of the test, in polls
  SilenceLimit,     \* polls without data that are reported as an error (2 s)
  MaxHandled,       \* bound: datagrams the server handles
  MaxCopies,        \* bound: datagrams of a kind in the network
  MaxTime           \* bound: last poll observed

ASSUME SizeAssumption == /\ Payloads \subseteq Nat /\ max_udp_payload \in Nat \ {0}
                         /\ Burst \in Nat

ASSUME TimeAssumption == /\ Duration \in Nat /\ SilenceLimit \in Nat
                         /\ MaxTime \in Nat

ASSUME BoundAssumption == MaxHandled \in Nat /\ MaxCopies \in Nat \ {0}

VARIABLES
  payload_size,   \* the size the client asks for
  pc,             \* client: "command", then "loop", "recv" or "done"
  waited,         \* polls since the running recv was started
  silence,        \* last_successful_receive.elapsed()
  errors,         \* timeout measurements reported
  measured,       \* bytes in the measurements
  elapsed,        \* start_time.elapsed()
  spc,            \* server: "recv", "ack", "burst" or "fragment"
  download_mode,  \* StpClientState.download_mode of this client
  turns,          \* payloads of the burst still to send
  remaining,      \* remaining_bytes of the payload being fragmented
  handled,        \* datagrams handled by the server
  sent,           \* bytes of download data the server has sent
  commands, acks, \* datagrams on their way to the server
  s2c             \* datagrams on their way to the client, by payload size

client  == <<pc, waited, silence, errors, measured>>
burst   == <<turns, remaining, sent>>
server  == <<spc, download_mode, handled, burst>>
to_server == <<commands, acks>>
vars    == <<payload_size, client, elapsed, server, to_server, s2c>>

Init ==
  /\ payload_size \in Payloads
  /\ pc = "command" /\ waited = 0 /\ silence = 0 /\ errors = 0 /\ measured = 0
  /\ elapsed = 0
  /\ spc = "recv" /\ download_mode = FALSE /\ turns = 0 /\ remaining = 0
  /\ handled = 0 /\ sent = 0
  /\ commands = 0 /\ acks = 0
  /\ s2c = [n \in 0 .. max_udp_payload |-> 0]

(***************************************************************************)
(* The client.                                                             *)
(***************************************************************************)

(* The command is sent once.  A failed send ends the test with an error. *)
SendCommand ==
  /\ pc = "command"
  /\ \/ pc' = "loop" /\ commands' = 1
     \/ pc' = "done" /\ commands' = 0
  /\ UNCHANGED <<payload_size, waited, silence, errors, measured, elapsed, server,
                 acks, s2c>>

(* Mutant: the loop does not look at the clock. *)
LoopForever ==
  /\ pc = "loop"
  /\ pc' = "recv"
  /\ waited' = 0
  /\ UNCHANGED <<payload_size, silence, errors, measured, elapsed, server,
                 to_server, s2c>>

Loop ==
  /\ pc = "loop"
  /\ pc' = IF elapsed < Duration THEN "recv" ELSE "done"
  /\ waited' = 0
  /\ UNCHANGED <<payload_size, silence, errors, measured, elapsed, server,
                 to_server, s2c>>

(* Mutant: a fragment is measured with the size of the receive buffer. *)
ReceiveBuffer ==
  /\ pc = "recv"
  /\ \E n \in 0 .. max_udp_payload :
       /\ s2c[n] > 0
       /\ s2c' = [s2c EXCEPT ![n] = s2c[n] - 1]
       /\ measured' = measured + max_udp_payload
  /\ silence' = 0
  /\ \/ acks < MaxCopies /\ acks' = acks + 1
     \/ acks' = acks
  /\ pc' = "loop"
  /\ UNCHANGED <<payload_size, waited, errors, elapsed, server, commands>>

(* A datagram, be it data or an ACK, is measured and acknowledged; the     *)
(* result of sending that ACK is ignored.                                  *)
Receive ==
  /\ pc = "recv"
  /\ \E n \in 0 .. max_udp_payload :
       /\ s2c[n] > 0
       /\ s2c' = [s2c EXCEPT ![n] = s2c[n] - 1]
       /\ measured' = measured + n
  /\ silence' = 0
  /\ \/ acks < MaxCopies /\ acks' = acks + 1
     \/ acks' = acks
  /\ pc' = "loop"
  /\ UNCHANGED <<payload_size, waited, errors, elapsed, server, commands>>

(* What does not decode, from another program on the server's port, is     *)
(* measured as a failure and not acknowledged; it ends the silence.  The   *)
(* network brings no more than one of these in a poll, at its end.         *)
ReceiveInvalid ==
  /\ pc = "recv" /\ waited >= 1
  /\ silence' = 0
  /\ pc' = "loop"
  /\ UNCHANGED <<payload_size, waited, errors, measured, elapsed, server, to_server,
                 s2c>>

(* Mutant: silence is never reported. *)
PollTimeoutSilent ==
  /\ pc = "recv" /\ waited >= 1
  /\ pc' = "loop"
  /\ UNCHANGED <<payload_size, waited, silence, errors, measured, elapsed, server,
                 to_server, s2c>>

(* Mutant: an acknowledgement is sent without a datagram. *)
PollTimeoutAcks ==
  /\ pc = "recv" /\ waited >= 1
  /\ pc' = "loop"
  /\ acks' = 1
  /\ UNCHANGED <<payload_size, waited, silence, errors, measured, elapsed, server,
                 commands, s2c>>

(* The poll times out; too long a silence is reported, and counted anew. *)
PollTimeout ==
  /\ pc = "recv" /\ waited >= 1
  /\ pc' = "loop"
  /\ IF silence > SilenceLimit
     THEN errors' = errors + 1 /\ silence' = 0
     ELSE UNCHANGED <<errors, silence>>
  /\ UNCHANGED <<payload_size, waited, measured, elapsed, server, to_server, s2c>>

(* A socket error is reported and ends the test. *)
SocketError ==
  /\ pc = "recv"
  /\ pc' = "done"
  /\ UNCHANGED <<payload_size, waited, silence, errors, measured, elapsed, server,
                 to_server, s2c>>

(***************************************************************************)
(* The server: handle_stp_packet, and the burst it sends before it goes    *)
(* back to its socket.                                                     *)
(***************************************************************************)
ServerReceive ==
  /\ spc = "recv" /\ handled < MaxHandled
  /\ \/ commands > 0 /\ commands' = commands - 1 /\ acks' = acks
        /\ download_mode' = TRUE
     \/ acks > 0 /\ acks' = acks - 1 /\ commands' = commands
        /\ download_mode' = download_mode
  /\ handled' = handled + 1
  /\ spc' = "ack"
  /\ UNCHANGED <<payload_size, client, elapsed, burst, s2c>>

(* send_to succeeds: the datagram is in the network, or dropped for want   *)
(* of room.                                                                *)
Send(n) == s2c' = [s2c EXCEPT ![n] = IF s2c[n] < MaxCopies THEN s2c[n] + 1 ELSE s2c[n]]

(* The ACK: if it cannot be sent, `?` leaves before the burst. *)
SendAck ==
  /\ spc = "ack"
  /\ \/ /\ Send(0)
        /\ spc' = IF download_mode THEN "burst" ELSE "recv"
        /\ turns' = IF download_mode THEN Burst ELSE 0
     \/ s2c' = s2c /\ spc' = "recv" /\ turns' = 0
  /\ UNCHANGED <<payload_size, client, elapsed, download_mode, handled, remaining,
                 sent, to_server>>

(* A payload that fits one datagram; a failed send ends the burst. *)
SendSingle ==
  /\ spc = "burst" /\ turns > 0 /\ payload_size <= max_udp_payload
  /\ \/ /\ Send(payload_size)
        /\ sent' = sent + payload_size /\ turns' = turns - 1 /\ spc' = spc
     \/ s2c' = s2c /\ sent' = sent /\ turns' = 0 /\ spc' = "recv"
  /\ UNCHANGED <<payload_size, client, elapsed, download_mode, handled, remaining,
                 to_server>>

StartFragments ==
  /\ spc = "burst" /\ turns > 0 /\ payload_size > max_udp_payload
  /\ spc' = "fragment" /\ turns' = turns - 1 /\ remaining' = payload_size
  /\ UNCHANGED <<payload_size, client, elapsed, download_mode, handled, sent,
                 to_server, s2c>>

(* Mutant: every fragment has the largest size. *)
FragmentSizeLargest == max_udp_payload

FragmentSize == IF remaining < max_udp_payload THEN remaining ELSE max_udp_payload

(* Mutant: a payload whose fragment could not be sent is sent again. *)
SendFragmentRetries ==
  /\ spc = "fragment" /\ remaining > 0
  /\ \/ /\ Send(FragmentSize)
        /\ sent' = sent + FragmentSize /\ turns' = turns
        /\ remaining' = remaining - FragmentSize
     \/ /\ UNCHANGED <<s2c, sent>>
        /\ turns' = turns + 1 /\ remaining' = 0
  /\ spc' = IF remaining' = 0 THEN "burst" ELSE "fragment"
  /\ UNCHANGED <<payload_size, client, elapsed, download_mode, handled, to_server>>

(* One fragment.  A failed send gives up this payload only: `break` leaves *)
(* the fragment loop and the burst goes on with the next payload.          *)
SendFragment ==
  /\ spc = "fragment" /\ remaining > 0
  /\ \/ /\ Send(FragmentSize)
        /\ sent' = sent + FragmentSize
        /\ remaining' = remaining - FragmentSize
     \/ /\ s2c' = s2c /\ sent' = sent /\ remaining' = 0
  /\ spc' = IF remaining' = 0 THEN "burst" ELSE "fragment"
  /\ UNCHANGED <<payload_size, client, elapsed, download_mode, handled, turns,
                 to_server>>

EndBurst ==
  /\ spc = "burst" /\ turns = 0
  /\ spc' = "recv"
  /\ UNCHANGED <<payload_size, client, elapsed, download_mode, handled, burst,
                 to_server, s2c>>

(***************************************************************************)
(* The network and time.  The client's timer is served when it is due.     *)
(***************************************************************************)
LoseToServer ==
  /\ \/ commands > 0 /\ commands' = commands - 1 /\ acks' = acks
     \/ acks > 0 /\ acks' = acks - 1 /\ commands' = commands
  /\ UNCHANGED <<payload_size, client, elapsed, server, s2c>>

LoseToClient ==
  /\ \E n \in 0 .. max_udp_payload :
       s2c[n] > 0 /\ s2c' = [s2c EXCEPT ![n] = s2c[n] - 1]
  /\ UNCHANGED <<payload_size, client, elapsed, server, to_server>>

Tick ==
  /\ pc = "recv" /\ waited < 1 /\ elapsed < MaxTime
  /\ waited' = waited + 1 /\ silence' = silence + 1 /\ elapsed' = elapsed + 1
  /\ UNCHANGED <<payload_size, pc, errors, measured, server, to_server, s2c>>

Finished == pc = "done" /\ UNCHANGED vars

Client == SendCommand \/ Loop \/ Receive \/ ReceiveInvalid \/ PollTimeout \/ SocketError

Serve == SendAck \/ SendSingle \/ StartFragments \/ SendFragment \/ EndBurst

Next == \/ Client \/ ServerReceive \/ Serve
        \/ LoseToServer \/ LoseToClient \/ Tick \/ Finished

Spec == Init /\ [][Next]_vars

(* The runtime polls both tasks when they can move, and time passes. *)
LiveSpec == Spec /\ WF_vars(SendCommand \/ Loop \/ PollTimeout) /\ WF_vars(Tick)
                 /\ WF_vars(Serve)

(***************************************************************************)
(* Properties.                                                             *)
(***************************************************************************)

(* Every variable has its type; remaining_bytes is unsigned and never      *)
(* wraps, and no datagram is larger than MAX_UDP_PAYLOAD.                  *)
TypeOK ==
  /\ payload_size \in Payloads
  /\ pc \in {"command", "loop", "recv", "done"} /\ waited \in {0, 1}
  /\ silence \in Nat /\ errors \in Nat /\ measured \in Nat /\ elapsed \in Nat
  /\ spc \in {"recv", "ack", "burst", "fragment"} /\ download_mode \in BOOLEAN
  /\ turns \in Nat /\ remaining \in Nat /\ handled \in Nat /\ sent \in Nat
  /\ commands \in Nat /\ acks \in Nat
  /\ s2c \in [0 .. max_udp_payload -> Nat]

(* The bytes of so many datagrams of each size: n in one of size n. *)
BytesIn(datagrams) ==
  UNION {{n} \X (1 .. n * datagrams[n]) : n \in 0 .. max_udp_payload}

BytesToClient == Cardinality(BytesIn(s2c))

(* The download never claims more than the server sent: what was measured  *)
(* and what is still on its way were sent as download data.                *)
MeasuredWasSent == measured + BytesToClient <= sent

(* However datagrams arrive, the client is never silent for longer than    *)
(* the limit and one poll without reporting it (client.rs:531).            *)
SilenceReported == silence <= SilenceLimit + 1

(* Nothing is on its way and nobody is about to send. *)
Quiet ==
  /\ pc # "command" /\ commands = 0 /\ acks = 0
  /\ spc = "recv" /\ \A n \in 0 .. max_udp_payload : s2c[n] = 0

(* A download whose datagrams are all lost at once, the first command's    *)
(* included, never starts again: neither side sends without receiving.     *)
QuietStaysQuiet == [][Quiet => Quiet']_vars

(* The server comes back to its socket, where the other clients wait.      *)
ServerReturns == spc # "recv" ~> spc = "recv"

(* run_download_test returns, whatever the server and the network do.      *)
DownloadReturns == <>(pc = "done")
=============================================================================
