------------------------------ MODULE StpPacing ------------------------------
(***************************************************************************)
(* The upload loop of StpClient with its Pacer and BbrCongestionControl:   *)
(* who sets the sending rate when, and how long the loop is held by it.    *)
(*                                                                         *)
(* run_upload_test sends one datagram if the window allows, waits for an   *)
(* ACK with a short timeout, and sleeps.  Before a send the pacer may make *)
(* it wait, and during that wait no ACK is read and the duration is not    *)
(* looked at.  The pacer has its own copy of the rate, which send_data and *)
(* process_ack bring up to date at their end.                              *)
(*                                                                         *)
(* Abstractions.  Datagrams in flight are the subject of StpUpload: here   *)
(* the window admits a send or not, an ACK acknowledges or loses any       *)
(* number of datagrams, and its echo gives any RTT of Rtts.  Timers are    *)
(* exact, and sends and processing take no time.                           *)
(***************************************************************************)
EXTENDS Bbr

CONSTANTS
  Duration,     \* length of the test
  RecvTimeout,  \* the wait for an ACK (1 ms)
  Sleep         \* at the end of each turn (100 us)

ASSUME LoopAssumption ==
  Duration \in Nat /\ RecvTimeout \in Nat /\ Sleep \in Nat

VARIABLES
  pc,              \* where the upload is
  wake,            \* when its current wait is over
  interval,        \* Pacer.sending_rate, as the time of one datagram
  last_send_time,  \* Pacer.last_send_time, or -1
  rtt,             \* process_ack: the RTT of the ACK, or 0
  stale            \* history: a failed resend has skipped update_rate

controller == <<phase, model, cwnd, driven>>
pacer      == <<interval, last_send_time>>
all        == <<controller, pacer, now, pc, wake, rtt, stale>>

(* The controller's rate, from which the pacer's is copied. *)
sending_rate == SendInterval(state, cycle_index, samples)

PacingInit ==
  /\ Init
  /\ pc = "loop" /\ wake = 0 /\ rtt = 0 /\ stale = FALSE
  /\ interval = sending_rate /\ last_send_time = -1

(* Mutant: the new rate never reaches the pacer. *)
UpdateRateForgotten == UNCHANGED <<interval, stale>>

UpdateRate ==
  /\ interval' = SendInterval(state', cycle_index', samples')
  /\ stale' = FALSE

(***************************************************************************)
(* The loop and send_data.                                                 *)
(***************************************************************************)
Over == now >= Duration

(* Mutant: the wait is counted from next_send_time. *)
IdealFromNext == last_send_time + interval + interval

Ideal == last_send_time + interval

(* schedule_next_send: the first datagram and a late one go at once. *)
SendNow ==
  /\ pc = "loop" /\ ~Over
  /\ last_send_time = -1 \/ now >= Ideal
  /\ last_send_time' = now
  /\ pc' = "sending"
  /\ UNCHANGED <<controller, interval, now, wake, rtt, stale>>

SendLater ==
  /\ pc = "loop" /\ ~Over
  /\ last_send_time # -1 /\ now < Ideal
  /\ last_send_time' = Ideal /\ wake' = Ideal
  /\ pc' = "pacing"
  /\ UNCHANGED <<controller, interval, now, rtt, stale>>

(* PacedSend resolves. *)
PacingOver ==
  /\ pc = "pacing" /\ now >= wake
  /\ pc' = "sending"
  /\ UNCHANGED <<controller, pacer, now, wake, rtt, stale>>

Receive == pc' = "receiving" /\ wake' = now + RecvTimeout

SendData ==
  /\ pc = "sending"
  /\ OnPacketSentOrLost
  /\ UpdateRate
  /\ Receive
  /\ UNCHANGED <<last_send_time, now, rtt>>

(* The window is full: can_send is false. *)
Blocked ==
  /\ pc = "loop" /\ ~Over
  /\ Receive
  /\ UNCHANGED <<controller, pacer, now, rtt, stale>>

(* A failed send breaks the loop. *)
Done ==
  /\ pc = "sending" \/ (pc = "loop" /\ Over)
  /\ pc' = "done"
  /\ UNCHANGED <<controller, pacer, now, wake, rtt, stale>>

(***************************************************************************)
(* The ACK.                                                                *)
(***************************************************************************)
(* The local rtt goes out of scope, and the loop sleeps. *)
EndTurn == pc' = "sleeping" /\ wake' = now + Sleep /\ rtt' = 0

(* The timeout, or a datagram that does not decode. *)
NoAck ==
  /\ pc = "receiving"
  /\ EndTurn
  /\ UNCHANGED <<controller, pacer, now, stale>>

RecvAck ==
  /\ pc = "receiving"
  /\ rtt' \in Rtts
  /\ pc' = "acking"
  /\ UNCHANGED <<controller, pacer, now, wake, stale>>

(* One datagram of acked_packets. *)
Acked ==
  /\ pc = "acking"
  /\ OnAckReceived(rtt)
  /\ UNCHANGED <<pacer, now, pc, wake, rtt, stale>>

(* One datagram of lost_packets, sent again without pacing. *)
Resent ==
  /\ pc \in {"acking", "resending"}
  /\ OnPacketSentOrLost
  /\ pc' = "resending"
  /\ UNCHANGED <<pacer, now, wake, rtt, stale>>

(* The resend fails, and `?` leaves process_ack. *)
ResendFails ==
  /\ pc \in {"acking", "resending"}
  /\ OnPacketSentOrLost
  /\ stale' = TRUE
  /\ EndTurn
  /\ UNCHANGED <<pacer, now>>

AckProcessed ==
  /\ pc \in {"acking", "resending"}
  /\ UNCHANGED <<controller, last_send_time, now>>
  /\ UpdateRate
  /\ EndTurn

Slept ==
  /\ pc = "sleeping" /\ now >= wake
  /\ pc' = "loop"
  /\ UNCHANGED <<controller, pacer, now, wake, rtt, stale>>

Tick ==
  /\ pc \in {"pacing", "receiving", "sleeping"} /\ now < wake
  /\ now' = now + 1
  /\ UNCHANGED <<controller, pacer, pc, wake, rtt, stale>>

Finished == pc = "done" /\ UNCHANGED all

Send == SendNow \/ SendLater \/ PacingOver \/ SendData \/ Blocked

Ack == NoAck \/ RecvAck \/ Acked \/ Resent \/ ResendFails \/ AckProcessed \/ Slept

Next == Send \/ Ack \/ Done \/ Tick \/ Finished

Spec == PacingInit /\ [][Next]_all

(***************************************************************************)
(* Properties.                                                             *)
(***************************************************************************)

(* Every variable has its type, those of the controller included. *)
PacingTypeOK ==
  /\ TypeOK
  /\ pc \in {"loop", "pacing", "sending", "receiving", "acking", "resending",
             "sleeping", "done"}
  /\ wake \in Nat /\ rtt \in Nat /\ stale \in BOOLEAN
  /\ interval \in 0 .. MaxInterval /\ last_send_time \in Nat \cup {-1}

(* Between two calls the pacer has the controller's rate, except after a   *)
(* failed resend has left process_ack (client.rs:168) and until the next   *)
(* send or ACK.                                                            *)
RateInSync ==
  (pc \notin {"acking", "resending", "done"} /\ ~stale) => interval = sending_rate

(* The pacing wait does not look at the duration: a test may outlast it by *)
(* one datagram at the lowest rate and one turn, but by no more.           *)
PacingOverrun == now <= Duration + MaxInterval + RecvTimeout + Sleep
=============================================================================
