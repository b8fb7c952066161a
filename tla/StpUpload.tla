----------------------------- MODULE StpUpload -----------------------------
(***************************************************************************)
(* An STP upload test: one client task (StpClient inside run_upload_test), *)
(* the STP server and the UDP network between them.                        *)
(*                                                                         *)
(* The client numbers every datagram, keeps the unacknowledged ones in     *)
(* LossRecovery.in_flight, and sends while bytes_sent - bytes_acked is     *)
(* below the congestion window.  The server acknowledges each datagram it  *)
(* receives by that datagram's own number.  The client reads that number   *)
(* as cumulative.  The network loses, reorders and duplicates.             *)
(*                                                                         *)
(* Abstractions.  All datagrams of an upload have the same encoded length, *)
(* so bytes are counted in datagrams.  in_flight is a VecDeque that is     *)
(* only pushed at the back with growing numbers, so it is kept as the set  *)
(* of its numbers, visited in ascending order.  The window is the clamped  *)
(* output of the congestion controller: any value between its bounds,      *)
(* chosen anew wherever the code recomputes it.  Fields that are written   *)
(* and never read in an upload (last_received_*, peer_latest_ack,          *)
(* established, retransmitted, ack_timestamps, RTT samples) are left out.  *)
(***************************************************************************)
EXTENDS Integers, FiniteSets

CONSTANTS
  Duration,       \* length of the test, in clock ticks
  LossTimeout,    \* LossRecovery.loss_timeout, in clock ticks
  LossThreshold,  \* LossRecovery.loss_threshold
  MinWindow,      \* BbrConfig.min_cwnd, in datagrams
  InitWindow,     \* BbrConfig.initial_cwnd, in datagrams
  MaxWindow,      \* BbrConfig.max_cwnd, in datagrams
  ClockModulus,   \* 2^64: microsecond timestamps are u64 and wrap
  MaxPacket,      \* bound: packet number at which the session is cut short
  MaxTime,        \* bound: last clock tick observed
  MaxDups,        \* bound: datagrams the network delivers twice
  MaxClockSteps   \* bound: times the wall clock is set back

ASSUME TimeAssumption == /\ Duration \in Nat /\ LossTimeout \in Nat
                         /\ MaxTime \in Nat /\ ClockModulus \in Nat \ {0}

ASSUME WindowAssumption == /\ MinWindow \in Nat \ {0}
                           /\ MaxWindow \in Nat
                           /\ InitWindow \in MinWindow .. MaxWindow

ASSUME BoundAssumption == /\ LossThreshold \in Nat \ {0} /\ MaxPacket \in Nat
                          /\ MaxDups \in Nat /\ MaxClockSteps \in Nat

VARIABLES
  pc,                   \* where the client task is in run_upload_test
  local_packet_number,  \* ConnectionState.local_packet_number of the client
  in_flight,            \* numbers of LossRecovery.in_flight
  sent_time,            \* InFlightPacket.sent_time, by number
  lost,                 \* lost_packets still to be retransmitted by process_ack
  largest_acked,        \* LossRecovery.largest_acked
  packets_sent,         \* StpClient.packets_sent (= bytes_sent / length)
  packets_acked,        \* StpClient.packets_acked (= bytes_acked / length)
  window,               \* congestion_control.get_cwnd()
  received,             \* numbers of the datagrams the server has handled
  packets_received,     \* StpClientState.packets_received
  ack_packet_number,    \* StpClientState.local_packet_number
  c2s, s2c,             \* datagrams in the network, each way
  elapsed, wall,        \* start_time.elapsed() and the wall clock
  dups, clock_steps,    \* duplications and clock steps so far
  abandoned             \* history: lost datagrams given up by a failed resend

recovery == <<in_flight, sent_time, lost, largest_acked>>
stats    == <<packets_sent, packets_acked, abandoned>>
client   == <<pc, local_packet_number, recovery, stats, window>>
server   == <<received, packets_received, ack_packet_number>>
clocks   == <<elapsed, wall, clock_steps>>
network  == <<c2s, s2c, dups>>
vars     == <<client, server, clocks, network>>

(* An ACK carries its own packet number and the number it acknowledges. *)
Ack == [packet_number : Nat, latest_ack : Nat]

(* Mutant: the lower clamp of the window is missing. *)
WindowsUnclamped == 0 .. MaxWindow

Windows == MinWindow .. MaxWindow

(***************************************************************************)
(* Initial state: StpClient::new and the first turn of the loop.           *)
(***************************************************************************)
Init ==
  /\ pc = "loop"
  /\ local_packet_number = 0
  /\ in_flight = {} /\ lost = {} /\ sent_time = [n \in {} |-> 0]
  /\ largest_acked = 0
  /\ packets_sent = 0 /\ packets_acked = 0 /\ abandoned = 0
  /\ window = InitWindow
  /\ received = {} /\ packets_received = 0 /\ ack_packet_number = 0
  /\ c2s = {} /\ s2c = {} /\ dups = 0
  /\ elapsed = 0 /\ wall = 0 /\ clock_steps = 0

(***************************************************************************)
(* The upload loop of the client.                                          *)
(***************************************************************************)

(* bytes_in_flight as the loop computes it: an unsigned subtraction. *)
bytes_in_flight == packets_sent - packets_acked

(* Mutant: the window test is off by one. *)
can_sendOffByOne == bytes_in_flight <= window

can_send == bytes_in_flight < window

(* Mutant: the loop does not look at the clock. *)
TestOverWithoutClock == local_packet_number >= MaxPacket

(* The loop ends with the test's duration.  A session that has used        *)
(* MaxPacket numbers is a shorter test.                                    *)
TestOver == elapsed >= Duration \/ local_packet_number >= MaxPacket

LoopExit ==
  /\ pc = "loop" /\ TestOver
  /\ pc' = "done"
  /\ UNCHANGED <<local_packet_number, recovery, stats, window, server, clocks, network>>

next_packet_number == local_packet_number + 1

(* send_data up to the pacing wait: the number is taken before the wait. *)
ScheduleSend ==
  /\ pc = "loop" /\ ~TestOver /\ can_send
  /\ local_packet_number' = next_packet_number
  /\ pc' = "pacing"
  /\ UNCHANGED <<recovery, stats, window, server, clocks, network>>

LoopBlocked ==
  /\ pc = "loop" /\ ~TestOver /\ ~can_send
  /\ pc' = "recv"
  /\ UNCHANGED <<local_packet_number, recovery, stats, window, server, clocks, network>>

(* LossRecovery::on_packet_sent: number n enters in_flight stamped now. *)
TrackInFlight(n) ==
  /\ in_flight' = in_flight \cup {n}
  /\ sent_time' = [k \in in_flight \cup {n} |->
                     IF k \in in_flight THEN sent_time[k] ELSE wall]

(* send_data after the pacing wait: the socket takes the datagram. *)
SendData ==
  /\ pc = "pacing"
  /\ c2s' = c2s \cup {local_packet_number}
  /\ packets_sent' = packets_sent + 1
  /\ window' \in Windows
  /\ TrackInFlight(local_packet_number)
  /\ pc' = "recv"
  /\ UNCHANGED <<local_packet_number, lost, largest_acked, packets_acked,
                 abandoned, s2c, dups, server, clocks>>

(* The socket refuses the datagram: a failed measurement ends the test. *)
SendDataFails ==
  /\ pc = "pacing"
  /\ pc' = "done"
  /\ UNCHANGED <<local_packet_number, recovery, stats, window, server, clocks, network>>

(* No datagram within one millisecond, or a socket error. *)
RecvTimeout ==
  /\ pc = "recv"
  /\ pc' = "loop"
  /\ UNCHANGED <<local_packet_number, recovery, stats, window, server, clocks, network>>

(***************************************************************************)
(* Acknowledgements: process_ack and LossRecovery::on_ack_received.        *)
(***************************************************************************)
AckedBy(a) == {n \in in_flight : n <= a}

(* u64 subtraction of two wall-clock readings: a clock that was set back   *)
(* makes a recent datagram look ages old.                                  *)
TimedOut(n) == (wall - sent_time[n]) % ClockModulus > LossTimeout

LostBy(a, largest) ==
  {n \in in_flight \ AckedBy(a) : largest - n >= LossThreshold \/ TimedOut(n)}

LargestAcked(a) == IF a > largest_acked THEN a ELSE largest_acked

(* process_ack up to its first resend. *)
ProcessAck(m) ==
  LET acked  == AckedBy(m.latest_ack)
      missed == LostBy(m.latest_ack, LargestAcked(m.latest_ack))
      kept   == in_flight \ (acked \cup missed)
  IN /\ pc = "recv"
     /\ largest_acked' = LargestAcked(m.latest_ack)
     /\ in_flight' = kept
     /\ sent_time' = [n \in kept |-> sent_time[n]]
     /\ lost' = missed
     /\ packets_acked' = packets_acked + Cardinality(acked)
     /\ IF acked = {} THEN window' = window ELSE window' \in Windows
     /\ pc' = IF missed = {} THEN "loop" ELSE "retransmit"
     /\ UNCHANGED <<local_packet_number, packets_sent, abandoned>>

(* The network hands over datagram d of channel ch, and may keep a copy. *)
Deliver(ch, next, d) ==
  \/ /\ next = ch \ {d} /\ dups' = dups
  \/ /\ next = ch /\ dups < MaxDups /\ dups' = dups + 1

RecvAck ==
  /\ \E m \in s2c : ProcessAck(m) /\ Deliver(s2c, s2c', m)
  /\ UNCHANGED <<c2s, server, clocks>>

(* Mutant: a resend is counted as one more datagram sent. *)
RetransmitCounted ==
  /\ pc = "retransmit"
  /\ \E n \in lost :
       /\ \A k \in lost : n <= k
       /\ lost' = lost \ {n}
       /\ pc' = IF lost = {n} THEN "loop" ELSE "retransmit"
  /\ local_packet_number' = next_packet_number
  /\ packets_sent' = packets_sent + 1
  /\ c2s' = c2s \cup {next_packet_number}
  /\ window' \in Windows
  /\ TrackInFlight(next_packet_number)
  /\ UNCHANGED <<largest_acked, packets_acked, abandoned, s2c, dups, server, clocks>>

(* One turn of the resend loop: the oldest lost datagram gets a new number. *)
Retransmit ==
  /\ pc = "retransmit"
  /\ \E n \in lost :
       /\ \A k \in lost : n <= k
       /\ lost' = lost \ {n}
       /\ pc' = IF lost = {n} THEN "loop" ELSE "retransmit"
  /\ local_packet_number' = next_packet_number
  /\ c2s' = c2s \cup {next_packet_number}
  /\ window' \in Windows
  /\ TrackInFlight(next_packet_number)
  /\ UNCHANGED <<largest_acked, stats, s2c, dups, server, clocks>>

(* A resend fails: `?` leaves process_ack, and the datagrams that are      *)
(* still in its local list are forgotten.  The caller ignores the error.   *)
RetransmitFails ==
  /\ pc = "retransmit"
  /\ local_packet_number' = next_packet_number
  /\ window' \in Windows
  /\ lost' = {}
  /\ abandoned' = abandoned + Cardinality(lost)
  /\ pc' = "loop"
  /\ UNCHANGED <<in_flight, sent_time, largest_acked, packets_sent, packets_acked,
                 server, clocks, network>>

(***************************************************************************)
(* The server: handle_stp_packet outside download mode.  The ACK names the *)
(* datagram just received, and its send may fail.                          *)
(***************************************************************************)
(* Mutant: the ACK names the server's own counter. *)
HandleStpPacketOwnNumber(n) ==
  /\ received' = received \cup {n}
  /\ packets_received' = packets_received + 1
  /\ ack_packet_number' = ack_packet_number + 1
  /\ s2c' = s2c \cup {[packet_number |-> ack_packet_number + 1,
                        latest_ack |-> ack_packet_number + 1]}

HandleStpPacket(n) ==
  /\ received' = received \cup {n}
  /\ packets_received' = packets_received + 1
  /\ ack_packet_number' = ack_packet_number + 1
  /\ \/ s2c' = s2c \cup {[packet_number |-> ack_packet_number + 1, latest_ack |-> n]}
     \/ s2c' = s2c

ServerReceive ==
  /\ \E n \in c2s : HandleStpPacket(n) /\ Deliver(c2s, c2s', n)
  /\ UNCHANGED <<client, clocks>>

(***************************************************************************)
(* The environment: loss, time, and a wall clock that may be set back.     *)
(***************************************************************************)
LoseData ==
  /\ \E n \in c2s : c2s' = c2s \ {n}
  /\ UNCHANGED <<client, server, clocks, s2c, dups>>

LoseAck ==
  /\ \E m \in s2c : s2c' = s2c \ {m}
  /\ UNCHANGED <<client, server, clocks, c2s, dups>>

Tick ==
  /\ elapsed < MaxTime /\ pc # "done"
  /\ elapsed' = elapsed + 1 /\ wall' = wall + 1
  /\ UNCHANGED <<client, server, network, clock_steps>>

ClockStep ==
  /\ clock_steps < MaxClockSteps /\ pc # "done"
  /\ clock_steps' = clock_steps + 1
  /\ wall' = wall - 1
  /\ UNCHANGED <<client, server, network, elapsed>>

(* The test is over: nothing is left to do for the client. *)
Finished == pc = "done" /\ UNCHANGED vars

Client == \/ LoopExit \/ ScheduleSend \/ LoopBlocked \/ SendData \/ SendDataFails
          \/ RecvTimeout \/ RecvAck \/ Retransmit \/ RetransmitFails

Next == \/ Client \/ ServerReceive \/ LoseData \/ LoseAck \/ Tick \/ ClockStep
        \/ Finished

Spec == Init /\ [][Next]_vars

(* The client task and the server task are polled by the runtime whenever  *)
(* they can move, and time passes.  Nothing is assumed of the network.     *)
LiveSpec == Spec /\ WF_vars(Client) /\ WF_vars(ServerReceive) /\ WF_vars(Tick)

(***************************************************************************)
(* Properties.                                                             *)
(***************************************************************************)

(* Every variable has the type the code declares; counters are unsigned    *)
(* and the window stays inside the clamp of update_control_parameters.     *)
TypeOK ==
  /\ pc \in {"loop", "pacing", "recv", "retransmit", "done"}
  /\ local_packet_number \in Nat
  /\ in_flight \subseteq Nat /\ IsFiniteSet(in_flight)
  /\ sent_time \in [in_flight -> Int]
  /\ lost \subseteq Nat /\ IsFiniteSet(lost)
  /\ largest_acked \in Nat
  /\ packets_sent \in Nat /\ packets_acked \in Nat /\ abandoned \in Nat
  /\ window \in MinWindow .. MaxWindow
  /\ received \subseteq Nat
  /\ packets_received \in Nat /\ ack_packet_number \in Nat
  /\ c2s \subseteq Nat /\ s2c \subseteq Ack
  /\ elapsed \in Nat /\ wall \in Int /\ dups \in Nat /\ clock_steps \in Nat

(* Every datagram counted by send_data is counted once more by process_ack *)
(* or is in flight, being resent, or was given up when a resend failed:    *)
(* bytes_sent - bytes_acked (client.rs:608) can never go below zero.       *)
Conservation ==
  packets_sent = packets_acked + Cardinality(in_flight) + Cardinality(lost) + abandoned

(* What the client believes acknowledged is a number the server received,  *)
(* and what the server received is a number the client has used.           *)
AckedNumberWasReceived ==
  /\ largest_acked \in received \cup {0}
  /\ \A m \in s2c : m.latest_ack \in received
  /\ \A n \in received : n <= local_packet_number

(* Resends are not gated by can_send, yet what is outstanding never        *)
(* exceeds the largest window.                                             *)
OutstandingBounded == Cardinality(in_flight) + Cardinality(lost) <= MaxWindow

(* A datagram put on the wire, resent or not, has a number above every     *)
(* number in flight, being resent, or known to the server ("Unique,        *)
(* monotonically increasing", protocol.rs:10).                             *)
FreshNumbers ==
  [][\A n \in c2s' \ c2s :
       \A k \in in_flight \cup lost \cup c2s \cup received : k < n]_vars

(* The reordering threshold of on_ack_received never declares a loss: only *)
(* a datagram whose timeout has expired enters the resend list.            *)
LossOnlyByTimeout == [][\A n \in lost' \ lost : TimedOut(n)]_vars

(* run_upload_test returns: the test ends whatever the network does.       *)
UploadTerminates == <>(pc = "done")

(* STP_IMPLEMENTATION.md:42: a missing datagram is tolerated as reordered  *)
(* until 3 higher ones are acknowledged and is then declared lost.  So a   *)
(* datagram leaves in_flight because the server received it or because it  *)
(* was declared lost.                                                      *)
AckedWasReceivedOrLost ==
  [][\A n \in in_flight \ in_flight' : n \in received \/ n \in lost']_vars

(* STP_IMPLEMENTATION.md:43: the timeout is the fallback that detects a    *)
(* loss when no acknowledgement does.  So when the window is full and the  *)
(* loop turns over a datagram whose timeout has expired, that datagram is  *)
(* taken out of in_flight to be resent.                                    *)
TimeoutDetectsLoss ==
  \A n \in 1 .. MaxPacket :
    (pc = "loop" /\ ~TestOver /\ ~can_send /\ n \in in_flight /\ TimedOut(n))
      ~> n \notin in_flight
=============================================================================
