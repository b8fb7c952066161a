--------------------------------- MODULE Bbr ---------------------------------
(***************************************************************************)
(* BbrCongestionControl: the phases, the two filters and the window, driven *)
(* by the three calls of StpClient (a datagram sent, acknowledged, lost).  *)
(*                                                                         *)
(* A bandwidth sample is the size of one datagram over its RTT, and all    *)
(* datagrams of a test have one size, so a sample is kept as its RTT and   *)
(* the largest bandwidth is the smallest RTT in the filter.  Windows are   *)
(* then quotients of integers: gains are in hundredths, times in ticks.    *)
(* An RTT of zero, which calculate_rtt returns for an echo of the current  *)
(* microsecond, gives an infinite bandwidth.  A sending rate is kept as    *)
(* the time it allows one datagram, to the tick.                           *)
(***************************************************************************)
EXTENDS Integers, Sequences

CONSTANTS
  Rtts,                \* the round trips to consider, in ticks
  PacketSize,          \* encoded length of a datagram
  Mss,                 \* the 1400 of check_startup_done
  min_cwnd, max_cwnd, initial_cwnd,
  startup_cwnd_gain, probe_rtt_cwnd_gain,  \* in hundredths
  startup_pacing_gain, \* in hundredths
  probe_bw_gains,      \* in hundredths
  cycle_phase_len,     \* probe_bw_cycle_len / probe_bw_gains.len()
  probe_rtt_duration,
  min_rtt_filter_len,
  bw_filter_len,
  initial_rtt,         \* the conservative first estimate
  MaxInterval,         \* of one datagram at the minimum of 1000 bytes a second
  MaxAcks              \* bound: packets_acked stops counting here

ASSUME WindowAssumption ==
  /\ PacketSize \in Nat \ {0} /\ Mss \in Nat \ {0}
  /\ min_cwnd \in Nat /\ max_cwnd \in Nat /\ min_cwnd <= max_cwnd
  /\ initial_cwnd \in min_cwnd .. max_cwnd

ASSUME GainAssumption ==
  /\ startup_cwnd_gain \in 100 .. 200 /\ probe_rtt_cwnd_gain \in 0 .. 200
  /\ startup_pacing_gain \in Nat \ {0}
  /\ probe_bw_gains \in Seq(1 .. 200) /\ probe_bw_gains # <<>>

ASSUME TimeAssumption ==
  /\ Rtts \subseteq Nat /\ initial_rtt \in Nat
  /\ cycle_phase_len \in Nat /\ probe_rtt_duration \in Nat
  /\ min_rtt_filter_len \in Nat /\ bw_filter_len \in Nat
  /\ MaxInterval \in Nat /\ MaxAcks \in Nat

VARIABLES
  state,          \* BbrState
  state_start,
  cycle_index, cycle_start,
  samples,        \* BandwidthFilter.samples: sets of [rtt, time]
  min_rtt, min_rtt_stamp,
  packets_acked,
  cwnd,
  now,            \* the clock
  last_ack,       \* history: time of the last acknowledgement
  driven          \* history: some call has been made

phase == <<state, state_start, cycle_index, cycle_start>>
model == <<samples, min_rtt, min_rtt_stamp, packets_acked, last_ack>>
vars  == <<phase, model, cwnd, now, driven>>

States == {"Startup", "Drain", "ProbeBw", "ProbeRtt"}

Init ==
  /\ state = "Startup" /\ state_start = 0 /\ cycle_index = 0 /\ cycle_start = 0
  /\ samples = {} /\ min_rtt = initial_rtt /\ min_rtt_stamp = 0
  /\ packets_acked = 0 /\ last_ack = 0
  /\ cwnd = initial_cwnd
  /\ now = 0 /\ driven = FALSE

(***************************************************************************)
(* update_model.                                                           *)
(***************************************************************************)

(* Mutant: old samples are never removed. *)
KeptSamplesAll == samples

(* BandwidthFilter::update drops the samples older than the filter. *)
KeptSamples == {s \in samples : s.time >= now - bw_filter_len}

RttExpired == now - min_rtt_stamp > min_rtt_filter_len

UpdateModel(rtt) ==
  /\ samples' = KeptSamples \cup {[rtt |-> rtt, time |-> now]}
  /\ IF rtt < min_rtt \/ RttExpired
     THEN min_rtt' = rtt /\ min_rtt_stamp' = now
     ELSE UNCHANGED <<min_rtt, min_rtt_stamp>>

(***************************************************************************)
(* update_state.  The callers pass no bytes in flight, so check_drain_done *)
(* compares zero with the bandwidth-delay product and is always true.      *)
(***************************************************************************)
CheckStartupDone == packets_acked' > 3 * (cwnd \div Mss)

Enter(s) == state' = s /\ state_start' = now

RestartCycle == cycle_start' = now /\ cycle_index' = 0

(* advance_cycle_phase: one phase on, however long the last one took. *)
AdvanceCyclePhase ==
  IF now - cycle_start >= cycle_phase_len
  THEN cycle_index' = (cycle_index + 1) % Len(probe_bw_gains) /\ cycle_start' = now
  ELSE UNCHANGED <<cycle_index, cycle_start>>

FromStartup ==
  /\ state = "Startup"
  /\ IF CheckStartupDone THEN Enter("Drain") ELSE UNCHANGED <<state, state_start>>
  /\ UNCHANGED <<cycle_index, cycle_start>>

FromDrain == state = "Drain" /\ Enter("ProbeBw") /\ RestartCycle

FromProbeBw ==
  /\ state = "ProbeBw"
  /\ IF now - min_rtt_stamp' > min_rtt_filter_len
     THEN Enter("ProbeRtt") /\ UNCHANGED <<cycle_index, cycle_start>>
     ELSE UNCHANGED <<state, state_start>> /\ AdvanceCyclePhase

FromProbeRtt ==
  /\ state = "ProbeRtt"
  /\ IF now - state_start >= probe_rtt_duration
     THEN Enter("ProbeBw") /\ RestartCycle
     ELSE UNCHANGED phase

UpdateState == FromStartup \/ FromDrain \/ FromProbeBw \/ FromProbeRtt

(***************************************************************************)
(* update_control_parameters, with the phase and the model just updated.   *)
(***************************************************************************)
Gain(s, index) ==
  IF s = "Startup" THEN startup_cwnd_gain
  ELSE IF s = "Drain" THEN 100
  ELSE IF s = "ProbeBw" THEN probe_bw_gains[index + 1]
  ELSE probe_rtt_cwnd_gain

(* The RTT of the sample with the largest bandwidth. *)
FastestRtt(ss) ==
  CHOOSE r \in {s.rtt : s \in ss} : \A s \in ss : r <= s.rtt

(* (gain * max_bw * min_rtt) as usize.  Without samples the bandwidth is   *)
(* zero.  Infinite bandwidth saturates, and times an RTT of zero it is     *)
(* not a number, which converts to zero.                                   *)
Target(gain, ss, rtt) ==
  IF ss = {} \/ gain = 0 THEN 0
  ELSE IF FastestRtt(ss) = 0 THEN (IF rtt = 0 THEN 0 ELSE max_cwnd)
  ELSE (gain * PacketSize * rtt) \div (100 * FastestRtt(ss))

(* Mutant: the lower clamp is missing. *)
ClampUpperOnly(w) == IF w > max_cwnd THEN max_cwnd ELSE w

Clamp(w) == IF w < min_cwnd THEN min_cwnd ELSE IF w > max_cwnd THEN max_cwnd ELSE w

UpdateControlParameters ==
  cwnd' = Clamp(Target(Gain(state', cycle_index'), samples', min_rtt'))

(* get_sending_rate, as the time of one datagram: pacing_rate is the       *)
(* largest bandwidth times the phase's gain, and at least 1000 bytes/s.    *)
PacedRtt(s, index, rtt) ==
  IF s = "Startup" THEN (100 * rtt) \div startup_pacing_gain
  ELSE IF s = "Drain" THEN (startup_pacing_gain * rtt) \div 100
  ELSE IF s = "ProbeBw" THEN (100 * rtt) \div probe_bw_gains[index + 1]
  ELSE rtt

SendInterval(s, index, ss) ==
  IF ss # {} /\ PacedRtt(s, index, FastestRtt(ss)) < MaxInterval
  THEN PacedRtt(s, index, FastestRtt(ss))
  ELSE MaxInterval

(***************************************************************************)
(* The calls of StpClient.                                                 *)
(***************************************************************************)

(* on_packet_sent and on_packet_lost do the same to the state. *)
OnPacketSentOrLost ==
  /\ UNCHANGED model
  /\ UpdateState
  /\ UpdateControlParameters
  /\ driven' = TRUE

CountAck ==
  packets_acked' = IF packets_acked < MaxAcks THEN packets_acked + 1 ELSE MaxAcks

(* Mutant: the state is updated from the model before this ACK. *)
OnAckReceivedStateFirst(rtt) ==
  /\ CountAck
  /\ samples' = KeptSamples \cup {[rtt |-> rtt, time |-> now]}
  /\ \/ /\ RttExpired /\ state = "ProbeBw"
        /\ Enter("ProbeRtt") /\ UNCHANGED <<cycle_index, cycle_start>>
        /\ min_rtt' = rtt /\ min_rtt_stamp' = now
     \/ ~(RttExpired /\ state = "ProbeBw") /\ UpdateModel(rtt) /\ UpdateState
  /\ UpdateControlParameters
  /\ last_ack' = now /\ driven' = TRUE

OnAckReceived(rtt) ==
  /\ CountAck
  /\ UpdateModel(rtt)
  /\ UpdateState
  /\ UpdateControlParameters
  /\ last_ack' = now /\ driven' = TRUE

(***************************************************************************)
(* Properties.                                                             *)
(***************************************************************************)

(* Every variable has its type; the window is inside its clamp, which is   *)
(* what StpUpload takes for granted, and a gain exists for cycle_index.    *)
TypeOK ==
  /\ state \in States /\ state_start \in Nat
  /\ cycle_index \in 0 .. Len(probe_bw_gains) - 1 /\ cycle_start \in Nat
  /\ samples \subseteq [rtt : Nat, time : Nat]
  /\ min_rtt \in Nat /\ min_rtt_stamp \in Nat
  /\ packets_acked \in Nat /\ last_ack \in Nat
  /\ cwnd \in min_cwnd .. max_cwnd
  /\ now \in Nat /\ driven \in BOOLEAN

(* Each sample is one datagram over its own RTT, so the bandwidth-delay    *)
(* product is about one datagram.  The window leaves the larger of its     *)
(* minimum and two datagrams only after min_rtt was replaced by a larger   *)
(* value, and for no longer than the bandwidth filter remembers: there is  *)
(* no "Exponential bandwidth probing" (STP_IMPLEMENTATION.md:64) in it.    *)
WindowOpensOnlyAfterRttRise ==
  (driven /\ cwnd > min_cwnd /\ cwnd > 2 * PacketSize)
    => last_ack - min_rtt_stamp <= bw_filter_len

(* update_model renews an expired min_rtt before update_state looks at it, *)
(* so an ACK never starts ProbeRtt: only a send or a loss after a silence  *)
(* does.  It is not the "Periodic RTT measurement" that                    *)
(* STP_IMPLEMENTATION.md:67 describes.                                     *)
ProbeRttNeedsSilence ==
  [][(state' = "ProbeRtt" /\ state # "ProbeRtt")
       => (now - last_ack > 0 /\ UNCHANGED model)]_vars

=============================================================================
