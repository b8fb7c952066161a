--------------------------- MODULE StpPacing_proofs ---------------------------
(***************************************************************************)
(* The controller and the upload loop, for every gain, filter and timer.   *)
(*                                                                         *)
(* The window is a quotient of the smallest RTT in the bandwidth filter.   *)
(* That it is at most two datagrams rests on what the two filters remember *)
(* of each other: a sample taken since min_rtt was is no faster than it    *)
(* (Filters).  The same invariant says that an ACK leaves min_rtt fresh,   *)
(* so only silence can start ProbeRtt.                                     *)
(***************************************************************************)
EXTENDS StpPacing, WellFoundedInduction, SequenceTheorems, TLAPS

(* What the samples and min_rtt remember of each other. *)
Filters ==
  /\ last_ack <= now /\ min_rtt_stamp <= last_ack
  /\ last_ack - min_rtt_stamp <= min_rtt_filter_len
  /\ \A s \in samples :
       /\ last_ack - bw_filter_len <= s.time /\ s.time <= last_ack
       /\ s.time >= min_rtt_stamp => s.rtt >= min_rtt

(* The window is the one of the current phase and model. *)
WindowIsCurrent ==
  driven => cwnd = Clamp(Target(Gain(state, cycle_index), samples, min_rtt))

(* How late it can be at each place of the loop. *)
Lateness ==
  /\ pc # "pacing" => last_send_time <= now
  /\ pc = "pacing" => now <= wake /\ wake = last_send_time /\ wake <= Duration + MaxInterval
  /\ pc = "sending" => now <= Duration + MaxInterval
  /\ pc = "receiving" => now <= wake /\ wake <= Duration + MaxInterval + RecvTimeout
  /\ pc \in {"acking", "resending"} => now <= Duration + MaxInterval + RecvTimeout
  /\ pc = "sleeping" => now <= wake /\ wake <= Duration + MaxInterval + RecvTimeout + Sleep
  /\ pc \in {"loop", "done"} => now <= Duration + MaxInterval + RecvTimeout + Sleep

Inv == PacingTypeOK /\ Filters /\ WindowIsCurrent /\ RateInSync /\ Lateness

(***************************************************************************)
(* Arithmetic of the window and of the sending interval.                   *)
(***************************************************************************)
LEMMA NatHasMinimum ==
  ASSUME NEW T \in SUBSET Nat, T # {}
  PROVE  \E x \in T : \A y \in T : x <= y
<1>1. IsWellFoundedOn(OpToRel(<, Nat), Nat)
  BY NatLessThanWellFounded
<1>2. PICK x \in T : \A y \in T : ~(<<y, x>> \in OpToRel(<, Nat))
  BY <1>1, WFMin
<1>3. \A y \in T : ~(y < x)
  BY <1>2 DEF OpToRel
<1> QED BY <1>3

LEMMA QuotientBound ==
  ASSUME NEW a \in Nat, NEW b \in Nat \ {0}, NEW c \in Nat, a <= b * c
  PROVE  a \div b <= c
<1> DEFINE q == a \div b
<1>1. q \in Nat /\ b * q <= a
  OBVIOUS
<1>2. SUFFICES ASSUME q >= c + 1 PROVE FALSE
  BY <1>1
<1>3. b * q >= b * (c + 1)
  BY <1>1, <1>2
<1>4. b * (c + 1) = b * c + b
  OBVIOUS
<1> QED BY <1>1, <1>3, <1>4

(* The fastest RTT is that of a sample and none is smaller. *)
LEMMA FastestIsLeast ==
  ASSUME NEW ss \in SUBSET [rtt : Nat, time : Nat], ss # {}
  PROVE  /\ FastestRtt(ss) \in Nat
         /\ \E s \in ss : FastestRtt(ss) = s.rtt
         /\ \A s \in ss : FastestRtt(ss) <= s.rtt
<1> DEFINE T == {s.rtt : s \in ss}
<1>1. T \in SUBSET Nat /\ T # {}
  OBVIOUS
<1>2. \E r \in T : \A y \in T : r <= y
  BY <1>1, NatHasMinimum
<1>3. \E r \in T : \A s \in ss : r <= s.rtt
  BY <1>2
<1>4. FastestRtt(ss) \in T /\ \A s \in ss : FastestRtt(ss) <= s.rtt
  BY <1>3 DEF FastestRtt
<1> QED BY <1>1, <1>4

LEMMA ProbeBwGain ==
  ASSUME NEW i \in 0 .. Len(probe_bw_gains) - 1
  PROVE  probe_bw_gains[i + 1] \in 1 .. 200
<1>1. probe_bw_gains \in Seq(1 .. 200) /\ Len(probe_bw_gains) \in Nat
  BY GainAssumption
<1>2. i + 1 \in 1 .. Len(probe_bw_gains)
  BY <1>1
<1> QED BY <1>1, <1>2, ElementOfSeq

LEMMA GainInRange ==
  ASSUME NEW s \in States, NEW i \in 0 .. Len(probe_bw_gains) - 1
  PROVE  Gain(s, i) \in 0 .. 200
<1> QED BY ProbeBwGain, GainAssumption DEF Gain, States

LEMMA TargetIsNat ==
  ASSUME NEW gain \in 0 .. 200, NEW ss \in SUBSET [rtt : Nat, time : Nat], NEW r \in Nat
  PROVE  Target(gain, ss, r) \in Nat
<1>1. CASE ss = {} \/ gain = 0
  BY <1>1 DEF Target
<1>2. CASE ss # {} /\ gain # 0
  <2>1. FastestRtt(ss) \in Nat
    BY <1>2, FastestIsLeast
  <2>2. CASE FastestRtt(ss) = 0
    BY <1>2, <2>2, WindowAssumption DEF Target
  <2>3. CASE FastestRtt(ss) # 0
    <3>1. gain * PacketSize * r \in Nat /\ 100 * FastestRtt(ss) \in Nat \ {0}
      BY <2>1, <2>3, WindowAssumption
    <3>2. (gain * PacketSize * r) \div (100 * FastestRtt(ss)) \in Nat
      BY <3>1
    <3> QED BY <1>2, <2>3, <3>2 DEF Target
  <2> QED BY <2>2, <2>3
<1> QED BY <1>1, <1>2

LEMMA ClampInRange ==
  ASSUME NEW w \in Nat
  PROVE  Clamp(w) \in min_cwnd .. max_cwnd
BY WindowAssumption DEF Clamp

(* While no sample is faster than min_rtt, the window is the larger of its *)
(* minimum and two datagrams.                                              *)
LEMMA WindowIsSmall ==
  ASSUME NEW gain \in 0 .. 200, NEW ss \in SUBSET [rtt : Nat, time : Nat], NEW r \in Nat,
         \A s \in ss : r <= s.rtt
  PROVE  Clamp(Target(gain, ss, r)) <= min_cwnd \/ Clamp(Target(gain, ss, r)) <= 2 * PacketSize
<1>1. Target(gain, ss, r) \in Nat /\ Target(gain, ss, r) <= 2 * PacketSize
  <2>1. CASE ss = {} \/ gain = 0
    BY <2>1, WindowAssumption DEF Target
  <2>2. CASE ss # {} /\ gain # 0
    <3> DEFINE f == FastestRtt(ss)
    <3>1. f \in Nat /\ r <= f
      BY <2>2, FastestIsLeast
    <3>2. CASE f = 0
      BY <2>2, <3>1, <3>2, WindowAssumption DEF Target
    <3>3. CASE f # 0
      <4>1. gain * PacketSize \in Nat /\ gain * PacketSize <= 200 * PacketSize
        BY WindowAssumption
      <4>2. gain * PacketSize * r <= (200 * PacketSize) * f
        <5>1. gain * PacketSize * r <= gain * PacketSize * f
          BY <3>1, <4>1
        <5>2. (gain * PacketSize) * f <= (200 * PacketSize) * f
          BY <3>1, <4>1, WindowAssumption
        <5>3. gain * PacketSize * r \in Nat /\ gain * PacketSize * f \in Nat
              /\ (200 * PacketSize) * f \in Nat
          BY <3>1, <4>1, WindowAssumption
        <5> QED BY <5>1, <5>2, <5>3
      <4>3. (200 * PacketSize) * f = (100 * f) * (2 * PacketSize)
        BY <3>1, WindowAssumption
      <4>4. gain * PacketSize * r \in Nat /\ 100 * f \in Nat \ {0} /\ 2 * PacketSize \in Nat
        BY <3>1, <3>3, <4>1, WindowAssumption
      <4>5. (gain * PacketSize * r) \div (100 * f) <= 2 * PacketSize
        BY <4>2, <4>3, <4>4, QuotientBound
      <4> QED BY <2>2, <3>3, <4>5, TargetIsNat DEF Target
    <3> QED BY <3>2, <3>3
  <2> QED BY <2>1, <2>2
<1> QED BY <1>1, WindowAssumption DEF Clamp

LEMMA IntervalInRange ==
  ASSUME NEW s \in States, NEW i \in 0 .. Len(probe_bw_gains) - 1,
         NEW ss \in SUBSET [rtt : Nat, time : Nat]
  PROVE  SendInterval(s, i, ss) \in 0 .. MaxInterval
<1>1. CASE ss = {}
  BY <1>1, TimeAssumption DEF SendInterval
<1>2. CASE ss # {}
  <2> DEFINE f == FastestRtt(ss)
  <2>1. f \in Nat
    BY <1>2, FastestIsLeast
  <2>2. PacedRtt(s, i, f) \in Nat
    <3>1. (100 * f) \div startup_pacing_gain \in Nat
      <4>1. startup_pacing_gain \in Nat \ {0}
        BY GainAssumption
      <4> QED BY <2>1, <4>1
    <3>2. (100 * f) \div probe_bw_gains[i + 1] \in Nat
      <4>1. \A d \in 1 .. 200 : (100 * f) \div d \in Nat
        BY <2>1
      <4> QED BY <4>1, ProbeBwGain
    <3>3. (startup_pacing_gain * f) \div 100 \in Nat
      <4>1. startup_pacing_gain * f \in Nat
        BY <2>1, GainAssumption
      <4> QED BY <4>1
    <3> QED BY <2>1, <3>1, <3>2, <3>3 DEF PacedRtt
  <2> QED BY <2>2, TimeAssumption DEF SendInterval
<1> QED BY <1>1, <1>2

(***************************************************************************)
(* The calls of the controller.                                            *)
(***************************************************************************)
LEMMA UpdateStateTypes ==
  ASSUME TypeOK, UpdateState
  PROVE  /\ state' \in States /\ state_start' \in Nat
         /\ cycle_index' \in 0 .. Len(probe_bw_gains) - 1 /\ cycle_start' \in Nat
<1>1. Len(probe_bw_gains) \in Nat \ {0} /\ cycle_index \in Nat
  BY GainAssumption DEF TypeOK
<1>2. (cycle_index + 1) % Len(probe_bw_gains) \in 0 .. Len(probe_bw_gains) - 1
      /\ 0 \in 0 .. Len(probe_bw_gains) - 1
  BY <1>1
<1>3. state' \in States /\ state_start' \in {state_start, now}
  BY DEF UpdateState, FromStartup, FromDrain, FromProbeBw, FromProbeRtt, Enter, TypeOK,
     States, phase
<1>4. cycle_start' \in {cycle_start, now}
      /\ cycle_index' \in {cycle_index, 0, (cycle_index + 1) % Len(probe_bw_gains)}
  BY DEF UpdateState, FromStartup, FromDrain, FromProbeBw, FromProbeRtt, RestartCycle,
     AdvanceCyclePhase, phase
<1> QED BY <1>2, <1>3, <1>4 DEF TypeOK

LEMMA UpdateModelTypes ==
  ASSUME TypeOK, NEW r \in Nat, UpdateModel(r)
  PROVE  /\ samples' \in SUBSET [rtt : Nat, time : Nat]
         /\ min_rtt' \in Nat /\ min_rtt_stamp' \in Nat
<1>1. [rtt |-> r, time |-> now] \in [rtt : Nat, time : Nat]
  BY DEF TypeOK
<1>2. KeptSamples \in SUBSET [rtt : Nat, time : Nat]
  BY DEF TypeOK, KeptSamples
<1>3. min_rtt' \in {min_rtt, r} /\ min_rtt_stamp' \in {min_rtt_stamp, now}
  BY DEF UpdateModel
<1> QED BY <1>1, <1>2, <1>3 DEF UpdateModel, TypeOK

LEMMA WindowTypes ==
  ASSUME state' \in States, cycle_index' \in 0 .. Len(probe_bw_gains) - 1,
         samples' \in SUBSET [rtt : Nat, time : Nat], min_rtt' \in Nat,
         UpdateControlParameters
  PROVE  cwnd' \in min_cwnd .. max_cwnd
<1>1. Target(Gain(state', cycle_index'), samples', min_rtt') \in Nat
  BY GainInRange, TargetIsNat
<1> QED BY <1>1, ClampInRange DEF UpdateControlParameters

LEMMA SentOrLostTypes ==
  ASSUME TypeOK, OnPacketSentOrLost, now' = now
  PROVE  TypeOK'
<1>1. UNCHANGED <<samples, min_rtt, min_rtt_stamp, packets_acked, last_ack>>
  BY DEF OnPacketSentOrLost, model
<1>2. /\ state' \in States /\ state_start' \in Nat
      /\ cycle_index' \in 0 .. Len(probe_bw_gains) - 1 /\ cycle_start' \in Nat
  BY UpdateStateTypes DEF OnPacketSentOrLost
<1>3. cwnd' \in min_cwnd .. max_cwnd
  BY <1>1, <1>2, WindowTypes DEF OnPacketSentOrLost, TypeOK
<1> QED BY <1>1, <1>2, <1>3 DEF OnPacketSentOrLost, TypeOK

LEMMA AckTypes ==
  ASSUME TypeOK, NEW r \in Nat, OnAckReceived(r), now' = now
  PROVE  TypeOK'
<1>1. samples' \in SUBSET [rtt : Nat, time : Nat] /\ min_rtt' \in Nat /\ min_rtt_stamp' \in Nat
  BY UpdateModelTypes DEF OnAckReceived
<1>2. /\ state' \in States /\ state_start' \in Nat
      /\ cycle_index' \in 0 .. Len(probe_bw_gains) - 1 /\ cycle_start' \in Nat
  BY UpdateStateTypes DEF OnAckReceived
<1>3. cwnd' \in min_cwnd .. max_cwnd
  BY <1>1, <1>2, WindowTypes DEF OnAckReceived
<1>4. packets_acked' \in Nat /\ last_ack' \in Nat /\ driven' \in BOOLEAN
  BY TimeAssumption DEF OnAckReceived, CountAck, TypeOK
<1> QED BY <1>1, <1>2, <1>3, <1>4 DEF TypeOK

(* What an ACK does to the filters: the sample it adds is no faster than   *)
(* the min_rtt it leaves, and min_rtt is replaced by a slower one only     *)
(* when no sample of this moment is there.                                 *)
LEMMA AckFilters ==
  ASSUME TypeOK, Filters, NEW r \in Nat, OnAckReceived(r), now' = now
  PROVE  Filters'
<1> DEFINE new == [rtt |-> r, time |-> now]
<1>1. /\ now \in Nat /\ last_ack \in Nat /\ min_rtt_stamp \in Nat /\ min_rtt \in Nat
      /\ min_rtt_filter_len \in Nat /\ bw_filter_len \in Nat
      /\ samples \in SUBSET [rtt : Nat, time : Nat]
  BY TimeAssumption DEF TypeOK
<1>2. /\ samples' = {s \in samples : s.time >= now - bw_filter_len} \cup {new}
      /\ last_ack' = now
  BY DEF OnAckReceived, UpdateModel, KeptSamples
<1>3. /\ (r < min_rtt \/ RttExpired) => min_rtt' = r /\ min_rtt_stamp' = now
      /\ ~(r < min_rtt \/ RttExpired) => min_rtt' = min_rtt /\ min_rtt_stamp' = min_rtt_stamp
  BY DEF OnAckReceived, UpdateModel
<1>4. min_rtt_stamp' <= now /\ now - min_rtt_stamp' <= min_rtt_filter_len
  BY <1>1, <1>3 DEF Filters, RttExpired
<1>5. ASSUME NEW s \in samples'
      PROVE  /\ now - bw_filter_len <= s.time /\ s.time <= now
             /\ s.time >= min_rtt_stamp' => s.rtt >= min_rtt'
  <2>1. CASE s = new
    BY <1>1, <1>3, <2>1
  <2>2. CASE s \in samples /\ s.time >= now - bw_filter_len
    <3>1. /\ s.rtt \in Nat /\ s.time \in Nat /\ s.time <= last_ack /\ last_ack <= now
          /\ s.time >= min_rtt_stamp => s.rtt >= min_rtt
      BY <1>1, <2>2 DEF Filters
    <3>2. CASE ~(r < min_rtt \/ RttExpired)
      BY <1>1, <1>3, <2>2, <3>1, <3>2
    <3>3. CASE r < min_rtt
      BY <1>1, <1>3, <2>2, <3>1, <3>3 DEF Filters
    <3>4. CASE RttExpired
      <4>1. last_ack < now
        BY <1>1, <3>1, <3>4 DEF Filters, RttExpired
      <4> QED BY <1>1, <1>3, <2>2, <3>1, <3>4, <4>1
    <3> QED BY <3>2, <3>3, <3>4
  <2> QED BY <1>2, <1>5, <2>1, <2>2
<1> QED BY <1>1, <1>2, <1>4, <1>5 DEF Filters

LEMMA SentOrLostFilters ==
  ASSUME Filters, OnPacketSentOrLost, now' = now
  PROVE  Filters'
BY DEF Filters, OnPacketSentOrLost, model

(* Every call ends by computing the window of the new phase and model. *)
LEMMA CallsSetWindow ==
  ASSUME OnPacketSentOrLost \/ \E r \in Nat : OnAckReceived(r)
  PROVE  WindowIsCurrent'
BY DEF OnPacketSentOrLost, OnAckReceived, UpdateControlParameters, WindowIsCurrent

(***************************************************************************)
(* The steps of the loop.                                                  *)
(***************************************************************************)
LEMMA InitInv == PacingInit => Inv
<1> SUFFICES ASSUME PacingInit PROVE Inv
  OBVIOUS
<1> USE WindowAssumption, TimeAssumption, LoopAssumption DEF PacingInit, Init
<1>1. TypeOK
  <2>1. 0 \in 0 .. Len(probe_bw_gains) - 1
    BY GainAssumption
  <2> QED BY <2>1 DEF TypeOK, States
<1>2. interval \in 0 .. MaxInterval
  BY <1>1, IntervalInRange DEF TypeOK, sending_rate
<1>3. PacingTypeOK
  BY <1>1, <1>2 DEF PacingTypeOK
<1>4. Filters /\ WindowIsCurrent /\ RateInSync
  BY DEF Filters, WindowIsCurrent, RateInSync
<1>5. Lateness
  BY DEF Lateness
<1> QED BY <1>3, <1>4, <1>5 DEF Inv

(* The steps that leave the controller alone. *)
Plain == SendNow \/ SendLater \/ PacingOver \/ Blocked \/ Done \/ NoAck \/ RecvAck
         \/ AckProcessed \/ Slept \/ Finished

LEMMA PlainLeavesController ==
  ASSUME Plain \/ Tick \/ UNCHANGED all
  PROVE  UNCHANGED controller
BY DEF Plain, SendNow, SendLater, PacingOver, Blocked, Done, NoAck, RecvAck, AckProcessed,
   Slept, Finished, Tick, all

(* Every step preserves the types. *)
LEMMA ControllerTypeStep ==
  ASSUME PacingTypeOK, [Next]_all
  PROVE  TypeOK'
<1> USE DEF PacingTypeOK
<1>1. CASE Plain \/ Tick \/ UNCHANGED all
  <2>1. UNCHANGED <<state, state_start, cycle_index, cycle_start, samples, min_rtt,
                    min_rtt_stamp, packets_acked, last_ack, cwnd, driven>>
    BY <1>1, PlainLeavesController DEF controller, phase, model
  <2>2. now' \in Nat
    BY <1>1 DEF Plain, SendNow, SendLater, PacingOver, Blocked, Done, NoAck, RecvAck,
       AckProcessed, Slept, Finished, Tick, all, TypeOK
  <2> QED BY <2>1, <2>2 DEF TypeOK
<1>2. CASE SendData \/ Resent \/ ResendFails
  BY <1>2, SentOrLostTypes DEF SendData, Resent, ResendFails
<1>3. CASE Acked
  BY <1>3, AckTypes DEF Acked
<1> QED BY <1>1, <1>2, <1>3 DEF Next, Send, Ack, Plain

LEMMA TypeStep ==
  ASSUME PacingTypeOK, [Next]_all
  PROVE  PacingTypeOK'
<1>1. TypeOK'
  BY ControllerTypeStep
<1>2. interval' \in 0 .. MaxInterval
  <2>1. CASE UpdateRate
    BY <1>1, <2>1, IntervalInRange DEF UpdateRate, TypeOK
  <2>2. CASE interval' = interval
    BY <2>2 DEF PacingTypeOK
  <2>3. UpdateRate \/ interval' = interval
    BY DEF Next, Send, Ack, SendNow, SendLater, PacingOver, SendData, Blocked, Done, NoAck,
       RecvAck, Acked, Resent, ResendFails, AckProcessed, Slept, Tick, Finished, all, pacer
  <2> QED BY <2>1, <2>2, <2>3
<1>3. /\ now \in Nat /\ wake \in Nat /\ rtt \in Nat /\ stale \in BOOLEAN /\ interval \in Nat
      /\ last_send_time \in Nat \cup {-1} /\ RecvTimeout \in Nat /\ Sleep \in Nat
      /\ Rtts \subseteq Nat
  BY TimeAssumption, LoopAssumption DEF PacingTypeOK, TypeOK
<1>4. /\ wake' \in Nat
      /\ last_send_time' \in Nat \cup {-1}
  <2>1. wake' \in {wake, now + RecvTimeout, now + Sleep} \/ SendLater
    BY DEF Next, Send, Ack, SendNow, PacingOver, SendData, Blocked, Done, NoAck,
       RecvAck, Acked, Resent, ResendFails, AckProcessed, Slept, Tick, Finished, all,
       Receive, EndTurn
  <2>2. last_send_time' \in {last_send_time, now} \/ SendLater
    BY DEF Next, Send, Ack, SendNow, PacingOver, SendData, Blocked, Done, NoAck,
       RecvAck, Acked, Resent, ResendFails, AckProcessed, Slept, Tick, Finished, all, pacer
  <2>3. SendLater => wake' \in Nat /\ last_send_time' \in Nat
    BY <1>3 DEF SendLater, Ideal
  <2> QED BY <1>3, <2>1, <2>2, <2>3
<1>5. rtt' \in Nat
  <2>1. rtt' \in {rtt, 0} \cup Rtts
    BY DEF Next, Send, Ack, SendNow, SendLater, PacingOver, SendData, Blocked, Done, NoAck,
       RecvAck, Acked, Resent, ResendFails, AckProcessed, Slept, Tick, Finished, all,
       Receive, EndTurn
  <2> QED BY <1>3, <2>1
<1>6. stale' \in BOOLEAN
  BY <1>3 DEF Next, Send, Ack, SendNow, SendLater, PacingOver, SendData, Blocked, Done,
     NoAck, RecvAck, Acked, Resent, ResendFails, AckProcessed, Slept, Tick, Finished, all,
     UpdateRate
<1>7. pc' \in {"loop", "pacing", "sending", "receiving", "acking", "resending",
                "sleeping", "done"}
  BY DEF Next, Send, Ack, SendNow, SendLater, PacingOver, SendData, Blocked, Done,
     NoAck, RecvAck, Acked, Resent, ResendFails, AckProcessed, Slept, Tick, Finished, all,
     Receive, EndTurn, PacingTypeOK
<1> QED BY <1>1, <1>2, <1>4, <1>5, <1>6, <1>7 DEF PacingTypeOK

LEMMA FiltersStep ==
  ASSUME Inv, [Next]_all
  PROVE  Filters' /\ WindowIsCurrent'
<1> USE DEF Inv, PacingTypeOK
<1>1. CASE Plain \/ Tick \/ UNCHANGED all
  <2>1. UNCHANGED controller /\ now' >= now
    <3>1. now' = now \/ now' = now + 1
      BY <1>1 DEF Plain, SendNow, SendLater, PacingOver, Blocked, Done, NoAck, RecvAck,
         AckProcessed, Slept, Finished, Tick, all
    <3> QED BY <1>1, <3>1, PlainLeavesController DEF TypeOK
  <2>2. now \in Nat /\ now' \in Nat /\ last_ack \in Nat
    BY ControllerTypeStep DEF TypeOK
  <2>3. last_ack <= now'
    BY <2>1, <2>2 DEF Filters
  <2> QED BY <2>1, <2>3 DEF controller, phase, model, Filters, WindowIsCurrent
<1>2. CASE SendData \/ Resent \/ ResendFails
  BY <1>2, SentOrLostFilters, CallsSetWindow DEF SendData, Resent, ResendFails
<1>3. CASE Acked
  <2>1. OnAckReceived(rtt) /\ rtt \in Nat /\ now' = now
    BY <1>3 DEF Acked
  <2> QED BY <2>1, AckFilters, CallsSetWindow
<1> QED BY <1>1, <1>2, <1>3 DEF Next, Send, Ack, Plain

LEMMA RateStep ==
  ASSUME Inv, [Next]_all
  PROVE  RateInSync'
<1> USE DEF Inv, RateInSync, sending_rate
<1>1. CASE SendData \/ AckProcessed
  BY <1>1 DEF SendData, AckProcessed, UpdateRate
<1>2. CASE Acked \/ Resent \/ ResendFails \/ RecvAck
  BY <1>2 DEF Acked, Resent, ResendFails, RecvAck
<1>3. CASE SendNow \/ SendLater \/ PacingOver \/ Blocked \/ Done \/ NoAck \/ Slept \/ Finished
           \/ Tick \/ UNCHANGED all
  <2>1. UNCHANGED <<state, cycle_index, samples, interval, stale>>
    BY <1>3 DEF SendNow, SendLater, PacingOver, Blocked, Done, NoAck, Slept, Finished, Tick,
       all, controller, phase, model, pacer
  <2>2. pc' \in {"acking", "resending", "done"} \/ pc \notin {"acking", "resending", "done"}
    BY <1>3 DEF SendNow, SendLater, PacingOver, Blocked, Done, NoAck, Slept, Finished, Tick, all
  <2> QED BY <2>1, <2>2
<1> QED BY <1>1, <1>2, <1>3 DEF Next, Send, Ack

LEMMA LatenessStep ==
  ASSUME Inv, PacingTypeOK', [Next]_all
  PROVE  Lateness'
<1>1. /\ now \in Nat /\ wake \in Nat /\ interval \in 0 .. MaxInterval
      /\ last_send_time \in Nat \cup {-1} /\ MaxInterval \in Nat
      /\ Duration \in Nat /\ RecvTimeout \in Nat /\ Sleep \in Nat
  BY TimeAssumption, LoopAssumption DEF Inv, PacingTypeOK, TypeOK
<1> USE <1>1 DEF Inv, Lateness
<1>2. CASE SendNow
  BY <1>2 DEF SendNow, Over
<1>3. CASE SendLater
  BY <1>3 DEF SendLater, Over, Ideal
<1>4. CASE PacingOver
  BY <1>4 DEF PacingOver, pacer
<1>5. CASE SendData
  BY <1>5 DEF SendData, Receive
<1>6. CASE Blocked
  BY <1>6 DEF Blocked, Receive, Over, pacer
<1>7. CASE Done
  BY <1>7 DEF Done, pacer
<1>8. CASE NoAck
  BY <1>8 DEF NoAck, EndTurn, pacer
<1>9. CASE RecvAck
  BY <1>9 DEF RecvAck, pacer
<1>10. CASE Acked \/ Resent
  BY <1>10 DEF Acked, Resent, pacer
<1>11. CASE ResendFails \/ AckProcessed
  <2>1. /\ pc \in {"acking", "resending"} /\ pc' = "sleeping"
        /\ wake' = now + Sleep /\ now' = now /\ last_send_time' = last_send_time
    BY <1>11 DEF ResendFails, AckProcessed, EndTurn, pacer
  <2> QED BY <2>1
<1>12. CASE Slept
  BY <1>12 DEF Slept, pacer
<1>13. CASE Tick
  BY <1>13 DEF Tick, pacer
<1>14. CASE Finished \/ UNCHANGED all
  BY <1>14 DEF Finished, all, pacer
<1> QED BY <1>2, <1>3, <1>4, <1>5, <1>6, <1>7, <1>8, <1>9, <1>10, <1>11, <1>12, <1>13, <1>14
        DEF Next, Send, Ack

(* The invariant holds in every reachable state. *)
THEOREM Invariance == Spec => []Inv
<1>1. Inv /\ [Next]_all => Inv'
  BY TypeStep, FiltersStep, RateStep, LatenessStep DEF Inv
<1> QED BY <1>1, InitInv, PTL DEF Spec

(* The type invariant: the window stays in its clamp, whatever the gains   *)
(* and the RTTs, zero included.                                            *)
THEOREM TypeCorrect == Spec => []PacingTypeOK
<1>1. Inv => PacingTypeOK
  BY DEF Inv
<1> QED BY <1>1, Invariance, PTL

(* The window leaves the larger of its minimum and two datagrams only      *)
(* while the bandwidth filter remembers what min_rtt has forgotten.        *)
THEOREM WindowStaysSmall == Spec => []WindowOpensOnlyAfterRttRise
<1>1. Inv => WindowOpensOnlyAfterRttRise
  <2> SUFFICES ASSUME Inv PROVE WindowOpensOnlyAfterRttRise
    OBVIOUS
  <2>0. /\ cwnd \in Int /\ min_cwnd \in Int /\ PacketSize \in Int
        /\ last_ack \in Int /\ min_rtt_stamp \in Int /\ bw_filter_len \in Int
    BY WindowAssumption, TimeAssumption DEF Inv, PacingTypeOK, TypeOK
  <2> SUFFICES ASSUME driven, last_ack - min_rtt_stamp > bw_filter_len
               PROVE  cwnd <= min_cwnd \/ cwnd <= 2 * PacketSize
    BY <2>0 DEF WindowOpensOnlyAfterRttRise
  <2>1. /\ last_ack \in Nat /\ min_rtt_stamp \in Nat /\ min_rtt \in Nat /\ bw_filter_len \in Nat
        /\ samples \in SUBSET [rtt : Nat, time : Nat]
    BY TimeAssumption DEF Inv, PacingTypeOK, TypeOK
  <2>2. \A s \in samples : min_rtt <= s.rtt
    BY <2>1 DEF Inv, Filters
  <2>3. Gain(state, cycle_index) \in 0 .. 200
    BY GainInRange DEF Inv, PacingTypeOK, TypeOK
  <2>4. cwnd = Clamp(Target(Gain(state, cycle_index), samples, min_rtt))
    BY DEF Inv, WindowIsCurrent
  <2> QED BY <2>1, <2>2, <2>3, <2>4, WindowIsSmall
<1> QED BY <1>1, Invariance, PTL

(* A distance is not both within a limit and beyond it. *)
LEMMA Opposed == \A x, y \in Int : ~(x <= y /\ x > y)
  OBVIOUS

(* No ACK starts ProbeRtt: only a send or a loss after a silence does. *)
THEOREM SilenceStartsProbeRtt == Spec => ProbeRttNeedsSilence
<1>1. ASSUME Inv, [Next]_all, state' = "ProbeRtt", state # "ProbeRtt"
      PROVE  now - last_ack > 0 /\ UNCHANGED model
  <2>1. /\ now \in Nat /\ last_ack \in Nat /\ min_rtt_stamp \in Nat
        /\ min_rtt_filter_len \in Nat
    BY <1>1, TimeAssumption DEF Inv, PacingTypeOK, TypeOK
  <2>2. CASE Plain \/ Tick \/ UNCHANGED all
    BY <1>1, <2>2, PlainLeavesController DEF controller, phase
  <2>3. ASSUME UpdateState PROVE now - min_rtt_stamp' > min_rtt_filter_len
    BY <1>1, <2>3 DEF UpdateState, FromStartup, FromDrain, FromProbeBw, FromProbeRtt, Enter,
       phase
  <2>4. CASE SendData \/ Resent \/ ResendFails
    <3>1. UpdateState /\ UNCHANGED model
      BY <2>4 DEF SendData, Resent, ResendFails, OnPacketSentOrLost
    <3> QED BY <1>1, <2>1, <2>3, <3>1 DEF model, Inv, Filters
  <2>5. CASE Acked
    <3>1. OnAckReceived(rtt) /\ now' = now /\ rtt \in Nat
      BY <1>1, <2>5 DEF Acked, Inv, PacingTypeOK
    <3>2. now - min_rtt_stamp' <= min_rtt_filter_len
      <4>1. Filters' /\ last_ack' = now
        BY <1>1, <3>1, AckFilters DEF Inv, PacingTypeOK, OnAckReceived
      <4> QED BY <4>1, <3>1, <2>1 DEF Filters
    <3>3. min_rtt_stamp' \in Nat
      BY <1>1, <3>1, AckTypes DEF Inv, PacingTypeOK, TypeOK
    <3>4. UpdateState
      BY <3>1 DEF OnAckReceived
    <3>5. now - min_rtt_stamp' > min_rtt_filter_len
      BY <2>3, <3>4
    <3>6. now - min_rtt_stamp' \in Int /\ min_rtt_filter_len \in Int
      BY <2>1, <3>3
    <3> QED BY <3>2, <3>5, <3>6, Opposed
  <2> QED BY <1>1, <2>2, <2>4, <2>5 DEF Next, Send, Ack, Plain
<1>2. Inv /\ [Next]_all
        => [state' = "ProbeRtt" /\ state # "ProbeRtt"
              => now - last_ack > 0 /\ UNCHANGED model]_vars
  BY <1>1
<1> QED BY <1>2, Invariance, PTL DEF Spec, ProbeRttNeedsSilence

(* The pacer keeps the controller's rate, up to a failed resend. *)
THEOREM RatesAgree == Spec => []RateInSync
<1>1. Inv => RateInSync
  BY DEF Inv
<1> QED BY <1>1, Invariance, PTL

(* However slow the controller makes the pacer, the test ends within one   *)
(* datagram's time at the lowest rate and one turn of its duration.        *)
THEOREM OverrunIsBounded == Spec => []PacingOverrun
<1>1. Inv => PacingOverrun
  <2> SUFFICES ASSUME Inv PROVE PacingOverrun
    OBVIOUS
  <2>1. /\ now \in Nat /\ wake \in Nat /\ MaxInterval \in Nat /\ Duration \in Nat
        /\ RecvTimeout \in Nat /\ Sleep \in Nat
    BY TimeAssumption, LoopAssumption DEF Inv, PacingTypeOK, TypeOK
  <2> QED BY <2>1 DEF Inv, Lateness, PacingTypeOK, PacingOverrun
<1> QED BY <1>1, Invariance, PTL
=============================================================================
