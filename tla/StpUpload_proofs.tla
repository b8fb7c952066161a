--------------------------- MODULE StpUpload_proofs ---------------------------
(***************************************************************************)
(* Proofs about the STP upload, for every value of the constants.          *)
(*                                                                         *)
(* The properties are not inductive one by one.  That an arriving ACK      *)
(* leaves nothing at or below largest_acked behind needs largest_acked to  *)
(* be a number the client has used, which needs the server and both        *)
(* channels to hold used numbers only; that a new datagram is not already  *)
(* in flight needs the number taken before the pacing wait to be fresh     *)
(* until it is sent.  Numbering collects these facts, Budget the window    *)
(* test of the loop that still holds after the pacing wait.                *)
(***************************************************************************)
EXTENDS StpUpload, FiniteSetTheorems, TLAPS

(* on_ack_received treats an ACK as cumulative, so whatever order ACKs     *)
(* arrive in, nothing at or below largest_acked is ever left in flight or  *)
(* waiting to be resent.                                                   *)
InFlightAboveLargestAcked ==
  \A n \in in_flight \cup lost : n > largest_acked

(* The numbers the client has put into circulation. *)
Circulating == in_flight \cup lost \cup c2s \cup received

Numbering ==
  /\ InFlightAboveLargestAcked
  /\ AckedNumberWasReceived
  /\ in_flight \cap lost = {}
  /\ \A n \in Circulating : n <= local_packet_number
  /\ pc = "pacing" => /\ local_packet_number > 0
                      /\ \A n \in Circulating : n < local_packet_number
  /\ pc # "retransmit" => lost = {}

Budget ==
  /\ packets_sent - packets_acked <= MaxWindow
  /\ pc = "pacing" => packets_sent - packets_acked < MaxWindow

IInv == TypeOK /\ Numbering /\ Conservation /\ Budget

(* The invariant holds when the client is created. *)
LEMMA InitIInv == Init => IInv
<1> SUFFICES ASSUME Init PROVE IInv
  OBVIOUS
<1>1. TypeOK
  BY FS_EmptySet, WindowAssumption DEF Init, TypeOK, Ack
<1>2. Numbering
  BY DEF Init, Numbering, Circulating, InFlightAboveLargestAcked, AckedNumberWasReceived
<1>3. Conservation
  BY FS_EmptySet DEF Init, Conservation
<1>4. Budget
  BY WindowAssumption DEF Init, Budget
<1> QED BY <1>1, <1>2, <1>3, <1>4 DEF IInv

(* Control steps of the client that touch neither the recovery state nor   *)
(* the network preserve the invariant.                                     *)
LEMMA ControlStep ==
  ASSUME IInv, LoopExit \/ LoopBlocked \/ SendDataFails \/ RecvTimeout
  PROVE  IInv'
<1> USE DEF LoopExit, LoopBlocked, SendDataFails, RecvTimeout, recovery, stats,
            server, clocks, network
<1>1. TypeOK'
  BY DEF IInv, TypeOK
<1>2. Numbering'
  BY DEF IInv, TypeOK, Numbering, Circulating, InFlightAboveLargestAcked,
         AckedNumberWasReceived
<1>3. Conservation' /\ Budget'
  BY DEF IInv, Conservation, Budget
<1> QED BY <1>1, <1>2, <1>3 DEF IInv

(* Taking a number for the next datagram makes it larger than any in use. *)
LEMMA ScheduleStep ==
  ASSUME IInv, ScheduleSend
  PROVE  IInv'
<1> USE DEF ScheduleSend, next_packet_number, recovery, stats, server, clocks, network
<1>1. TypeOK'
  BY DEF IInv, TypeOK
<1>2. Numbering'
  <2>1. \A n \in Circulating : n \in Nat /\ n <= local_packet_number
    BY DEF IInv, TypeOK, Numbering, Circulating
  <2>2. Circulating' = Circulating
    BY DEF Circulating
  <2> QED BY <2>1, <2>2 DEF IInv, TypeOK, Numbering, InFlightAboveLargestAcked,
             AckedNumberWasReceived, Circulating
<1>3. Conservation'
  BY DEF IInv, Conservation
<1>4. Budget'
  BY WindowAssumption DEF IInv, TypeOK, Budget, can_send, bytes_in_flight
<1> QED BY <1>1, <1>2, <1>3, <1>4 DEF IInv

(* A datagram with a fresh number enters in_flight and the network. *)
LEMMA SendStep ==
  ASSUME IInv, SendData
  PROVE  IInv'
<1> USE DEF SendData, TrackInFlight, server, clocks
<1>1. \A n \in Circulating : n \in Nat /\ n < local_packet_number
  BY DEF IInv, TypeOK, Numbering, Circulating
<1>2. local_packet_number \in Nat /\ local_packet_number \notin in_flight
  BY <1>1 DEF IInv, TypeOK, Circulating
<1>3. /\ IsFiniteSet(in_flight')
      /\ Cardinality(in_flight') = Cardinality(in_flight) + 1
  BY <1>2, FS_AddElement DEF IInv, TypeOK
<1>4. TypeOK'
  BY <1>2, <1>3, WindowAssumption DEF IInv, TypeOK, Windows
<1>5. Numbering'
  <2>1. Circulating' = Circulating \cup {local_packet_number}
    BY DEF Circulating
  <2>2. largest_acked < local_packet_number
    <3>1. local_packet_number # 0
      BY DEF IInv, TypeOK, Numbering
    <3> QED BY <1>1, <1>2, <3>1 DEF IInv, Numbering, AckedNumberWasReceived, Circulating
  <2>3. lost' = {}
    BY DEF IInv, Numbering
  <2> QED BY <1>1, <1>2, <2>1, <2>2, <2>3 DEF IInv, TypeOK, Numbering,
             InFlightAboveLargestAcked, AckedNumberWasReceived
<1>6. Conservation'
  <2>1. /\ Cardinality(in_flight) \in Nat /\ Cardinality(lost) \in Nat
    BY FS_CardinalityType DEF IInv, TypeOK
  <2> QED BY <1>3, <2>1 DEF IInv, TypeOK, Conservation
<1>7. Budget'
  BY WindowAssumption DEF IInv, TypeOK, Budget
<1> QED BY <1>4, <1>5, <1>6, <1>7 DEF IInv

(* An ACK splits in_flight into the acknowledged, the lost and the rest,   *)
(* and only what is above the new largest_acked stays.                     *)
LEMMA AckStep ==
  ASSUME IInv, RecvAck
  PROVE  IInv'
<1>1. PICK m \in s2c : ProcessAck(m) /\ Deliver(s2c, s2c', m)
  BY DEF RecvAck
<1> DEFINE a == m.latest_ack
           acked  == AckedBy(a)
           missed == LostBy(a, LargestAcked(a))
           kept   == in_flight \ (acked \cup missed)
<1>2. /\ pc = "recv" /\ largest_acked' = LargestAcked(a)
      /\ in_flight' = kept /\ sent_time' = [n \in kept |-> sent_time[n]]
      /\ lost' = missed /\ packets_acked' = packets_acked + Cardinality(acked)
      /\ window' \in Windows \cup {window}
      /\ pc' \in {"loop", "retransmit"} /\ (pc' # "retransmit" => missed = {})
      /\ UNCHANGED <<local_packet_number, packets_sent, abandoned>>
  BY <1>1, Zenon DEF ProcessAck
<1>3. /\ s2c' \subseteq s2c /\ dups' \in {dups, dups + 1}
      /\ UNCHANGED <<c2s, received, packets_received, ack_packet_number,
                     elapsed, wall, clock_steps>>
  BY <1>1 DEF Deliver, RecvAck, server, clocks
<1>4. /\ a \in Nat /\ a \in received /\ a <= local_packet_number
  BY DEF IInv, TypeOK, Ack, Numbering, AckedNumberWasReceived
<1>5. /\ acked \subseteq in_flight /\ missed \subseteq in_flight \ acked
      /\ \A n \in in_flight \ acked : n > a
  BY <1>4 DEF AckedBy, LostBy, IInv, TypeOK
<1>6. /\ IsFiniteSet(missed) /\ IsFiniteSet(kept)
      /\ Cardinality(acked) \in Nat /\ Cardinality(missed) \in Nat
      /\ Cardinality(kept) \in Nat
      /\ Cardinality(in_flight) = Cardinality(acked) + Cardinality(missed)
                                    + Cardinality(kept)
  <2>1. IsFiniteSet(in_flight)
    BY DEF IInv, TypeOK
  <2>2. acked \in SUBSET in_flight /\ missed \in SUBSET (in_flight \ acked)
    BY <1>5
  <2> HIDE DEF acked, missed
  <2>3. /\ IsFiniteSet(acked) /\ IsFiniteSet(in_flight \ acked)
    BY <2>1, <2>2, FS_Subset
  <2>4. IsFiniteSet(missed)
    BY <2>2, <2>3, FS_Subset
  <2>5. /\ kept = (in_flight \ acked) \ missed
        /\ in_flight \cap acked = acked
        /\ (in_flight \ acked) \cap missed = missed
    BY <2>2
  <2>6. IsFiniteSet(kept)
    <3>1. kept \in SUBSET in_flight
      OBVIOUS
    <3> QED BY <2>1, <3>1, FS_Subset
  <2>7. Cardinality(in_flight \ acked) = Cardinality(in_flight) - Cardinality(acked)
    <3>1. Cardinality(in_flight \ acked)
            = Cardinality(in_flight) - Cardinality(in_flight \cap acked)
      BY <2>1, FS_Difference
    <3> QED BY <2>5, <3>1
  <2>8. Cardinality(kept) = Cardinality(in_flight \ acked) - Cardinality(missed)
    <3>1. Cardinality((in_flight \ acked) \ missed)
            = Cardinality(in_flight \ acked)
                - Cardinality((in_flight \ acked) \cap missed)
      BY <2>3, FS_Difference
    <3> HIDE DEF kept
    <3> QED BY <2>5, <3>1
  <2>9. /\ Cardinality(in_flight) \in Nat /\ Cardinality(acked) \in Nat
        /\ Cardinality(missed) \in Nat /\ Cardinality(kept) \in Nat
        /\ Cardinality(in_flight \ acked) \in Nat
    BY <2>1, <2>3, <2>4, <2>6, FS_CardinalityType
  <2> HIDE DEF kept
  <2> QED BY <2>4, <2>6, <2>7, <2>8, <2>9
<1> HIDE DEF acked, missed, a
<1>7. TypeOK'
  <2>1. /\ in_flight' \subseteq Nat /\ lost' \subseteq Nat
        /\ IsFiniteSet(in_flight') /\ IsFiniteSet(lost')
    BY <1>2, <1>5, <1>6 DEF IInv, TypeOK
  <2>2. sent_time' \in [in_flight' -> Int]
    BY <1>2 DEF IInv, TypeOK
  <2>3. largest_acked' \in Nat
    BY <1>2, <1>4 DEF IInv, TypeOK, LargestAcked
  <2>4. packets_acked' \in Nat /\ window' \in MinWindow .. MaxWindow
    BY <1>2, <1>6 DEF IInv, TypeOK, Windows
  <2> QED BY <1>2, <1>3, <2>1, <2>2, <2>3, <2>4 DEF IInv, TypeOK
<1>8. Numbering'
  <2>1. InFlightAboveLargestAcked'
    BY <1>2, <1>4, <1>5 DEF IInv, TypeOK, Numbering, InFlightAboveLargestAcked,
       LargestAcked
  <2>2. AckedNumberWasReceived'
    BY <1>2, <1>3, <1>4 DEF IInv, Numbering, AckedNumberWasReceived, LargestAcked
  <2>3. Circulating' \subseteq Circulating
    BY <1>2, <1>3, <1>5 DEF Circulating
  <2> QED BY <1>2, <2>1, <2>2, <2>3 DEF IInv, Numbering
<1>9. Conservation'
  <2>1. lost = {} /\ Cardinality({}) = 0
    BY <1>2, FS_EmptySet DEF IInv, Numbering
  <2> QED BY <1>2, <1>6, <2>1 DEF IInv, TypeOK, Conservation
<1>10. Budget'
  BY <1>2, <1>6, WindowAssumption DEF IInv, TypeOK, Budget
<1> QED BY <1>7, <1>8, <1>9, <1>10 DEF IInv

(* A resend moves one datagram from the lost list to in_flight under a     *)
(* number that no one has seen.                                            *)
LEMMA RetransmitStep ==
  ASSUME IInv, Retransmit
  PROVE  IInv'
<1> DEFINE new == local_packet_number + 1
<1>1. PICK n \in lost : /\ lost' = lost \ {n}
                        /\ pc' = IF lost = {n} THEN "loop" ELSE "retransmit"
  BY DEF Retransmit
<1>2. /\ pc = "retransmit" /\ local_packet_number' = new
      /\ c2s' = c2s \cup {new} /\ window' \in Windows
      /\ in_flight' = in_flight \cup {new}
      /\ sent_time' = [k \in in_flight \cup {new} |->
                         IF k \in in_flight THEN sent_time[k] ELSE wall]
      /\ UNCHANGED <<largest_acked, packets_sent, packets_acked, abandoned,
                     s2c, dups, received, packets_received, ack_packet_number,
                     elapsed, wall, clock_steps>>
  BY DEF Retransmit, TrackInFlight, next_packet_number, stats, server, clocks
<1>3. /\ new \in Nat
      /\ \A k \in Circulating : k \in Nat /\ k < new
  BY DEF IInv, TypeOK, Numbering, Circulating
<1>4. new \notin in_flight /\ new \notin lost
  BY <1>3 DEF Circulating
<1>5. /\ IsFiniteSet(in_flight') /\ IsFiniteSet(lost')
      /\ Cardinality(in_flight') = Cardinality(in_flight) + 1
      /\ Cardinality(lost') = Cardinality(lost) - 1
      /\ Cardinality(in_flight) \in Nat /\ Cardinality(lost) \in Nat
  BY <1>1, <1>2, <1>4, FS_AddElement, FS_RemoveElement, FS_CardinalityType
     DEF IInv, TypeOK
<1> HIDE DEF new
<1>6. TypeOK'
  BY <1>1, <1>2, <1>3, <1>5 DEF IInv, TypeOK, Windows
<1>7. Numbering'
  <2>1. Circulating' \subseteq Circulating \cup {new}
    BY <1>1, <1>2 DEF Circulating
  <2>2. largest_acked < new
    <3>1. largest_acked \in received \/ (largest_acked = 0 /\ n > largest_acked)
      BY DEF IInv, Numbering, AckedNumberWasReceived, InFlightAboveLargestAcked
    <3> QED BY <1>3, <3>1 DEF Circulating
  <2>3. InFlightAboveLargestAcked'
    BY <1>1, <1>2, <1>3, <2>2 DEF IInv, Numbering, InFlightAboveLargestAcked
  <2>4. AckedNumberWasReceived'
    BY <1>2, <1>3 DEF IInv, Numbering, AckedNumberWasReceived, Circulating
  <2>5. /\ in_flight' \cap lost' = {}
        /\ pc' # "retransmit" => lost' = {}
        /\ pc' # "pacing"
    BY <1>1, <1>2, <1>4 DEF IInv, Numbering
  <2> QED BY <1>2, <1>3, <2>1, <2>3, <2>4, <2>5 DEF Numbering
<1>8. Conservation' /\ Budget'
  BY <1>1, <1>2, <1>5 DEF IInv, TypeOK, Conservation, Budget
<1> QED BY <1>6, <1>7, <1>8 DEF IInv

(* A failed resend moves the whole lost list to the abandoned count. *)
LEMMA RetransmitFailsStep ==
  ASSUME IInv, RetransmitFails
  PROVE  IInv'
<1> USE DEF RetransmitFails, next_packet_number, server, clocks, network
<1>1. Cardinality(lost) \in Nat /\ IsFiniteSet({}) /\ Cardinality({}) = 0
  BY FS_CardinalityType, FS_EmptySet DEF IInv, TypeOK
<1>2. TypeOK'
  BY <1>1 DEF IInv, TypeOK, Windows
<1>3. Numbering'
  BY DEF IInv, TypeOK, Numbering, Circulating, InFlightAboveLargestAcked,
         AckedNumberWasReceived
<1>4. Cardinality(in_flight) \in Nat
  BY FS_CardinalityType DEF IInv, TypeOK
<1>5. Conservation' /\ Budget'
  BY <1>1, <1>4 DEF IInv, TypeOK, Conservation, Budget
<1> QED BY <1>2, <1>3, <1>5 DEF IInv

(* The server turns a datagram in the network into a number received. *)
LEMMA ServerStep ==
  ASSUME IInv, ServerReceive
  PROVE  IInv'
<1>1. PICK n \in c2s : HandleStpPacket(n) /\ Deliver(c2s, c2s', n)
  BY DEF ServerReceive
<1> DEFINE ack == [packet_number |-> ack_packet_number + 1, latest_ack |-> n]
<1>2. /\ received' = received \cup {n}
      /\ packets_received' = packets_received + 1
      /\ ack_packet_number' = ack_packet_number + 1
      /\ s2c' \subseteq s2c \cup {ack}
      /\ c2s' \subseteq c2s /\ dups' \in {dups, dups + 1}
      /\ UNCHANGED <<pc, local_packet_number, in_flight, sent_time, lost,
                     largest_acked, packets_sent, packets_acked, abandoned, window,
                     elapsed, wall, clock_steps>>
  BY <1>1 DEF HandleStpPacket, Deliver, ServerReceive, client, recovery, stats, clocks
<1>3. n \in Nat /\ ack \in Ack /\ ack.latest_ack = n
  BY DEF IInv, TypeOK, Ack
<1> HIDE DEF ack
<1>4. TypeOK'
  BY <1>2, <1>3 DEF IInv, TypeOK
<1>5. Numbering'
  <2>1. Circulating' \subseteq Circulating /\ received' \subseteq Circulating
    BY <1>2 DEF Circulating
  <2>2. \A k \in received' : k <= local_packet_number
    BY <2>1 DEF IInv, Numbering
  <2>3. AckedNumberWasReceived'
    BY <1>2, <1>3, <2>2 DEF IInv, Numbering, AckedNumberWasReceived
  <2> QED BY <1>2, <2>1, <2>3 DEF IInv, Numbering, InFlightAboveLargestAcked
<1>6. Conservation' /\ Budget'
  BY <1>2 DEF IInv, Conservation, Budget
<1> QED BY <1>4, <1>5, <1>6 DEF IInv

(* Losses and clocks leave the client and the server alone. *)
LEMMA EnvironmentStep ==
  ASSUME IInv, LoseData \/ LoseAck \/ Tick \/ ClockStep
  PROVE  IInv'
<1> USE DEF LoseData, LoseAck, Tick, ClockStep, client, server, clocks, network,
            recovery, stats
<1>1. /\ c2s' \subseteq c2s /\ s2c' \subseteq s2c
      /\ UNCHANGED <<pc, local_packet_number, in_flight, sent_time, lost,
                     largest_acked, packets_sent, packets_acked, abandoned, window,
                     received, packets_received, ack_packet_number, dups>>
  OBVIOUS
<1>2. elapsed' \in Nat /\ wall' \in Int /\ clock_steps' \in Nat
  BY DEF IInv, TypeOK
<1>3. TypeOK'
  BY <1>1, <1>2 DEF IInv, TypeOK
<1>4. Numbering'
  BY <1>1 DEF IInv, Numbering, Circulating, InFlightAboveLargestAcked,
     AckedNumberWasReceived
<1>5. Conservation' /\ Budget'
  BY <1>1 DEF IInv, Conservation, Budget
<1> QED BY <1>3, <1>4, <1>5 DEF IInv

(* The invariant holds in every reachable state of the upload. *)
THEOREM Invariance == Spec => []IInv
<1>1. IInv /\ [Next]_vars => IInv'
  <2> SUFFICES ASSUME IInv, [Next]_vars PROVE IInv'
    OBVIOUS
  <2>1. CASE LoopExit \/ LoopBlocked \/ SendDataFails \/ RecvTimeout
    BY <2>1, ControlStep
  <2>2. CASE ScheduleSend
    BY <2>2, ScheduleStep
  <2>3. CASE SendData
    BY <2>3, SendStep
  <2>4. CASE RecvAck
    BY <2>4, AckStep
  <2>5. CASE Retransmit
    BY <2>5, RetransmitStep
  <2>6. CASE RetransmitFails
    BY <2>6, RetransmitFailsStep
  <2>7. CASE ServerReceive
    BY <2>7, ServerStep
  <2>8. CASE LoseData \/ LoseAck \/ Tick \/ ClockStep
    BY <2>8, EnvironmentStep
  <2>9. CASE Finished \/ UNCHANGED vars
    <3>1. UNCHANGED <<pc, local_packet_number, in_flight, sent_time, lost,
                      largest_acked, packets_sent, packets_acked, abandoned, window,
                      received, packets_received, ack_packet_number, c2s, s2c, dups,
                      elapsed, wall, clock_steps>>
      BY <2>9 DEF Finished, vars, client, server, clocks, network, recovery, stats
    <3> QED BY <3>1 DEF IInv, TypeOK, Numbering, Circulating, Conservation, Budget,
                        InFlightAboveLargestAcked, AckedNumberWasReceived
  <2> QED BY <2>1, <2>2, <2>3, <2>4, <2>5, <2>6, <2>7, <2>8, <2>9 DEF Next, Client
<1> QED BY <1>1, InitIInv, PTL DEF Spec

(* The type invariant of the upload. *)
THEOREM TypeCorrect == Spec => []TypeOK
<1>1. IInv => TypeOK
  BY DEF IInv
<1> QED BY <1>1, Invariance, PTL

(* Whatever the network does with the ACKs, nothing at or below            *)
(* largest_acked is in flight or being resent.                             *)
THEOREM AboveLargestAcked == Spec => []InFlightAboveLargestAcked
<1>1. IInv => InFlightAboveLargestAcked
  BY DEF IInv, Numbering
<1> QED BY <1>1, Invariance, PTL

(* Every datagram sent is accounted for. *)
THEOREM AccountsBalance == Spec => []Conservation
<1>1. IInv => Conservation
  BY DEF IInv
<1> QED BY <1>1, Invariance, PTL

(* The subtraction of client.rs:608 does not wrap. *)
THEOREM NoUnderflow == Spec => [](packets_acked <= packets_sent)
<1>1. IInv => packets_acked <= packets_sent
  <2> SUFFICES ASSUME IInv PROVE packets_acked <= packets_sent
    OBVIOUS
  <2>1. Cardinality(in_flight) \in Nat /\ Cardinality(lost) \in Nat
    BY FS_CardinalityType DEF IInv, TypeOK
  <2> QED BY <2>1 DEF IInv, TypeOK, Conservation
<1> QED BY <1>1, Invariance, PTL

(* What is outstanding fits the largest window, resends included. *)
THEOREM WindowBound == Spec => []OutstandingBounded
<1>1. IInv => OutstandingBounded
  <2> SUFFICES ASSUME IInv PROVE OutstandingBounded
    OBVIOUS
  <2>1. Cardinality(in_flight) \in Nat /\ Cardinality(lost) \in Nat
    BY FS_CardinalityType DEF IInv, TypeOK
  <2> QED BY <2>1, WindowAssumption DEF IInv, TypeOK, Conservation, Budget,
             OutstandingBounded
<1> QED BY <1>1, Invariance, PTL

(* The largest number acknowledged is one the server received. *)
THEOREM AckedReceived == Spec => []AckedNumberWasReceived
<1>1. IInv => AckedNumberWasReceived
  BY DEF IInv, Numbering
<1> QED BY <1>1, Invariance, PTL

(* An ACK's cumulative reading leaves the reordering threshold nothing to  *)
(* do: a datagram that enters the resend list has timed out.               *)
THEOREM OnlyTimeoutsLose == Spec => LossOnlyByTimeout
<1>1. IInv /\ [Next]_vars => [\A n \in lost' \ lost : TimedOut(n)]_vars
  <2> SUFFICES ASSUME IInv, Next, NEW n \in lost' \ lost PROVE TimedOut(n)
    OBVIOUS
  <2>1. CASE RecvAck
    <3>1. PICK m \in s2c : ProcessAck(m)
      BY <2>1 DEF RecvAck
    <3> DEFINE a == m.latest_ack
    <3>2. n \in LostBy(a, LargestAcked(a))
      BY <3>1 DEF ProcessAck
    <3>3. a \in Nat /\ largest_acked \in Nat /\ n \in Nat
      BY <3>2 DEF LostBy, IInv, TypeOK, Ack
    <3>4. n > a /\ n > largest_acked
      BY <3>2, <3>3 DEF LostBy, AckedBy, IInv, Numbering, InFlightAboveLargestAcked
    <3>5. ~(LargestAcked(a) - n >= LossThreshold)
      BY <3>3, <3>4, BoundAssumption DEF LargestAcked
    <3> HIDE DEF a
    <3> QED BY <3>2, <3>5, Zenon DEF LostBy
  <2>2. CASE ~RecvAck
    <3>1. lost' \subseteq lost
      <4>1. CASE Client
        BY <2>2, <4>1 DEF Client, LoopExit, ScheduleSend, LoopBlocked, SendData,
           SendDataFails, RecvTimeout, Retransmit, RetransmitFails, recovery
      <4>2. CASE ServerReceive \/ LoseData \/ LoseAck \/ Tick \/ ClockStep \/ Finished
        BY <4>2 DEF ServerReceive, LoseData, LoseAck, Tick, ClockStep, Finished,
           vars, client, recovery
      <4> QED BY <4>1, <4>2 DEF Next
    <3> QED BY <3>1
  <2> QED BY <2>1, <2>2
<1> QED BY <1>1, Invariance, PTL DEF Spec, LossOnlyByTimeout

(* Packet numbers on the wire grow strictly, across the pacing wait and    *)
(* across resends.                                                         *)
THEOREM NumbersAreFresh == Spec => FreshNumbers
<1> DEFINE Fresh == \A n \in c2s' \ c2s : \A k \in Circulating : k < n
<1>1. IInv /\ [Next]_vars => [Fresh]_vars
  <2> SUFFICES ASSUME IInv, Next PROVE Fresh
    OBVIOUS
  <2>1. CASE SendData
    BY <2>1 DEF SendData, IInv, Numbering
  <2>2. CASE Retransmit
    <3>1. \A k \in Circulating : k \in Nat /\ k < local_packet_number + 1
      BY DEF IInv, TypeOK, Numbering, Circulating
    <3> QED BY <2>2, <3>1 DEF Retransmit, next_packet_number
  <2>3. CASE ~SendData /\ ~Retransmit
    <3>1. c2s' \subseteq c2s
      <4>1. CASE ServerReceive
        BY <4>1 DEF ServerReceive, Deliver
      <4>2. CASE Client \/ Finished
        BY <4>2, <2>3 DEF Client, LoopExit, ScheduleSend, LoopBlocked, SendDataFails,
           RecvTimeout, RecvAck, RetransmitFails, Finished, vars, network
      <4>3. CASE LoseData \/ LoseAck \/ Tick \/ ClockStep
        BY <4>3 DEF LoseData, LoseAck, Tick, ClockStep, network
      <4> QED BY <4>1, <4>2, <4>3 DEF Next
    <3> QED BY <3>1
  <2> QED BY <2>1, <2>2, <2>3
<1>2. FreshNumbers <=> [][Fresh]_vars
  BY PTL DEF FreshNumbers, Circulating
<1> QED BY <1>1, <1>2, Invariance, PTL DEF Spec
=============================================================================
