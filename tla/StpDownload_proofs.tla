------------------------- MODULE StpDownload_proofs -------------------------
(***************************************************************************)
(* The download test for all sizes and durations: types, the client's      *)
(* reports of silence, and the fact that a drained network stays drained.  *)
(*                                                                         *)
(* SilenceReported is not inductive, as a poll could start after the limit *)
(* has passed.  Polling says that every poll starts within it.             *)
(***************************************************************************)
EXTENDS StpDownload, FiniteSetTheorems, TLAPS

Polling ==
  /\ pc \in {"command", "loop"} => silence <= SilenceLimit
  /\ pc = "recv" => silence <= SilenceLimit + waited
  /\ pc = "done" => silence <= SilenceLimit + 1

(* One silence is reported once: reports are further apart than the limit. *)
ErrorsSpaced == errors * (SilenceLimit + 1) + silence <= elapsed

IInv == TypeOK /\ Polling /\ ErrorsSpaced

(* The invariant holds when the test starts. *)
LEMMA InitIInv == Init => IInv
<1> SUFFICES ASSUME Init PROVE IInv
  OBVIOUS
<1>1. download_mode \in BOOLEAN
  BY Zenon DEF Init
<1>2. TypeOK
  BY <1>1, SizeAssumption DEF Init, TypeOK
<1>3. Polling /\ ErrorsSpaced
  BY TimeAssumption DEF Init, Polling, ErrorsSpaced
<1> QED BY <1>2, <1>3 DEF IInv

(* A datagram that enters or leaves the network keeps the counts natural. *)
LEMMA SendType ==
  ASSUME TypeOK, NEW n \in 0 .. max_udp_payload, Send(n)
  PROVE  s2c' \in [0 .. max_udp_payload -> Nat]
  BY DEF TypeOK, Send

LEMMA TakeType ==
  ASSUME TypeOK, NEW n \in 0 .. max_udp_payload, s2c[n] > 0,
         s2c' = [s2c EXCEPT ![n] = s2c[n] - 1]
  PROVE  s2c' \in [0 .. max_udp_payload -> Nat]
<1>1. s2c[n] - 1 \in Nat
  BY DEF TypeOK
<1> QED BY <1>1 DEF TypeOK

(* The server's steps change nothing of the client's. *)
LEMMA ServerStep ==
  ASSUME IInv, ServerReceive \/ Serve
  PROVE  IInv'
<1> USE DEF IInv
<1>1. UNCHANGED <<payload_size, client, elapsed>>
  BY DEF ServerReceive, Serve, SendAck, SendSingle, StartFragments, SendFragment,
         EndBurst
<1>2. Polling' /\ ErrorsSpaced'
  BY <1>1 DEF Polling, ErrorsSpaced, client
<1>3. CASE ServerReceive
  <2>1. download_mode' \in BOOLEAN
    BY <1>3, Zenon DEF ServerReceive, TypeOK
  <2>2. TypeOK'
    BY <1>1, <1>3, <2>1 DEF ServerReceive, TypeOK, client, burst
  <2> QED BY <1>2, <2>2
<1>4. CASE Serve
  <2>1. UNCHANGED <<download_mode, handled, to_server>>
    BY <1>4 DEF Serve, SendAck, SendSingle, StartFragments, SendFragment, EndBurst,
                burst
  <2>2. /\ spc' \in {"recv", "ack", "burst", "fragment"}
        /\ turns' \in Nat /\ remaining' \in Nat /\ sent' \in Nat
        /\ s2c' \in [0 .. max_udp_payload -> Nat]
    <3>1. CASE SendAck
      <4>1. 0 \in 0 .. max_udp_payload
        BY SizeAssumption
      <4>2. s2c' \in [0 .. max_udp_payload -> Nat]
        BY <3>1, <4>1, SendType DEF SendAck, TypeOK
      <4> QED BY <3>1, <4>2, SizeAssumption DEF SendAck, TypeOK
    <3>2. CASE SendSingle
      <4>1. payload_size \in 0 .. max_udp_payload
        BY <3>2, SizeAssumption DEF SendSingle, TypeOK
      <4>2. s2c' \in [0 .. max_udp_payload -> Nat]
        BY <3>2, <4>1, SendType DEF SendSingle, TypeOK
      <4> QED BY <3>2, <4>1, <4>2 DEF SendSingle, TypeOK
    <3>3. CASE StartFragments
      BY <3>3, SizeAssumption DEF StartFragments, TypeOK
    <3>4. CASE SendFragment
      <4>1. FragmentSize \in 0 .. max_udp_payload /\ remaining - FragmentSize \in Nat
        BY SizeAssumption DEF FragmentSize, TypeOK
      <4>2. s2c' \in [0 .. max_udp_payload -> Nat]
        BY <3>4, <4>1, SendType DEF SendFragment, TypeOK
      <4> QED BY <3>4, <4>1, <4>2 DEF SendFragment, TypeOK
    <3>5. CASE EndBurst
      BY <3>5 DEF EndBurst, TypeOK, burst
    <3> QED BY <1>4, <3>1, <3>2, <3>3, <3>4, <3>5 DEF Serve
  <2>3. TypeOK'
    BY <1>1, <2>1, <2>2 DEF TypeOK, client, to_server
  <2> QED BY <1>2, <2>3
<1> QED BY <1>3, <1>4

(* The client's steps and time.  A poll that times out within the limit    *)
(* leaves the silence as it is, and one beyond it reports it and starts    *)
(* again from zero.                                                        *)
LEMMA ClientStep ==
  ASSUME IInv, Client \/ Tick
  PROVE  IInv'
<1> USE DEF IInv
<1>1. UNCHANGED <<payload_size, server>>
  BY DEF Client, Tick, SendCommand, Loop, Receive, ReceiveInvalid, PollTimeout, SocketError
<1>2. /\ pc' \in {"command", "loop", "recv", "done"} /\ waited' \in {0, 1}
      /\ silence' \in Nat /\ errors' \in Nat /\ measured' \in Nat /\ elapsed' \in Nat
      /\ commands' \in Nat /\ acks' \in Nat
      /\ s2c' \in [0 .. max_udp_payload -> Nat]
      /\ Polling' /\ ErrorsSpaced'
  <2>1. CASE SendCommand
    BY <2>1, TimeAssumption DEF SendCommand, TypeOK, Polling, ErrorsSpaced
  <2>2. CASE Loop
    BY <2>2, TimeAssumption DEF Loop, TypeOK, Polling, ErrorsSpaced, to_server
  <2>3. CASE Receive
    <3>1. PICK n \in 0 .. max_udp_payload :
            /\ s2c[n] > 0 /\ s2c' = [s2c EXCEPT ![n] = s2c[n] - 1]
            /\ measured' = measured + n
      BY <2>3 DEF Receive
    <3>2. s2c' \in [0 .. max_udp_payload -> Nat]
      BY <3>1, TakeType
    <3>3. /\ pc' = "loop" /\ silence' = 0
          /\ UNCHANGED <<waited, errors, elapsed, commands>>
          /\ acks' \in {acks, acks + 1}
      BY <2>3 DEF Receive
    <3>4. ErrorsSpaced'
      <4>1. errors * (SilenceLimit + 1) \in Nat
        BY TimeAssumption DEF TypeOK
      <4> QED BY <3>3, <4>1, TimeAssumption DEF TypeOK, ErrorsSpaced
    <3> QED BY <3>1, <3>2, <3>3, <3>4, TimeAssumption, SizeAssumption
            DEF TypeOK, Polling
  <2>4. CASE PollTimeout
    <3>1. /\ pc = "recv" /\ pc' = "loop"
          /\ UNCHANGED <<waited, measured, elapsed, to_server, s2c>>
          /\ \/ silence > SilenceLimit /\ errors' = errors + 1 /\ silence' = 0
             \/ silence <= SilenceLimit /\ UNCHANGED <<errors, silence>>
      BY <2>4, TimeAssumption DEF PollTimeout, TypeOK
    <3>2. ErrorsSpaced'
      <4>1. (errors + 1) * (SilenceLimit + 1)
              = errors * (SilenceLimit + 1) + (SilenceLimit + 1)
        BY TimeAssumption DEF TypeOK
      <4>2. errors * (SilenceLimit + 1) \in Nat
        BY TimeAssumption DEF TypeOK
      <4> QED BY <3>1, <4>1, <4>2, TimeAssumption DEF TypeOK, ErrorsSpaced
    <3> QED BY <3>1, <3>2, TimeAssumption DEF TypeOK, Polling, to_server
  <2>5. CASE SocketError
    BY <2>5, TimeAssumption DEF SocketError, TypeOK, Polling, ErrorsSpaced, to_server
  <2>6. CASE Tick
    <3>1. errors * (SilenceLimit + 1) \in Nat
      BY TimeAssumption DEF TypeOK
    <3> QED BY <2>6, <3>1, TimeAssumption
            DEF Tick, TypeOK, Polling, ErrorsSpaced, to_server
  <2>7. CASE ReceiveInvalid
    <3>1. /\ pc' = "loop" /\ silence' = 0
          /\ UNCHANGED <<waited, errors, measured, elapsed, commands, acks, s2c>>
      BY <2>7 DEF ReceiveInvalid, to_server
    <3>2. ErrorsSpaced'
      <4>1. errors * (SilenceLimit + 1) \in Nat
        BY TimeAssumption DEF TypeOK
      <4> QED BY <3>1, <4>1, TimeAssumption DEF TypeOK, ErrorsSpaced
    <3> QED BY <3>1, <3>2, TimeAssumption DEF TypeOK, Polling
  <2> QED BY <2>1, <2>2, <2>3, <2>4, <2>5, <2>6, <2>7 DEF Client
<1>3. TypeOK'
  BY <1>1, <1>2 DEF TypeOK, server, burst
<1> QED BY <1>2, <1>3

(* The network loses, or nothing happens. *)
LEMMA OtherStep ==
  ASSUME IInv, LoseToServer \/ LoseToClient \/ UNCHANGED vars
  PROVE  IInv'
<1> USE DEF IInv
<1>1. UNCHANGED <<payload_size, client, elapsed, server>>
  BY DEF LoseToServer, LoseToClient, vars
<1>2. Polling' /\ ErrorsSpaced'
  BY <1>1 DEF Polling, ErrorsSpaced, client
<1>3. commands' \in Nat /\ acks' \in Nat /\ s2c' \in [0 .. max_udp_payload -> Nat]
  <2>1. CASE LoseToServer
    BY <2>1 DEF LoseToServer, TypeOK
  <2>2. CASE LoseToClient
    <3>1. s2c' \in [0 .. max_udp_payload -> Nat]
      BY <2>2, TakeType DEF LoseToClient
    <3> QED BY <2>2, <3>1 DEF LoseToClient, TypeOK, to_server
  <2>3. CASE UNCHANGED vars
    BY <2>3 DEF vars, to_server, TypeOK
  <2> QED BY <2>1, <2>2, <2>3
<1>4. TypeOK'
  BY <1>1, <1>3 DEF TypeOK, client, server, burst
<1> QED BY <1>2, <1>4

(* IInv is an inductive invariant. *)
THEOREM Invariance == Spec => []IInv
<1>1. IInv /\ [Next]_vars => IInv'
  BY ServerStep, ClientStep, OtherStep DEF Next, Finished
<1> QED BY InitIInv, <1>1, PTL DEF Spec

(* Every variable keeps its type: remaining_bytes never wraps, and no      *)
(* datagram is larger than MAX_UDP_PAYLOAD.                                *)
THEOREM TypeCorrect == Spec => []TypeOK
<1>1. IInv => TypeOK
  BY DEF IInv
<1> QED BY Invariance, <1>1, PTL

(* The client is never silent beyond the limit and one poll without        *)
(* reporting it.                                                           *)
THEOREM SilenceIsReported == Spec => []SilenceReported
<1>1. IInv => SilenceReported
  BY TimeAssumption DEF IInv, TypeOK, Polling, SilenceReported
<1> QED BY Invariance, <1>1, PTL

(* Reports of silence are further apart than the limit. *)
THEOREM ErrorsAreSpaced == Spec => []ErrorsSpaced
<1>1. IInv => ErrorsSpaced
  BY DEF IInv
<1> QED BY Invariance, <1>1, PTL

(* Intervals of numbers, and pairs of one number and an interval. *)
LEMMA PairsCount ==
  ASSUME NEW n, NEW a \in Nat, NEW b \in Nat
  PROVE  /\ IsFiniteSet({n} \X (a + 1 .. a + b))
         /\ Cardinality({n} \X (a + 1 .. a + b)) = b
<1>1. IsFiniteSet({n}) /\ Cardinality({n}) = 1
  BY FS_Singleton
<1>2. IsFiniteSet(a + 1 .. a + b) /\ Cardinality(a + 1 .. a + b) = b
  <2>1. a + 1 \in Int /\ a + b \in Int
    OBVIOUS
  <2>2. /\ IsFiniteSet(a + 1 .. a + b)
        /\ Cardinality(a + 1 .. a + b)
             = IF a + 1 > a + b THEN 0 ELSE a + b - (a + 1) + 1
    BY <2>1, FS_Interval
  <2> QED BY <2>2
<1> DEFINE I == a + 1 .. a + b
           N == {n}
<1> HIDE DEF I, N
<1>3. IsFiniteSet(N \X I) /\ Cardinality(N \X I) = Cardinality(N) * Cardinality(I)
  BY <1>1, <1>2, FS_Product DEF N, I
<1> QED BY <1>1, <1>2, <1>3 DEF N, I

(* Finitely many datagrams have finitely many bytes. *)
LEMMA BytesFinite ==
  ASSUME NEW d \in [0 .. max_udp_payload -> Nat]
  PROVE  IsFiniteSet(BytesIn(d))
<1> DEFINE sizes == 0 .. max_udp_payload
           of(n) == {n} \X (1 .. n * d[n])
           kinds == {of(n) : n \in sizes}
           f == [n \in sizes |-> of(n)]
<1>1. ASSUME NEW n \in sizes PROVE IsFiniteSet(of(n))
  <2>1. n * d[n] \in Nat
    BY SizeAssumption
  <2> DEFINE b == n * d[n]
  <2> HIDE DEF b
  <2>2. IsFiniteSet({n} \X (0 + 1 .. 0 + b))
    BY <2>1, PairsCount DEF b
  <2>3. 0 + 1 .. 0 + b = 1 .. b
    BY <2>1 DEF b
  <2> QED BY <2>2, <2>3 DEF b
<1>2. IsFiniteSet(kinds)
  <2>1. IsFiniteSet(sizes)
    BY SizeAssumption, FS_Interval
  <2>2. f \in Surjection(sizes, kinds)
    BY DEF Surjection
  <2> HIDE DEF f, kinds, sizes
  <2> QED BY <2>1, <2>2, FS_Surjection
<1>3. \A T \in kinds : IsFiniteSet(T)
  BY <1>1
<1>4. BytesIn(d) = UNION kinds
  BY DEF BytesIn
<1> HIDE DEF kinds
<1> QED BY <1>2, <1>3, <1>4, FS_UNION

(* One more datagram of size n has n more bytes. *)
LEMMA OneMoreDatagram ==
  ASSUME NEW d \in [0 .. max_udp_payload -> Nat], NEW n \in 0 .. max_udp_payload
  PROVE  Cardinality(BytesIn([d EXCEPT ![n] = d[n] + 1])) = Cardinality(BytesIn(d)) + n
<1> DEFINE e == [d EXCEPT ![n] = d[n] + 1]
           a == n * d[n]
           new == {n} \X (a + 1 .. a + n)
<1>1. a \in Nat /\ n \in Nat /\ e \in [0 .. max_udp_payload -> Nat]
  BY SizeAssumption
<1>2. BytesIn(e) = BytesIn(d) \cup new
  <2>1. n * e[n] = a + n /\ \A m \in (0 .. max_udp_payload) \ {n} : e[m] = d[m]
    <3>1. e[n] = d[n] + 1 /\ \A m \in (0 .. max_udp_payload) \ {n} : e[m] = d[m]
      OBVIOUS
    <3>2. n * (d[n] + 1) = n * d[n] + n
      <4>1. d[n] \in Nat /\ n \in Nat
        BY <1>1
      <4> QED BY <4>1
    <3> QED BY <3>1, <3>2
  <2>2. (1 .. a) \cup (a + 1 .. a + n) = 1 .. a + n
    BY <1>1
  <2> HIDE DEF e
  <2> QED BY <2>1, <2>2 DEF BytesIn
<1>3. BytesIn(d) \cap new = {}
  BY <1>1 DEF BytesIn
<1>4. IsFiniteSet(new) /\ Cardinality(new) = n
  <2>1. a \in Nat /\ n \in Nat
    BY <1>1
  <2> HIDE DEF a, new
  <2> DEFINE block(b) == {n} \X (a + 1 .. a + b)
  <2>2. \A b \in Nat : IsFiniteSet(block(b)) /\ Cardinality(block(b)) = b
    BY <2>1, PairsCount
  <2> HIDE DEF block
  <2>3. IsFiniteSet(block(n)) /\ Cardinality(block(n)) = n
    BY <2>1, <2>2
  <2> QED BY <2>3 DEF new, block
<1>5. IsFiniteSet(BytesIn(d))
  BY BytesFinite
<1> HIDE DEF new, e
<1>6. Cardinality(BytesIn(d) \cup new)
        = Cardinality(BytesIn(d)) + Cardinality(new) - Cardinality(BytesIn(d) \cap new)
  BY <1>4, <1>5, FS_Union
<1>7. Cardinality(BytesIn(d) \cap new) = 0 /\ Cardinality(BytesIn(d)) \in Nat
  BY <1>3, <1>5, FS_EmptySet, FS_CardinalityType
<1>8. Cardinality(BytesIn(e)) = Cardinality(BytesIn(d)) + n
  BY <1>1, <1>2, <1>4, <1>6, <1>7
<1> QED BY <1>8 DEF e

(* The sum and difference of the claim when n bytes move. *)
LEMMA ClaimArithmetic ==
  ASSUME NEW m \in Nat, NEW b \in Nat, NEW c \in Nat, NEW t \in Nat, NEW n \in Nat,
         m + b <= t
  PROVE  /\ b = c + n => m + n + c <= t /\ m + c <= t
         /\ c \in {b, b + n} => m + c <= t + n
OBVIOUS

(* What a send puts into the network and what a receive or a loss takes    *)
(* out of it.                                                              *)
LEMMA SendBytes ==
  ASSUME TypeOK, NEW n \in 0 .. max_udp_payload, Send(n)
  PROVE  BytesToClient' \in {BytesToClient, BytesToClient + n}
<1>1. CASE s2c' = [s2c EXCEPT ![n] = s2c[n] + 1]
  BY <1>1, OneMoreDatagram DEF TypeOK, BytesToClient
<1>2. CASE s2c' = s2c
  BY <1>2 DEF BytesToClient
<1>3. s2c' = [s2c EXCEPT ![n] = s2c[n] + 1] \/ s2c' = s2c
  BY DEF Send, TypeOK
<1> QED BY <1>1, <1>2, <1>3

LEMMA TakeBytes ==
  ASSUME TypeOK, NEW n \in 0 .. max_udp_payload, s2c[n] > 0,
         s2c' = [s2c EXCEPT ![n] = s2c[n] - 1]
  PROVE  BytesToClient = BytesToClient' + n
<1>1. s2c' \in [0 .. max_udp_payload -> Nat]
  BY TakeType
<1>2. s2c = [s2c' EXCEPT ![n] = s2c'[n] + 1]
  <2>1. s2c \in [0 .. max_udp_payload -> Nat] /\ s2c'[n] = s2c[n] - 1
    BY DEF TypeOK
  <2>2. ASSUME NEW m \in 0 .. max_udp_payload
        PROVE  s2c[m] = [s2c' EXCEPT ![n] = s2c'[n] + 1][m]
    BY <1>1, <2>1
  <2> QED BY <1>1, <2>1, <2>2
<1>3. Cardinality(BytesIn([s2c' EXCEPT ![n] = s2c'[n] + 1])) = Cardinality(BytesIn(s2c')) + n
  BY <1>1, OneMoreDatagram
<1> QED BY <1>2, <1>3 DEF BytesToClient

(* The download never claims more than the server sent. *)
THEOREM MeasuredIsSent == Spec => []MeasuredWasSent
<1>1. Init => MeasuredWasSent
  <2> SUFFICES ASSUME Init PROVE MeasuredWasSent
    OBVIOUS
  <2>1. BytesIn(s2c) = {}
    BY DEF Init, BytesIn
  <2>2. BytesToClient = 0
    BY <2>1, FS_EmptySet DEF BytesToClient
  <2> QED BY <2>2 DEF Init, MeasuredWasSent
<1>2. TypeOK /\ TypeOK' /\ MeasuredWasSent /\ [Next]_vars => MeasuredWasSent'
  <2> SUFFICES ASSUME TypeOK, TypeOK', MeasuredWasSent, [Next]_vars PROVE MeasuredWasSent'
    OBVIOUS
  <2>a. BytesToClient \in Nat /\ BytesToClient' \in Nat
    BY BytesFinite, FS_CardinalityType DEF BytesToClient, TypeOK
  <2>b. /\ measured \in Nat /\ sent \in Nat /\ payload_size \in Nat /\ remaining \in Nat
        /\ max_udp_payload \in Nat \ {0} /\ 0 .. max_udp_payload \subseteq Nat
    BY SizeAssumption DEF TypeOK
  <2> USE <2>a, <2>b DEF MeasuredWasSent
  <2>1. CASE Receive
    <3>1. PICK n \in 0 .. max_udp_payload :
            /\ s2c[n] > 0 /\ s2c' = [s2c EXCEPT ![n] = s2c[n] - 1]
            /\ measured' = measured + n
      BY <2>1 DEF Receive
    <3>2. BytesToClient = BytesToClient' + n
      BY <3>1, TakeBytes
    <3>3. sent' = sent /\ n \in Nat
      BY <2>1 DEF Receive, server, burst
    <3>4. measured + n + BytesToClient' <= sent
      BY <3>2, <3>3, ClaimArithmetic
    <3> QED BY <3>1, <3>3, <3>4
  <2>2. CASE SendAck
    <3>1. BytesToClient' = BytesToClient
      <4>1. CASE Send(0)
        <5>1. 0 \in 0 .. max_udp_payload
          OBVIOUS
        <5>2. BytesToClient' \in {BytesToClient, BytesToClient + 0}
          BY <4>1, <5>1, SendBytes
        <5> QED BY <5>2
      <4>2. CASE s2c' = s2c
        BY <4>2 DEF BytesToClient
      <4> QED BY <2>2, <4>1, <4>2 DEF SendAck
    <3> QED BY <2>2, <3>1 DEF SendAck, client
  <2>3. CASE SendSingle
    <3>1. payload_size \in 0 .. max_udp_payload
      BY <2>3 DEF SendSingle
    <3>2. measured' = measured
      BY <2>3 DEF SendSingle, client
    <3>3. CASE Send(payload_size) /\ sent' = sent + payload_size
      <4>1. BytesToClient' \in {BytesToClient, BytesToClient + payload_size}
        BY <3>1, <3>3, SendBytes
      <4>2. payload_size \in Nat
        BY <3>1
      <4>3. measured + BytesToClient' <= sent + payload_size
        BY <4>1, <4>2, ClaimArithmetic
      <4> QED BY <3>2, <3>3, <4>3
    <3>4. CASE s2c' = s2c /\ sent' = sent
      BY <3>2, <3>4 DEF BytesToClient
    <3> QED BY <2>3, <3>3, <3>4 DEF SendSingle
  <2>4. CASE SendFragment
    <3>1. FragmentSize \in 0 .. max_udp_payload
      BY DEF FragmentSize
    <3>2. measured' = measured
      BY <2>4 DEF SendFragment, client
    <3>3. CASE Send(FragmentSize) /\ sent' = sent + FragmentSize
      <4>1. BytesToClient' \in {BytesToClient, BytesToClient + FragmentSize}
        BY <3>1, <3>3, SendBytes
      <4>2. FragmentSize \in Nat
        BY <3>1
      <4>3. measured + BytesToClient' <= sent + FragmentSize
        BY <4>1, <4>2, ClaimArithmetic
      <4> QED BY <3>2, <3>3, <4>3
    <3>4. CASE s2c' = s2c /\ sent' = sent
      BY <3>2, <3>4 DEF BytesToClient
    <3> QED BY <2>4, <3>3, <3>4 DEF SendFragment
  <2>5. CASE LoseToClient
    <3>1. PICK n \in 0 .. max_udp_payload :
            s2c[n] > 0 /\ s2c' = [s2c EXCEPT ![n] = s2c[n] - 1]
      BY <2>5 DEF LoseToClient
    <3>2. BytesToClient = BytesToClient' + n
      BY <3>1, TakeBytes
    <3>3. sent' = sent /\ measured' = measured /\ n \in Nat
      BY <2>5 DEF LoseToClient, server, burst, client
    <3>4. measured + BytesToClient' <= sent
      BY <3>2, <3>3, ClaimArithmetic
    <3> QED BY <3>3, <3>4
  <2>6. CASE \/ SendCommand \/ Loop \/ ReceiveInvalid \/ PollTimeout \/ SocketError
             \/ ServerReceive \/ StartFragments \/ EndBurst
             \/ LoseToServer \/ Tick \/ UNCHANGED vars
    <3>1. UNCHANGED <<s2c, sent, measured>>
      BY <2>6 DEF SendCommand, Loop, ReceiveInvalid, PollTimeout, SocketError,
         ServerReceive, StartFragments, EndBurst, LoseToServer, Tick, vars, client,
         server, burst
    <3> QED BY <3>1 DEF BytesToClient
  <2> QED BY <2>1, <2>2, <2>3, <2>4, <2>5, <2>6 DEF Next, Client, Serve, Finished
<1> QED BY <1>1, <1>2, TypeCorrect, PTL DEF Spec

(***************************************************************************)
(* The download is clocked by the client: the server sends data only for   *)
(* datagrams it has received, and for each no more than one burst.  Owed   *)
(* is what it may still send for those.                                    *)
(***************************************************************************)
BurstSize == Burst * payload_size

Owed == turns * payload_size + remaining + (IF spc = "ack" THEN BurstSize ELSE 0)

BurstPerDatagram == sent + Owed <= handled * BurstSize

(* One payload less to send, one datagram more to answer. *)
LEMMA OneLess ==
  ASSUME NEW t \in Nat, NEW p \in Nat
  PROVE  /\ t * p \in Nat
         /\ (t + 1) * p = t * p + p
         /\ t > 0 => (t - 1) * p = t * p - p /\ (t - 1) * p \in Nat
<1>1. t * p \in Nat /\ (t + 1) * p = t * p + p
  OBVIOUS
<1>2. ASSUME t > 0 PROVE (t - 1) * p = t * p - p /\ (t - 1) * p \in Nat
  <2> DEFINE u == t - 1
  <2>1. u \in Nat /\ t = u + 1
    BY <1>2
  <2> HIDE DEF u
  <2>2. (u + 1) * p = u * p + p /\ u * p \in Nat
    BY <2>1
  <2> QED BY <2>1, <2>2 DEF u
<1> QED BY <1>1, <1>2

(* The server's own steps spend what it owes. *)
LEMMA ServeSpends ==
  ASSUME TypeOK, BurstPerDatagram, Serve
  PROVE  BurstPerDatagram'
<1> DEFINE unsent == turns * payload_size
           unsentNext == turns' * payload_size
           total == handled * BurstSize
<1>1. /\ payload_size \in Nat /\ turns \in Nat /\ remaining \in Nat /\ sent \in Nat
      /\ handled \in Nat /\ Burst \in Nat /\ FragmentSize \in 0 .. remaining
  BY SizeAssumption DEF TypeOK, FragmentSize
<1>2. BurstSize \in Nat /\ unsent \in Nat /\ total \in Nat
  BY <1>1 DEF BurstSize
<1>3. UNCHANGED <<payload_size, handled>> /\ spc' # "ack"
  BY DEF Serve, SendAck, SendSingle, StartFragments, SendFragment, EndBurst
<1>4. BurstSize' = BurstSize
  BY <1>3 DEF BurstSize
<1>5. sent' \in Nat /\ remaining' \in Nat /\ turns' \in Nat
  BY <1>1 DEF Serve, SendAck, SendSingle, StartFragments, SendFragment, EndBurst, burst
<1>6. unsentNext \in Nat
  BY <1>1, <1>5, OneLess
<1>7. /\ turns' = turns => unsentNext = unsent
      /\ turns' = 0 => unsentNext = 0
      /\ turns' = Burst => unsentNext = BurstSize
      /\ turns > 0 /\ turns' = turns - 1 => unsentNext = unsent - payload_size
  BY <1>1, OneLess DEF BurstSize
<1>8. sent + (unsent + remaining + (IF spc = "ack" THEN BurstSize ELSE 0)) <= total
  BY DEF BurstPerDatagram, Owed
<1>9. BurstPerDatagram' <=> sent' + (unsentNext + remaining' + 0) <= total
  BY <1>3, <1>4 DEF BurstPerDatagram, Owed
<1> HIDE DEF unsent, unsentNext, total
<1>10. sent' + (unsentNext + remaining' + 0) <= total
  <2>1. CASE SendAck
    <3>1. /\ spc = "ack" /\ sent' = sent /\ remaining' = remaining
          /\ turns' = 0 \/ turns' = Burst
      BY <2>1 DEF SendAck
    <3>2. unsentNext <= BurstSize
      BY <1>2, <1>7, <3>1
    <3>3. sent + (unsent + remaining + BurstSize) <= total
      BY <1>8, <3>1
    <3> QED BY <1>1, <1>2, <1>6, <3>1, <3>2, <3>3
  <2>2. CASE ~SendAck
    <3>1. spc # "ack"
      BY <2>2 DEF Serve, SendSingle, StartFragments, SendFragment, EndBurst
    <3>2. sent + (unsent + remaining + 0) <= total
      BY <1>8, <3>1
    <3>3. CASE SendSingle
      <4>1. /\ remaining' = remaining
            /\ \/ sent' = sent + payload_size /\ turns > 0 /\ turns' = turns - 1
               \/ sent' = sent /\ turns' = 0
        BY <3>3 DEF SendSingle
      <4>2. \/ sent' = sent + payload_size /\ unsentNext = unsent - payload_size
            \/ sent' = sent /\ unsentNext = 0
        BY <1>7, <4>1
      <4> QED BY <1>1, <1>2, <1>6, <3>2, <4>1, <4>2
    <3>4. CASE StartFragments
      <4>1. sent' = sent /\ remaining' = payload_size /\ unsentNext = unsent - payload_size
        BY <1>7, <3>4 DEF StartFragments
      <4> QED BY <1>1, <1>2, <1>6, <3>2, <4>1
    <3>5. CASE SendFragment
      <4>1. /\ unsentNext = unsent
            /\ \/ sent' = sent + FragmentSize /\ remaining' = remaining - FragmentSize
               \/ sent' = sent /\ remaining' = 0
        BY <1>7, <3>5 DEF SendFragment
      <4> QED BY <1>1, <1>2, <3>2, <4>1
    <3>6. CASE EndBurst
      BY <1>7, <3>2, <3>6 DEF EndBurst, burst
    <3> QED BY <2>2, <3>3, <3>4, <3>5, <3>6 DEF Serve
  <2> QED BY <2>1, <2>2
<1> QED BY <1>9, <1>10

(* However datagrams are lost, for each datagram the server has handled it *)
(* has sent at most one burst; so a download measures no more than the     *)
(* client's own command and acknowledgements have asked for.               *)
THEOREM ClockedByClient ==
  Spec => [](sent <= handled * BurstSize /\ measured <= handled * BurstSize)
<1>1. Init => BurstPerDatagram
  <2> SUFFICES ASSUME Init PROVE BurstPerDatagram
    OBVIOUS
  <2>1. payload_size \in Nat /\ BurstSize \in Nat
    BY SizeAssumption DEF Init, BurstSize
  <2>2. turns * payload_size = 0 /\ handled * BurstSize = 0
    BY <2>1 DEF Init
  <2> QED BY <2>1, <2>2 DEF Init, BurstPerDatagram, Owed
<1>2. TypeOK /\ BurstPerDatagram /\ [Next]_vars => BurstPerDatagram'
  <2> SUFFICES ASSUME TypeOK, BurstPerDatagram, [Next]_vars PROVE BurstPerDatagram'
    OBVIOUS
  <2>1. CASE ServerReceive
    <3> DEFINE q == turns * payload_size + remaining
               h == handled * BurstSize
    <3>1. /\ spc = "recv" /\ spc' = "ack" /\ handled' = handled + 1
          /\ UNCHANGED <<payload_size, turns, remaining, sent>>
      BY <2>1 DEF ServerReceive, burst
    <3>2. /\ BurstSize \in Nat /\ q \in Nat /\ h \in Nat /\ sent \in Nat
          /\ (handled + 1) * BurstSize = h + BurstSize
      <4>1. BurstSize \in Nat
        BY SizeAssumption DEF BurstSize, TypeOK
      <4>2. turns \in Nat /\ payload_size \in Nat /\ handled \in Nat /\ remaining \in Nat
            /\ sent \in Nat
        BY SizeAssumption DEF TypeOK
      <4>3. turns * payload_size \in Nat
        BY <4>2, OneLess
      <4>4. handled * BurstSize \in Nat /\ (handled + 1) * BurstSize = h + BurstSize
        BY <4>1, <4>2, OneLess
      <4> QED BY <4>1, <4>2, <4>3, <4>4
    <3>3. BurstSize' = BurstSize
      BY <3>1 DEF BurstSize
    <3>4. Owed = q + 0 /\ Owed' = q + BurstSize
      BY <3>1, <3>3 DEF Owed
    <3>5. sent + q <= h
      BY <3>2, <3>4 DEF BurstPerDatagram
    <3> HIDE DEF q, h
    <3>6. sent + (q + BurstSize) <= h + BurstSize
      BY <3>2, <3>5
    <3> QED BY <3>1, <3>2, <3>3, <3>4, <3>6 DEF BurstPerDatagram
  <2>2. CASE Serve
    BY <2>2, ServeSpends
  <2>3. CASE Client \/ LoseToServer \/ LoseToClient \/ Tick \/ Finished \/ UNCHANGED vars
    <3>1. UNCHANGED <<payload_size, server>>
      BY <2>3 DEF Client, SendCommand, Loop, Receive, ReceiveInvalid, PollTimeout,
         SocketError, LoseToServer, LoseToClient, Tick, Finished, vars
    <3> QED BY <3>1 DEF BurstPerDatagram, Owed, BurstSize, server, burst
  <2> QED BY <2>1, <2>2, <2>3 DEF Next
<1>3. TypeOK /\ BurstPerDatagram /\ MeasuredWasSent =>
        sent <= handled * BurstSize /\ measured <= handled * BurstSize
  <2> SUFFICES ASSUME TypeOK, BurstPerDatagram, MeasuredWasSent
               PROVE  sent <= handled * BurstSize /\ measured <= handled * BurstSize
    OBVIOUS
  <2>1. /\ payload_size \in Nat /\ BurstSize \in Nat /\ turns \in Nat /\ remaining \in Nat
        /\ handled \in Nat /\ sent \in Nat /\ measured \in Nat
    BY SizeAssumption DEF TypeOK, BurstSize
  <2>2. handled * BurstSize \in Nat /\ turns * payload_size \in Nat
    BY <2>1, OneLess
  <2>3. Owed \in Nat
    BY <2>1, <2>2 DEF Owed
  <2>4. BytesToClient \in Nat
    BY BytesFinite, FS_CardinalityType DEF BytesToClient, TypeOK
  <2> QED BY <2>1, <2>2, <2>3, <2>4 DEF BurstPerDatagram, MeasuredWasSent
<1> QED BY <1>1, <1>2, <1>3, TypeCorrect, MeasuredIsSent, PTL DEF Spec

(* A download whose datagrams are all lost at once never starts again.     *)
THEOREM QuietIsForGood == Spec => QuietStaysQuiet
<1>1. ASSUME TypeOK, Quiet, [Next]_vars PROVE Quiet'
  <2> USE <1>1 DEF Quiet
  <2>1. CASE Client
    <3>1. CASE SendCommand
      BY <3>1 DEF SendCommand
    <3>2. CASE Loop \/ ReceiveInvalid \/ PollTimeout \/ SocketError
      BY <3>2 DEF Loop, ReceiveInvalid, PollTimeout, SocketError, server, to_server
    <3>3. CASE Receive
      BY <3>3 DEF Receive, TypeOK
    <3> QED BY <2>1, <3>1, <3>2, <3>3 DEF Client
  <2>2. CASE ServerReceive
    BY <2>2 DEF ServerReceive
  <2>3. CASE Serve
    BY <2>3 DEF Serve, SendAck, SendSingle, StartFragments, SendFragment, EndBurst
  <2>4. CASE LoseToServer \/ LoseToClient
    BY <2>4 DEF LoseToServer, LoseToClient
  <2>5. CASE Tick \/ UNCHANGED vars
    BY <2>5 DEF Tick, vars, client, server, to_server
  <2> QED BY <2>1, <2>2, <2>3, <2>4, <2>5 DEF Next, Finished
<1> QED BY TypeCorrect, <1>1, PTL DEF Spec, QuietStaysQuiet
=============================================================================
