------------------------- MODULE MeasuredTest_proofs -------------------------
(***************************************************************************)
(* A measured test implements MeasurementSink, for any set of tasks, and   *)
(* its probes are spaced, for any pause and duration.                      *)
(*                                                                         *)
(* A step of the collector moves a measurement from the channel to the     *)
(* vector and leaves vector \o channel as it was; a send appends to it.    *)
(* What finish() clones is the whole record because the collector stops    *)
(* only when no sender is left, which Inv states.                          *)
(*                                                                         *)
(* The report is computed from that record.  Its statistics are loops over *)
(* lists of any length, so the second half of the module begins with an    *)
(* induction on sets of turns, gives each loop an invariant, and shows     *)
(* that a list can be sorted, before it joins the statistics with what     *)
(* MeasurementSink promises of the list.                                   *)
(***************************************************************************)
EXTENDS MeasuredTest, SequenceTheorems, FiniteSetTheorems, WellFoundedInduction, TLAPS

(* Sends ignore their error (`let _ = tx.send`), so a collector that stops *)
(* while a sender is left would drop measurements unseen: when it stops,   *)
(* every sender is gone for good and the channel is drained.               *)
CollectorStopsLast ==
  collector = "ended" => channel = <<>> /\ ~main_tx /\ Closed = Producers

(* Who is where, and who still has a sender. *)
Control ==
  /\ main_tx <=> main \notin {"finishing", "returned"}
  /\ Latency => \A t \in Tasks : task[t] = "unspawned"
  /\ ~Latency /\ main # "spawning" => \A t \in Tasks : task[t] # "unspawned"
  /\ main # "returned" => result = <<>>

(* Every probe that was set up has cost a pause, up to the one that is     *)
(* under way.                                                              *)
Spacing ==
  Latency =>
    /\ made[Main] - not_set_up \in Nat
    /\ main \in {"probing", "finishing", "returned"}
         => Pause * (made[Main] - not_set_up) <= elapsed
    /\ main = "waiting" => Pause * (made[Main] - not_set_up) <= since
    /\ main = "pausing" => Pause * (made[Main] - not_set_up) <= since + Pause

Inv == TypeOK /\ CollectorStopsLast /\ Control /\ Spacing

(* Moving the head of t to the end of s leaves their concatenation alone. *)
LEMMA MoveHead ==
  ASSUME NEW S, NEW s \in Seq(S), NEW t \in Seq(S), t # <<>>
  PROVE  Append(s, Head(t)) \o Tail(t) = s \o t
<1>1. t = <<Head(t)>> \o Tail(t) /\ Head(t) \in S /\ Tail(t) \in Seq(S)
  OBVIOUS
<1>2. Append(s, Head(t)) = s \o <<Head(t)>>
  BY <1>1
<1> QED BY <1>1, <1>2

(* Appending to t appends to the concatenation. *)
LEMMA AppendRight ==
  ASSUME NEW S, NEW s \in Seq(S), NEW t \in Seq(S), NEW e \in S
  PROVE  s \o Append(t, e) = Append(s \o t, e)
OBVIOUS

(* The invariant holds when the test starts. *)
LEMMA InitInv == Init => Inv
<1> SUFFICES ASSUME Init PROVE Inv
  OBVIOUS
<1>1. /\ channel \in Seq(Measurement) /\ measurements \in Seq(Measurement)
      /\ result \in Seq(Measurement)
  BY DEF Init
<1>2. TypeOK
  BY <1>1 DEF Init, TypeOK, Latency, Modes
<1>3. CollectorStopsLast /\ Control
  BY DEF Init, CollectorStopsLast, Control, Latency
<1>4. Spacing
  <2>1. made[Main] = 0 /\ not_set_up = 0 /\ elapsed = 0 /\ (Latency => main = "probing")
    BY DEF Init, Producers
  <2> QED BY <2>1, TimeAssumption DEF Spacing
<1> QED BY <1>2, <1>3, <1>4 DEF Inv

(* A send adds a measurement to the channel and to its maker's count.      *)
LEMMA SendAdds ==
  ASSUME TypeOK, NEW p \in Producers, NEW O \in SUBSET Outcomes, Send(p, O)
  PROVE  /\ made' = [made EXCEPT ![p] = made[p] + 1]
         /\ made' \in [Producers -> Nat]
         /\ \E o \in Outcomes : /\ <<p, made[p] + 1, o>> \in Measurement
                               /\ channel' = Append(channel, <<p, made[p] + 1, o>>)
         /\ channel' \in Seq(Measurement)
<1>1. PICK o \in O : channel' = Append(channel, <<p, made[p] + 1, o>>)
  BY DEF Send
<1>2. o \in Outcomes /\ <<p, made[p] + 1, o>> \in Measurement
  BY DEF TypeOK, Measurement
<1>3. /\ made' = [made EXCEPT ![p] = made[p] + 1]
      /\ made' \in [Producers -> Nat]
  BY DEF Send, TypeOK
<1>4. channel' \in Seq(Measurement)
  BY <1>1, <1>2 DEF TypeOK
<1> QED BY <1>1, <1>2, <1>3, <1>4

(* How the main task of a latency test gets on: a probe that was awaited   *)
(* is recorded.                                                            *)
LEMMA RecordSends ==
  ASSUME ProbeAnswered \/ ProbeFails \/ ProbeTimesOut
  PROVE  /\ main = "waiting" /\ main' = "pausing" /\ since' = elapsed
         /\ UNCHANGED <<mode, task, main_tx, measurements, result, collector,
                        progress, elapsed, not_set_up>>
         /\ \E O \in SUBSET Outcomes : Send(Main, O)
<1>1. Rtts \in SUBSET Outcomes /\ {None} \in SUBSET Outcomes
  BY DEF Outcomes
<1> QED BY <1>1 DEF ProbeAnswered, ProbeFails, ProbeTimesOut, Record

LEMMA SetUpFailsSends ==
  ASSUME SetUpFails
  PROVE  \E O \in SUBSET Outcomes : Send(Main, O)
BY DEF SetUpFails, Outcomes

LEMMA TransferSends ==
  ASSUME NEW t \in Tasks, Transfer(t) \/ TransferFails(t)
  PROVE  \E O \in SUBSET Outcomes : Send(t, O)
<1>1. CASE Transfer(t)
  <2>1. (IF CarriesOn THEN Sizes \cup {None} ELSE Sizes) \in SUBSET Outcomes
    BY DEF Outcomes
  <2> QED BY <1>1, <2>1 DEF Transfer
<1>2. CASE TransferFails(t)
  BY <1>2 DEF TransferFails, Outcomes
<1> QED BY <1>1, <1>2

(* Every step preserves the types. *)
LEMMA TypeStep == TypeOK /\ [Next]_vars => TypeOK'
<1> SUFFICES ASSUME TypeOK, [Next]_vars PROVE TypeOK'
  OBVIOUS
<1> USE DEF Latency, Modes, data, time
<1>a. Main \in Producers /\ Tasks \subseteq Producers
  BY DEF Producers
<1>1. CASE StartProbe \/ PauseOver \/ ProbesDone
  <2>1. UNCHANGED <<mode, task, made, data, collector, progress, elapsed, not_set_up>>
    BY <1>1 DEF StartProbe, PauseOver, ProbesDone
  <2>2. Latency /\ main' \in {"probing", "waiting", "finishing"}
    BY <1>1 DEF StartProbe, PauseOver, ProbesDone, TypeOK
  <2>3. main_tx' \in BOOLEAN
    BY <1>1 DEF StartProbe, PauseOver, ProbesDone, TypeOK
  <2>4. since' \in 0 .. elapsed
    <3>1. since' = since \/ since' = elapsed
      BY <1>1 DEF StartProbe, PauseOver, ProbesDone
    <3>2. elapsed \in Nat /\ since \in 0 .. elapsed
      BY DEF TypeOK
    <3> QED BY <3>1, <3>2
  <2> QED BY <2>1, <2>2, <2>3, <2>4 DEF TypeOK
<1>2. CASE ProbeAnswered \/ ProbeFails \/ ProbeTimesOut
  <2>1. channel' \in Seq(Measurement) /\ made' \in [Producers -> Nat]
    BY <1>2, <1>a, RecordSends, SendAdds
  <2> QED BY <1>2, <2>1, RecordSends DEF TypeOK
<1>3. CASE SetUpFails
  <2>1. channel' \in Seq(Measurement) /\ made' \in [Producers -> Nat]
    BY <1>3, <1>a, SetUpFailsSends, SendAdds
  <2> QED BY <1>3, <2>1 DEF SetUpFails, TypeOK
<1>4. CASE SpawnDone
  BY <1>4 DEF SpawnDone, TypeOK
<1>5. CASE JoinAll
  BY <1>5 DEF JoinAll, TypeOK
<1>6. CASE Finish
  BY <1>6 DEF Finish, TypeOK
<1>7. ASSUME NEW t \in Tasks, SpawnTask(t) \/ Connected(t) \/ ConnectFails(t)
                              \/ TaskEnds(t)
      PROVE TypeOK'
  <2>1. task' \in [Tasks -> {"unspawned", "connecting", "running", "broken", "ended"}]
    BY <1>7 DEF SpawnTask, Connected, ConnectFails, TaskEnds, TypeOK
  <2> QED BY <1>7, <2>1 DEF SpawnTask, Connected, ConnectFails, TaskEnds, TypeOK
<1>8. ASSUME NEW t \in Tasks, Transfer(t) \/ TransferFails(t) PROVE TypeOK'
  <2>1. channel' \in Seq(Measurement) /\ made' \in [Producers -> Nat]
    BY <1>8, <1>a, TransferSends, SendAdds
  <2>2. task' \in [Tasks -> {"unspawned", "connecting", "running", "broken", "ended"}]
    BY <1>8 DEF Transfer, TransferFails, TypeOK, control
  <2>3. UNCHANGED <<mode, main, main_tx, measurements, result, collector, progress,
                    elapsed, since, not_set_up>>
    BY <1>8 DEF Transfer, TransferFails, control, time
  <2> QED BY <2>1, <2>2, <2>3 DEF TypeOK
<1>9. CASE Collect
  <2>1. channel' \in Seq(Measurement) /\ measurements' \in Seq(Measurement)
    BY <1>9 DEF Collect, TypeOK
  <2> QED BY <1>9, <2>1 DEF Collect, TypeOK, control, time
<1>10. CASE CollectorEnds \/ ProgressEnds
  BY <1>10 DEF CollectorEnds, ProgressEnds, TypeOK, control, data, time
<1>11. CASE Tick
  BY <1>11 DEF Tick, TypeOK, control, data
<1>12. CASE Finished \/ UNCHANGED vars
  BY <1>12 DEF Finished, vars, TypeOK, control, data, time
<1> QED BY <1>1, <1>2, <1>3, <1>4, <1>5, <1>6, <1>7, <1>8, <1>9, <1>10, <1>11, <1>12
        DEF Next, Probe, MainTask, Connection

(* Once every sender is gone none comes back: tasks are spawned only while *)
(* the main task holds its own, and a latency test has no other.           *)
LEMMA ControlStep ==
  ASSUME Inv, TypeOK', [Next]_vars
  PROVE  CollectorStopsLast' /\ Control'
<1> USE TasksAssumption DEF Inv, Latency, Modes
<1>1. CASE Probe
  <2>1. main_tx /\ collector # "ended" /\ main \in {"probing", "waiting", "pausing"}
    BY <1>1 DEF Probe, StartProbe, ProbeAnswered, ProbeFails, ProbeTimesOut, Record,
       SetUpFails, PauseOver, ProbesDone, Control, CollectorStopsLast
  <2>2. UNCHANGED <<mode, task, collector, result>>
    BY <1>1 DEF Probe, StartProbe, ProbeAnswered, ProbeFails, ProbeTimesOut, Record,
       SetUpFails, PauseOver, ProbesDone, data
  <2>3. \/ main' = "finishing" /\ ~main_tx'
        \/ main' \in {"probing", "waiting", "pausing"} /\ main_tx'
    BY <1>1, <2>1 DEF Probe, StartProbe, ProbeAnswered, ProbeFails, ProbeTimesOut,
       Record, SetUpFails, PauseOver, ProbesDone
  <2>4. Latency
    BY <2>1 DEF TypeOK
  <2> QED BY <2>1, <2>2, <2>3, <2>4 DEF Control, CollectorStopsLast
<1>2. CASE SpawnDone \/ JoinAll
  <2>1. main_tx /\ ~Latency /\ collector # "ended"
    BY <1>2 DEF SpawnDone, JoinAll, Control, CollectorStopsLast, TypeOK
  <2> QED BY <1>2, <2>1 DEF SpawnDone, JoinAll, Control, CollectorStopsLast, data
<1>3. CASE Finish
  <2>1. Closed' = Closed
    BY <1>3 DEF Finish, Closed
  <2> QED BY <1>3, <2>1 DEF Finish, Control, CollectorStopsLast
<1>4. ASSUME NEW t \in Tasks, \/ SpawnTask(t) \/ Connected(t) \/ ConnectFails(t)
                              \/ TaskEnds(t) \/ Transfer(t) \/ TransferFails(t)
      PROVE  CollectorStopsLast' /\ Control'
  <2>1. task[t] # "ended" /\ ~Latency
    BY <1>4 DEF SpawnTask, Connected, ConnectFails, TaskEnds, Transfer, TransferFails,
       Control, TypeOK
  <2>2. collector # "ended"
    <3>1. t \notin Closed /\ t \in Producers
      BY <2>1 DEF Closed, Producers
    <3> QED BY <3>1 DEF CollectorStopsLast
  <2>3. UNCHANGED <<mode, main, main_tx, collector, result>>
    BY <1>4 DEF SpawnTask, Connected, ConnectFails, TaskEnds, Transfer, TransferFails,
       control, data
  <2>4. main # "spawning" => \A u \in Tasks : task'[u] # "unspawned"
    BY <1>4, <2>1 DEF SpawnTask, Connected, ConnectFails, TaskEnds, Transfer,
       TransferFails, TypeOK, Control, control
  <2> QED BY <2>1, <2>2, <2>3, <2>4 DEF CollectorStopsLast, Control
<1>5. CASE Collect
  <2>1. collector # "ended" /\ UNCHANGED <<control, main_tx, collector, result>>
    BY <1>5 DEF Collect, CollectorStopsLast
  <2> QED BY <2>1 DEF CollectorStopsLast, Control, control
<1>6. CASE CollectorEnds
  <2>1. /\ channel = <<>> /\ ~main_tx /\ main # "spawning"
        /\ \A t \in Tasks : task[t] \in {"unspawned", "ended"}
        /\ UNCHANGED <<mode, main, task, main_tx, channel, result>>
    BY <1>6 DEF CollectorEnds, ChannelClosed, Senders, TypeOK, Control, control, data
  <2>2. Closed = Producers
    BY <2>1 DEF Closed, Producers, Control
  <2>3. Closed' = Closed
    BY <2>1 DEF Closed
  <2> QED BY <2>1, <2>2, <2>3 DEF CollectorStopsLast, Control
<1>7. CASE ProgressEnds \/ Tick \/ Finished \/ UNCHANGED vars
  <2>1. UNCHANGED <<mode, main, main_tx, collector, result, channel, task>>
    BY <1>7 DEF ProgressEnds, Tick, Finished, vars, control, data, time
  <2>2. Closed' = Closed
    BY <2>1 DEF Closed
  <2> QED BY <2>1, <2>2 DEF CollectorStopsLast, Control
<1> QED BY <1>1, <1>2, <1>3, <1>4, <1>5, <1>6, <1>7 DEF Next, MainTask, Connection

(* A probe that is recorded begins a pause, and only a pause that is over  *)
(* lets the next one start; one that could not be set up is not counted.   *)
LEMMA SpacingStep ==
  ASSUME Inv, TypeOK', [Next]_vars
  PROVE  Spacing'
<1> SUFFICES ASSUME Latency' PROVE Spacing'
  BY DEF Spacing
<1> DEFINE m == made[Main] - not_set_up
<1> USE TimeAssumption, TasksAssumption DEF Inv
<1>a. Main \in Producers /\ \A t \in Tasks : t \in Producers /\ t # Main
  BY DEF Producers
<1>b. Latency
  BY DEF Next, Probe, StartProbe, ProbeAnswered, ProbeFails, ProbeTimesOut, Record,
     SetUpFails, PauseOver, ProbesDone, MainTask, SpawnDone, JoinAll, Finish, SpawnTask,
     Connection, Connected, ConnectFails, Transfer, TransferFails, TaskEnds, Collect,
     CollectorEnds, ProgressEnds, Tick, Finished, vars, control, Latency
<1>c. made[Main] \in Nat /\ not_set_up \in Nat /\ elapsed \in Nat /\ since \in 0 .. elapsed
      /\ m \in Nat /\ Pause * m \in Nat
  <2>1. made[Main] \in Nat /\ not_set_up \in Nat /\ elapsed \in Nat /\ since \in 0 .. elapsed
    BY <1>a DEF TypeOK
  <2>2. m \in Nat
    BY <1>b DEF Spacing
  <2> QED BY <2>1, <2>2
<1>1. CASE StartProbe
  BY <1>1, <1>b, <1>c DEF StartProbe, Spacing
<1>2. CASE ProbeAnswered \/ ProbeFails \/ ProbeTimesOut
  <2>1. made'[Main] = made[Main] + 1
    BY <1>2, <1>a, RecordSends, SendAdds DEF TypeOK
  <2>2. m' = m + 1 /\ main = "waiting" /\ main' = "pausing" /\ since' = elapsed
    BY <1>2, <2>1, <1>c, RecordSends
  <2>3. Pause * (m + 1) = Pause * m + Pause
    BY <1>c
  <2> QED BY <2>2, <2>3, <1>b, <1>c DEF Spacing
<1>3. CASE SetUpFails
  <2>1. made'[Main] = made[Main] + 1
    BY <1>3, <1>a, SetUpFailsSends, SendAdds DEF TypeOK
  <2>2. m' = m /\ main = "waiting" /\ main' = "probing" /\ elapsed' = elapsed
    BY <1>3, <2>1, <1>c DEF SetUpFails, time
  <2> QED BY <2>2, <1>b, <1>c DEF Spacing
<1>4. CASE PauseOver
  BY <1>4, <1>b, <1>c DEF PauseOver, PauseIsOver, Spacing, time
<1>5. CASE ProbesDone
  BY <1>5, <1>b, <1>c DEF ProbesDone, Spacing, time
<1>6. CASE SpawnDone \/ JoinAll \/ \E t \in Tasks : SpawnTask(t)
  BY <1>6, <1>b DEF SpawnDone, JoinAll, SpawnTask, TypeOK
<1>7. CASE Finish
  BY <1>7, <1>b DEF Finish, Spacing, time
<1>8. ASSUME NEW t \in Tasks, Connection(t) PROVE Spacing'
  BY <1>8, <1>b DEF Connection, Connected, ConnectFails, Transfer, TransferFails,
     TaskEnds, Control
<1>9. CASE Collect \/ CollectorEnds \/ ProgressEnds \/ Finished \/ UNCHANGED vars
  <2>1. UNCHANGED <<mode, main, made, elapsed, since, not_set_up>>
    BY <1>9 DEF Collect, CollectorEnds, ProgressEnds, Finished, vars, control, time
  <2> QED BY <2>1, <1>b DEF Spacing
<1>10. CASE Tick
  <2>1. UNCHANGED <<mode, main, made, since, not_set_up>> /\ elapsed' = elapsed + 1
    BY <1>10 DEF Tick, control
  <2> QED BY <2>1, <1>b, <1>c DEF Spacing
<1> QED BY <1>1, <1>2, <1>3, <1>4, <1>5, <1>6, <1>7, <1>8, <1>9, <1>10
        DEF Next, Probe, MainTask

(* The invariant holds in every reachable state of the test. *)
THEOREM Invariance == Spec => []Inv
<1>1. Inv /\ [Next]_vars => Inv'
  BY TypeStep, ControlStep, SpacingStep DEF Inv
<1> QED BY <1>1, InitInv, PTL DEF Spec

(* The type invariant of the test. *)
THEOREM TypeCorrect == Spec => []TypeOK
<1>1. Inv => TypeOK
  BY DEF Inv
<1> QED BY <1>1, Invariance, PTL

(* The collector outlives its senders: no measurement is sent to a channel *)
(* that nobody reads.                                                      *)
THEOREM CollectorIsLast == Spec => []CollectorStopsLast
<1>1. Inv => CollectorStopsLast
  BY DEF Inv
<1> QED BY <1>1, Invariance, PTL

(* A latency test starts at most one probe per pause, however the probes   *)
(* end, save those whose socket could not be made.                         *)
THEOREM ProbesSpaced == Spec => []ProbesAreSpaced
<1>1. Inv => ProbesAreSpaced
  <2> SUFFICES ASSUME Inv, Latency
               PROVE  Pause * (made[Main] - not_set_up - 1) <= elapsed
    BY DEF ProbesAreSpaced
  <2> DEFINE m == made[Main] - not_set_up
  <2>1. m \in Nat /\ elapsed \in Nat /\ since \in 0 .. elapsed /\ Pause \in Nat
    BY TimeAssumption DEF Inv, Spacing, TypeOK
  <2>2. Pause * (m - 1) = Pause * m - Pause /\ Pause * m \in Nat
    BY <2>1
  <2>3. main \in {"probing", "waiting", "pausing", "finishing", "returned"}
    BY DEF Inv, TypeOK
  <2>4. Pause * m <= elapsed + Pause
    BY <2>1, <2>2, <2>3 DEF Inv, Spacing
  <2> QED BY <2>1, <2>2, <2>4
<1> QED BY <1>1, Invariance, PTL

(* Where the clock of a UDP latency test can be: a probe starts within the *)
(* duration and is over after ProbeTimeout at the latest, and only a pause *)
(* follows.                                                                *)
InTime ==
  mode = "udp_latency" =>
    /\ main = "waiting" => since <= Duration /\ elapsed <= since + ProbeTimeout
    /\ main = "pausing" => since <= Duration + ProbeTimeout /\ elapsed <= since + Pause
    /\ elapsed <= Duration + ProbeTimeout + Pause

LEMMA InTimeStep ==
  ASSUME TypeOK, InTime, [Next]_vars
  PROVE  InTime'
<1> SUFFICES ASSUME mode' = "udp_latency" PROVE InTime'
  BY DEF InTime
<1> USE TimeAssumption
<1>a. elapsed \in Nat /\ since \in 0 .. elapsed /\ since \in Nat
  BY DEF TypeOK
<1>b. mode = "udp_latency"
  BY DEF Next, Probe, StartProbe, ProbeAnswered, ProbeFails, ProbeTimesOut, Record,
     SetUpFails, PauseOver, ProbesDone, MainTask, SpawnDone, JoinAll, Finish, SpawnTask,
     Connection, Connected, ConnectFails, Transfer, TransferFails, TaskEnds, Collect,
     CollectorEnds, ProgressEnds, Tick, Finished, vars, control
<1>1. CASE StartProbe
  BY <1>1, <1>a, <1>b DEF StartProbe, over, InTime
<1>2. CASE ProbeAnswered \/ ProbeFails \/ ProbeTimesOut
  BY <1>2, <1>a, <1>b, RecordSends DEF InTime
<1>3. CASE SetUpFails \/ PauseOver \/ ProbesDone \/ SpawnDone \/ JoinAll \/ Finish
  BY <1>3, <1>b DEF SetUpFails, PauseOver, ProbesDone, SpawnDone, JoinAll, Finish,
     InTime, time
<1>4. CASE \/ Collect \/ CollectorEnds \/ ProgressEnds \/ Finished \/ UNCHANGED vars
           \/ \E t \in Tasks : SpawnTask(t) \/ Connection(t)
  <2>1. UNCHANGED <<main, elapsed, since>>
    BY <1>4 DEF Collect, CollectorEnds, ProgressEnds, Finished, vars, SpawnTask,
       Connection, Connected, ConnectFails, Transfer, TransferFails, TaskEnds,
       control, time
  <2> QED BY <2>1, <1>b DEF InTime
<1>5. CASE Tick
  <2>1. main' = main /\ since' = since /\ elapsed' = elapsed + 1
    BY <1>5 DEF Tick, control
  <2>2. CASE main = "waiting"
    <3>1. ~ProbeTimedOut
      BY <1>5, <2>2 DEF Tick
    <3> QED BY <2>1, <2>2, <3>1, <1>a, <1>b DEF ProbeTimedOut, InTime
  <2>3. CASE main = "pausing"
    <3>1. ~PauseIsOver
      BY <1>5, <2>3 DEF Tick
    <3> QED BY <2>1, <2>3, <3>1, <1>a, <1>b DEF PauseIsOver, InTime
  <2>4. CASE main \notin {"waiting", "pausing"}
    <3>1. ~over
      BY <1>5, <2>4 DEF Tick
    <3> QED BY <2>1, <2>4, <3>1, <1>a, <1>b DEF over, InTime
  <2> QED BY <2>2, <2>3, <2>4
<1> QED BY <1>1, <1>2, <1>3, <1>4, <1>5 DEF Next, Probe, MainTask

(* A UDP latency test outlasts its duration by no more than one probe and  *)
(* one pause, even if no answer ever comes, and makes no more probes than  *)
(* fit that time, save those whose socket could not be made.               *)
THEOREM UdpOverrunIsBounded ==
  Spec => [](mode = "udp_latency" =>
               /\ elapsed <= Duration + ProbeTimeout + Pause
               /\ Pause * (made[Main] - not_set_up - 1) <= Duration + ProbeTimeout + Pause)
<1>1. Init => InTime
  BY TimeAssumption DEF Init, InTime, Latency
<1>2. InTime /\ TypeOK /\ [Next]_vars => InTime'
  BY InTimeStep
<1>3. TypeOK /\ Inv /\ InTime /\ ProbesAreSpaced =>
        (mode = "udp_latency" =>
           /\ elapsed <= Duration + ProbeTimeout + Pause
           /\ Pause * (made[Main] - not_set_up - 1) <= Duration + ProbeTimeout + Pause)
  <2> SUFFICES ASSUME TypeOK, Inv, InTime, ProbesAreSpaced, mode = "udp_latency"
               PROVE  /\ elapsed <= Duration + ProbeTimeout + Pause
                      /\ Pause * (made[Main] - not_set_up - 1)
                           <= Duration + ProbeTimeout + Pause
    OBVIOUS
  <2> DEFINE n == made[Main] - not_set_up - 1
  <2>1. Latency
    BY DEF Latency
  <2>2. n \in Int /\ Pause \in Int
    BY <2>1, TimeAssumption DEF Inv, Spacing
  <2>3. Pause * n \in Int /\ Pause * n <= elapsed
    BY <2>1, <2>2 DEF ProbesAreSpaced
  <2> DEFINE x == Pause * n
  <2>4. elapsed \in Nat /\ elapsed <= Duration + ProbeTimeout + Pause
    BY DEF TypeOK, InTime
  <2> HIDE DEF x, n
  <2>5. x <= Duration + ProbeTimeout + Pause
    BY <2>3, <2>4, TimeAssumption DEF x
  <2> QED BY <2>4, <2>5 DEF x, n
<1> QED BY <1>1, <1>2, <1>3, Invariance, TypeCorrect, ProbesSpaced, PTL DEF Spec

(* A test returns every measurement once and in its maker's order: it      *)
(* implements MeasurementSink.                                             *)
THEOREM Refinement == Spec => ImplementsSink
<1> DEFINE log == measurements \o channel
<1> USE TasksAssumption
<1>1. Init => Sink!Init
  BY DEF Init, Sink!Init, Closed, Producers
<1>2. Inv /\ [Next]_vars => [Sink!Next]_Sink!vars
  <2> SUFFICES ASSUME Inv, [Next]_vars PROVE [Sink!Next]_Sink!vars
    OBVIOUS
  <2> USE DEF Inv, Sink!vars
  <2>a. Main \in Producers /\ \A t \in Tasks : t \in Producers /\ t # Main
    BY DEF Producers
  <2>b. ASSUME NEW p \in Producers, NEW O \in SUBSET Outcomes, Send(p, O), p \notin Closed,
               Closed' = Closed, UNCHANGED <<measurements, result>>
        PROVE  Sink!Record(p)
    <3>1. PICK o \in Outcomes : /\ <<p, made[p] + 1, o>> \in Measurement
                               /\ channel' = Append(channel, <<p, made[p] + 1, o>>)
      BY <2>b, SendAdds
    <3>2. log' = Append(log, <<p, made[p] + 1, o>>)
      BY <2>b, <3>1, AppendRight DEF TypeOK
    <3> QED BY <2>b, <3>2, SendAdds DEF Sink!Record
  <2>1. CASE StartProbe \/ PauseOver
    <3>1. Closed' = Closed
      BY <2>1 DEF StartProbe, PauseOver, Closed, Latency
    <3> QED BY <2>1, <3>1 DEF StartProbe, PauseOver, data
  <2>2. CASE ProbeAnswered \/ ProbeFails \/ ProbeTimesOut \/ SetUpFails
    <3>1. /\ main = "waiting" /\ UNCHANGED <<mode, task, main_tx, measurements, result>>
          /\ \E O \in SUBSET Outcomes : Send(Main, O)
      BY <2>2, RecordSends, SetUpFailsSends DEF SetUpFails
    <3>2. Main \notin Closed /\ Closed' = Closed
      BY <2>a, <3>1 DEF Closed, Control, TypeOK, Latency
    <3> QED BY <2>a, <2>b, <3>1, <3>2 DEF Sink!Next
  <2>3. CASE ProbesDone
    <3>1. Main \notin Closed /\ Closed' = Closed \cup {Main}
      BY <2>3, <2>a DEF ProbesDone, Closed, Control, TypeOK, Latency
    <3>2. Sink!Close(Main)
      BY <2>3, <3>1 DEF ProbesDone, data, Sink!Close
    <3> QED BY <2>a, <3>2 DEF Sink!Next
  <2>4. CASE SpawnDone \/ JoinAll
    <3>1. Closed' = Closed
      BY <2>4 DEF SpawnDone, JoinAll, Closed, TypeOK, Latency
    <3> QED BY <2>4, <3>1 DEF SpawnDone, JoinAll, data
  <2>5. CASE Finish
    <3>1. channel = <<>> /\ Closed = Producers /\ result = <<>> /\ log = measurements
      BY <2>5 DEF Finish, CollectorStopsLast, TypeOK, Control
    <3>2. Closed' = Closed /\ log' = log
      BY <2>5 DEF Finish, Closed, Latency
    <3>3. Sink!Return
      BY <2>5, <3>1, <3>2 DEF Finish, Sink!Return
    <3> QED BY <3>3 DEF Sink!Next
  <2>6. ASSUME NEW t \in Tasks, SpawnTask(t) \/ Connected(t) PROVE UNCHANGED Sink!vars
    <3>1. {u \in Tasks : task'[u] = "ended"} = {u \in Tasks : task[u] = "ended"}
      BY <2>6 DEF SpawnTask, Connected, TypeOK
    <3>2. Closed' = Closed
      BY <2>6, <3>1 DEF SpawnTask, Connected, Closed, Latency
    <3> QED BY <2>6, <3>2 DEF SpawnTask, Connected, data
  <2>7. ASSUME NEW t \in Tasks, ConnectFails(t) \/ TaskEnds(t) PROVE Sink!Close(t)
    <3>1. t \notin Closed /\ Closed' = Closed \cup {t}
      BY <2>7, <2>a DEF ConnectFails, TaskEnds, Closed, Control, TypeOK, Latency
    <3> QED BY <2>7, <3>1 DEF ConnectFails, TaskEnds, data, Sink!Close
  <2>8. ASSUME NEW t \in Tasks, Transfer(t) \/ TransferFails(t) PROVE Sink!Record(t)
    <3>1. t \notin Closed /\ Closed' = Closed
      BY <2>8, <2>a DEF Transfer, TransferFails, Closed, Control, TypeOK, Latency, control
    <3>2. UNCHANGED <<measurements, result>>
      BY <2>8 DEF Transfer, TransferFails
    <3> QED BY <2>8, <2>a, <2>b, <3>1, <3>2, TransferSends
  <2>9. CASE Collect
    <3>1. Append(measurements, Head(channel)) \o Tail(channel) = measurements \o channel
      BY <2>9, MoveHead DEF Collect, TypeOK
    <3>2. Closed' = Closed
      BY <2>9 DEF Collect, Closed, Latency, control
    <3> QED BY <2>9, <3>1, <3>2 DEF Collect
  <2>10. CASE CollectorEnds \/ ProgressEnds \/ Tick \/ Finished \/ UNCHANGED vars
    <3>1. UNCHANGED <<mode, task, made, main_tx, channel, measurements, result>>
      BY <2>10 DEF CollectorEnds, ProgressEnds, Tick, Finished, vars, control, data
    <3>2. Closed' = Closed
      BY <3>1 DEF Closed, Latency
    <3> QED BY <3>1, <3>2
  <2> QED BY <2>a, <2>1, <2>2, <2>3, <2>4, <2>5, <2>6, <2>7, <2>8, <2>9, <2>10
          DEF Next, Probe, MainTask, Connection, Sink!Next
<1> QED BY <1>1, <1>2, Invariance, PTL DEF Spec, ImplementsSink, Sink!Spec

(***************************************************************************)
(* Induction and loops.  A set of numbers that is not empty has a least    *)
(* one, so a set that has 0 and each successor is Nat; a property of the   *)
(* turns of a loop is shown of the set of turns that have it.              *)
(***************************************************************************)

(* The least-number principle, for sets. *)
LEMMA Least ==
  ASSUME NEW T \in SUBSET Nat, T # {}
  PROVE  \E m \in T : \A k \in T : m <= k
<1>1. PICK m \in T : \A k \in T : ~(<<k, m>> \in OpToRel(<, Nat))
  BY NatLessThanWellFounded, WFMin
<1>2. \A k \in T : ~(k < m)
  BY <1>1 DEF OpToRel
<1> QED BY <1>2

(* Induction, for the set of numbers that have a property. *)
LEMMA InductiveSet ==
  ASSUME NEW T \in SUBSET Nat, 0 \in T, \A n \in T : n + 1 \in T
  PROVE  T = Nat
<1> SUFFICES ASSUME Nat \ T # {} PROVE FALSE
  OBVIOUS
<1>1. PICK m \in Nat \ T : \A k \in Nat \ T : m <= k
  BY Least
<1>2. m # 0 /\ m - 1 \in Nat
  BY <1>1
<1>3. m - 1 \in T
  BY <1>1, <1>2
<1>4. m - 1 + 1 \in T
  BY <1>3
<1> QED BY <1>1, <1>2, <1>4

(* A loop whose turn i maps what it has to turn[i, it] can be run. *)
LEMMA LoopRuns ==
  ASSUME NEW S, NEW start \in S, NEW n \in Nat, NEW turn \in [1 .. n -> [S -> S]]
  PROVE  \E f \in [0 .. n -> S] :
           f[0] = start /\ \A i \in 1 .. n : f[i] = turn[i][f[i - 1]]
<1> DEFINE Follows(k, f) == f[0] = start /\ \A i \in 1 .. k : f[i] = turn[i][f[i - 1]]
           Runs(k) == \E f \in [0 .. k -> S] : Follows(k, f)
           T == {k \in Nat : k <= n => Runs(k)}
<1>1. Runs(0)
  <2>1. [i \in 0 .. 0 |-> start] \in [0 .. 0 -> S]
    OBVIOUS
  <2>2. Follows(0, [i \in 0 .. 0 |-> start])
    OBVIOUS
  <2> QED BY <2>1, <2>2
<1>2. ASSUME NEW k \in Nat, k + 1 <= n, Runs(k) PROVE Runs(k + 1)
  <2>1. PICK f \in [0 .. k -> S] : Follows(k, f)
    BY <1>2
  <2> DEFINE g == [i \in 0 .. k + 1 |-> IF i <= k THEN f[i] ELSE turn[k + 1][f[k]]]
  <2>2. k \in 0 .. k /\ f[k] \in S /\ turn[k + 1] \in [S -> S]
    BY <1>2
  <2>3. g \in [0 .. k + 1 -> S]
    BY <2>2
  <2>4. g[0] = start
    BY <2>1
  <2>5. ASSUME NEW i \in 1 .. k + 1 PROVE g[i] = turn[i][g[i - 1]]
    <3>1. CASE i <= k
      BY <3>1, <2>1
    <3>2. CASE i = k + 1
      BY <3>2
    <3> QED BY <3>1, <3>2
  <2> QED BY <2>3, <2>4, <2>5
<1> HIDE DEF Runs
<1>3. T = Nat
  <2>1. T \in SUBSET Nat /\ 0 \in T
    BY <1>1
  <2>2. \A k \in T : k + 1 \in T
    BY <1>2
  <2> HIDE DEF T
  <2> QED BY <2>1, <2>2, InductiveSet
<1>4. Runs(n)
  BY <1>3
<1> QED BY <1>4 DEF Runs

(* f is what a loop has after each turn. *)
Run(f, S, start, n, turn) ==
  /\ f \in [0 .. n -> S]
  /\ f[0] = start
  /\ \A i \in 1 .. n : f[i] = turn[i][f[i - 1]]
  /\ Loop(n, start, turn) = f[n]

(* So Loop is well defined: it gives what such a run ends with. *)
LEMMA LoopEnds ==
  ASSUME NEW S, NEW start \in S, NEW n \in Nat, NEW turn \in [1 .. n -> [S -> S]]
  PROVE  \E f : Run(f, S, start, n, turn)
<1> DEFINE after[i \in 0 .. n] == IF i = 0 THEN start ELSE turn[i][after[i - 1]]
           body(f) == [i \in 0 .. n |-> IF i = 0 THEN start ELSE turn[i][f[i - 1]]]
<1>1. PICK f \in [0 .. n -> S] :
             f[0] = start /\ \A i \in 1 .. n : f[i] = turn[i][f[i - 1]]
  BY LoopRuns
<1>2. f = body(f)
  <2>1. \A i \in 0 .. n : f[i] = body(f)[i]
    BY <1>1
  <2> QED BY <2>1
<1>3. after = body(after)
  <2>1. after = CHOOSE h : h = body(h)
    BY Zenon
  <2> HIDE DEF after, body
  <2> QED BY <1>2, <2>1, Zenon
<1>4. Loop(n, start, turn) = after[n]
  BY Zenon DEF Loop
<1> HIDE DEF after
<1>5. after[0] = start /\ \A i \in 1 .. n : after[i] = turn[i][after[i - 1]]
  BY <1>3
<1>6. after = [i \in 0 .. n |-> after[i]]
  BY <1>3
<1> DEFINE T == {i \in Nat : i <= n => after[i] \in S}
<1>7. T = Nat
  <2>1. 0 \in T
    BY <1>5
  <2>2. ASSUME NEW i \in T PROVE i + 1 \in T
    <3>1. CASE i + 1 <= n
      <4>1. i + 1 \in 1 .. n /\ after[i] \in S
        BY <3>1
      <4>2. after[i + 1] = turn[i + 1][after[i + 1 - 1]]
        BY <4>1, <1>5
      <4> QED BY <4>1, <4>2
    <3> QED BY <3>1
  <2> HIDE DEF T
  <2>3. T \in SUBSET Nat
    BY DEF T
  <2> QED BY <2>1, <2>2, <2>3, InductiveSet
<1>8. after \in [0 .. n -> S]
  <2>1. \A i \in 0 .. n : after[i] \in S
    BY <1>7
  <2> QED BY <1>6, <2>1
<1> QED BY <1>4, <1>5, <1>8 DEF Run

(* What rtts has collected after each measurement. *)
LEMMA RttsLoop ==
  ASSUME NEW ms \in Seq(Nat \cup {None})
  PROVE  \E f \in [0 .. Len(ms) -> Seq(Nat)] :
           /\ f[0] = <<>>
           /\ \A i \in 1 .. Len(ms) :
                f[i] = IF ms[i] = None THEN f[i - 1] ELSE Append(f[i - 1], ms[i])
           /\ rtts(ms) = f[Len(ms)]
<1> DEFINE n == Len(ms)
           S == Seq(Nat)
           start == <<>>
           turn == [i \in DOMAIN ms |->
                      [found \in Seq(Nat) |->
                         IF ms[i] = None THEN found ELSE Append(found, ms[i])]]
<1>1. n \in Nat /\ DOMAIN ms = 1 .. n /\ \A i \in 1 .. n : ms[i] \in Nat \cup {None}
  OBVIOUS
<1>2. start \in S
  OBVIOUS
<1>3. turn \in [1 .. n -> [S -> S]]
  <2>1. ASSUME NEW i \in 1 .. n, NEW s \in S, ms[i] # None
        PROVE  Append(s, ms[i]) \in S
    BY <1>1, <2>1
  <2> HIDE DEF n
  <2> QED BY <1>1, <2>1
<1>4. rtts(ms) = Loop(n, start, turn)
  BY DEF rtts
<1>5. PICK f : Run(f, S, start, n, turn)
  <2> HIDE DEF n, S, start, turn
  <2> QED BY <1>1, <1>2, <1>3, LoopEnds
<1>6. ASSUME NEW i \in 1 .. n
      PROVE  f[i] = IF ms[i] = None THEN f[i - 1] ELSE Append(f[i - 1], ms[i])
  <2>1. f[i - 1] \in S
    <3> HIDE DEF n, S
    <3> QED BY <1>1, <1>5 DEF Run
  <2>2. turn[i] = [found \in Seq(Nat) |->
                     IF ms[i] = None THEN found ELSE Append(found, ms[i])]
    BY <1>1, Zenon
  <2>3. f[i] = turn[i][f[i - 1]]
    BY <1>5 DEF Run
  <2>4. turn[i][f[i - 1]]
          = IF ms[i] = None THEN f[i - 1] ELSE Append(f[i - 1], ms[i])
    BY <2>1, <2>2, Zenon
  <2> QED BY <2>3, <2>4, Zenon
<1> QED BY <1>4, <1>5, <1>6, Zenon DEF Run

(***************************************************************************)
(* The statistics.                                                         *)
(***************************************************************************)

(* The first n numbers are n. *)
LEMMA UpTo ==
  ASSUME NEW n \in Nat
  PROVE  IsFiniteSet(1 .. n) /\ Cardinality(1 .. n) = n
BY FS_Interval

(* The numbers of a list of measurements are among what was measured, and  *)
(* there are as many as successes.                                         *)
LEMMA RttsFound ==
  ASSUME NEW S \in SUBSET Nat, NEW ms \in Seq(S \cup {None})
  PROVE  rtts(ms) \in Seq(S) /\ Len(rtts(ms)) = successful_count(ms)
<1> DEFINE found(i) == {j \in 1 .. i : ms[j] # None}
<1>1. ms \in Seq(Nat \cup {None}) /\ Len(ms) \in Nat /\ DOMAIN ms = 1 .. Len(ms)
  <2>1. S \cup {None} \subseteq Nat \cup {None}
    OBVIOUS
  <2> QED BY <2>1
<1>2. PICK f \in [0 .. Len(ms) -> Seq(Nat)] :
           /\ f[0] = <<>>
           /\ \A i \in 1 .. Len(ms) :
                f[i] = IF ms[i] = None THEN f[i - 1] ELSE Append(f[i - 1], ms[i])
           /\ rtts(ms) = f[Len(ms)]
  BY <1>1, RttsLoop
<1> DEFINE T == {i \in Nat : i <= Len(ms) =>
                               f[i] \in Seq(S) /\ Len(f[i]) = Cardinality(found(i))}
<1>3. 0 \in T
  <2>1. found(0) = {}
    OBVIOUS
  <2> QED BY <1>2, <2>1, FS_EmptySet
<1>4. ASSUME NEW i \in T PROVE i + 1 \in T
  <2> SUFFICES ASSUME i + 1 <= Len(ms)
               PROVE  f[i + 1] \in Seq(S) /\ Len(f[i + 1]) = Cardinality(found(i + 1))
    OBVIOUS
  <2>1. /\ i \in Nat /\ i + 1 \in 1 .. Len(ms) /\ f[i] \in Seq(S)
        /\ Len(f[i]) = Cardinality(found(i))
    BY <1>1
  <2>2. f[i + 1] = IF ms[i + 1] = None THEN f[i] ELSE Append(f[i], ms[i + 1])
    <3>1. f[i + 1] = IF ms[i + 1] = None THEN f[i + 1 - 1] ELSE Append(f[i + 1 - 1], ms[i + 1])
      BY <2>1, <1>2
    <3> QED BY <3>1, <2>1
  <2>3. IsFiniteSet(found(i)) /\ i + 1 \notin found(i)
    <3>1. IsFiniteSet(1 .. i)
      BY <2>1, FS_Interval
    <3>2. found(i) \in SUBSET (1 .. i)
      OBVIOUS
    <3> QED BY <3>1, <3>2, <2>1, FS_Subset
  <2>4. found(i + 1) = IF ms[i + 1] = None THEN found(i) ELSE found(i) \cup {i + 1}
    BY <2>1
  <2> HIDE DEF found, T
  <2>5. Cardinality(found(i) \cup {i + 1}) = Cardinality(found(i)) + 1
    BY <2>3, FS_AddElement
  <2>6. ms[i + 1] \in S \cup {None}
    BY <2>1, <1>1
  <2> QED BY <2>1, <2>2, <2>4, <2>5, <2>6
<1>5. T = Nat
  <2>1. T \in SUBSET Nat
    OBVIOUS
  <2> HIDE DEF T
  <2> QED BY <2>1, <1>3, <1>4, InductiveSet
<1>6. f[Len(ms)] \in Seq(S) /\ Len(f[Len(ms)]) = Cardinality(found(Len(ms)))
  <2>1. Len(ms) \in T
    <3> HIDE DEF T
    <3> QED BY <1>1, <1>5
  <2> QED BY <2>1, <1>1
<1>7. successful_count(ms) = Cardinality(found(Len(ms)))
  BY <1>1 DEF successful_count
<1> QED BY <1>2, <1>6, <1>7

(* Every measurement is a success or it is dropped. *)
LEMMA CountedOnce ==
  ASSUME NEW S, NEW ms \in Seq(S)
  PROVE  successful_count(ms) + dropped_count(ms) = Len(ms)
<1> DEFINE D == DOMAIN ms
           some == {i \in D : ms[i] # None}
           none == {i \in D : ms[i] = None}
<1>1. Len(ms) \in Nat /\ D = 1 .. Len(ms)
  OBVIOUS
<1>2. IsFiniteSet(D) /\ Cardinality(D) = Len(ms)
  BY <1>1, UpTo
<1>3. some \in SUBSET D /\ none \in SUBSET D /\ some \cup none = D /\ some \cap none = {}
  OBVIOUS
<1>4. successful_count(ms) = Cardinality(some) /\ dropped_count(ms) = Cardinality(none)
  BY DEF successful_count, dropped_count
<1> HIDE DEF D, some, none
<1>5. IsFiniteSet(some) /\ IsFiniteSet(none)
  BY <1>2, <1>3, FS_Subset
<1>6. /\ Cardinality(some) \in Nat /\ Cardinality(none) \in Nat
      /\ Cardinality(some \cap none) = 0
  BY <1>3, <1>5, FS_CardinalityType, FS_EmptySet
<1>7. Cardinality(some \cup none)
        = Cardinality(some) + Cardinality(none) - Cardinality(some \cap none)
  BY <1>5, FS_Union
<1>8. Cardinality(some \cup none) = Len(ms)
  BY <1>2, <1>3
<1>9. Cardinality(some) + Cardinality(none) = Len(ms)
  BY <1>6, <1>7, <1>8
<1> QED BY <1>4, <1>9

(* The running sums of a list. *)
LEMMA TotalLoop ==
  ASSUME NEW s \in Seq(Nat)
  PROVE  \E f \in [0 .. Len(s) -> Nat] :
           /\ f[0] = 0
           /\ \A i \in 1 .. Len(s) : f[i] = f[i - 1] + s[i]
           /\ Total(s) = f[Len(s)]
<1> DEFINE n == Len(s)
           start == 0
           turn == [i \in DOMAIN s |-> [sum \in Nat |-> sum + s[i]]]
<1>1. n \in Nat /\ DOMAIN s = 1 .. n /\ start \in Nat
  OBVIOUS
<1>2. turn \in [1 .. n -> [Nat -> Nat]]
  BY <1>1
<1>3. Total(s) = Loop(n, start, turn)
  BY DEF Total
<1>4. PICK f : Run(f, Nat, start, n, turn)
  <2> HIDE DEF n, start, turn
  <2> QED BY <1>1, <1>2, LoopEnds
<1>5. ASSUME NEW i \in 1 .. n PROVE f[i] = f[i - 1] + s[i]
  <2>1. f[i - 1] \in Nat
    <3> HIDE DEF n
    <3> QED BY <1>1, <1>4 DEF Run
  <2>2. turn[i] = [sum \in Nat |-> sum + s[i]]
    BY <1>1, Zenon
  <2>3. f[i] = turn[i][f[i - 1]]
    BY <1>4 DEF Run
  <2> QED BY <2>1, <2>2, <2>3, Zenon
<1> QED BY <1>3, <1>4, <1>5 DEF Run

(* A sum lies between the count times the lowest and the highest element.  *)
LEMMA TotalBounds ==
  ASSUME NEW l \in Nat, NEW h \in Nat, NEW s \in Seq(l .. h)
  PROVE  /\ Total(s) \in Nat
         /\ l * Len(s) <= Total(s) /\ Total(s) <= h * Len(s)
<1>1. Len(s) \in Nat /\ s \in Seq(Nat) /\ \A i \in 1 .. Len(s) : s[i] \in l .. h
  OBVIOUS
<1>2. PICK f \in [0 .. Len(s) -> Nat] :
           /\ f[0] = 0
           /\ \A i \in 1 .. Len(s) : f[i] = f[i - 1] + s[i]
           /\ Total(s) = f[Len(s)]
  BY <1>1, TotalLoop
<1> DEFINE T == {i \in Nat : i <= Len(s) => l * i <= f[i] /\ f[i] <= h * i}
<1>3. 0 \in T
  BY <1>2
<1>4. ASSUME NEW i \in T PROVE i + 1 \in T
  <2> SUFFICES ASSUME i + 1 <= Len(s)
               PROVE  l * (i + 1) <= f[i + 1] /\ f[i + 1] <= h * (i + 1)
    OBVIOUS
  <2>0. i \in Nat /\ i + 1 \in 1 .. Len(s) /\ i \in 0 .. Len(s)
    BY <1>1
  <2>1. f[i] \in Nat /\ s[i + 1] \in l .. h
    BY <1>1, <2>0
  <2>4. l * i <= f[i] /\ f[i] <= h * i
    BY <2>0
  <2>2. f[i + 1] = f[i] + s[i + 1]
    <3>1. f[i + 1] = f[i + 1 - 1] + s[i + 1]
      BY <2>0, <1>2
    <3> QED BY <3>1, <2>0
  <2>3. l * (i + 1) = l * i + l /\ h * (i + 1) = h * i + h /\ l * i \in Nat /\ h * i \in Nat
    BY <2>0
  <2> QED BY <2>1, <2>2, <2>3, <2>4
<1>5. T = Nat
  <2>1. T \in SUBSET Nat
    OBVIOUS
  <2> HIDE DEF T
  <2> QED BY <2>1, <1>3, <1>4, InductiveSet
<1> QED BY <1>1, <1>2, <1>5

(* The least and the greatest element are found whatever the order. *)
LEMMA LowestFound ==
  ASSUME NEW s \in Seq(Nat), s # <<>>
  PROVE  /\ \E k \in DOMAIN s : Lowest(s) = s[k]
         /\ \A j \in DOMAIN s : Lowest(s) <= s[j]
<1> DEFINE n == Len(s)
           S == Nat \cup {None}
           start == None
           turn == [i \in DOMAIN s |->
                      [low \in Nat \cup {None} |->
                         IF low = None \/ s[i] < low THEN s[i] ELSE low]]
<1>1. n \in Nat \ {0} /\ DOMAIN s = 1 .. n /\ start \in S /\ \A i \in 1 .. n : s[i] \in Nat
  OBVIOUS
<1>2. turn \in [1 .. n -> [S -> S]]
  BY <1>1
<1>3. Lowest(s) = Loop(n, start, turn)
  BY DEF Lowest
<1>4. PICK f : Run(f, S, start, n, turn)
  <2> HIDE DEF n, S, start, turn
  <2> QED BY <1>1, <1>2, LoopEnds
<1>5. ASSUME NEW i \in 1 .. n
      PROVE  f[i] = IF f[i - 1] = None \/ s[i] < f[i - 1] THEN s[i] ELSE f[i - 1]
  <2>1. f[i - 1] \in S
    <3> HIDE DEF n, S
    <3> QED BY <1>1, <1>4 DEF Run
  <2>2. turn[i] = [low \in Nat \cup {None} |->
                     IF low = None \/ s[i] < low THEN s[i] ELSE low]
    BY <1>1, Zenon
  <2>3. f[i] = turn[i][f[i - 1]]
    BY <1>4 DEF Run
  <2> QED BY <2>1, <2>2, <2>3, Zenon
<1>6. f[0] = None /\ Lowest(s) = f[n]
  BY <1>3, <1>4 DEF Run
<1> DEFINE T == {i \in Nat : i \in 1 .. n => (\E k \in 1 .. i : f[i] = s[k])
                                             /\ \A j \in 1 .. i : f[i] <= s[j]}
<1> HIDE DEF n, turn
<1>7. ASSUME NEW i \in T PROVE i + 1 \in T
  <2> SUFFICES ASSUME i + 1 \in 1 .. n
               PROVE  /\ \E k \in 1 .. i + 1 : f[i + 1] = s[k]
                      /\ \A j \in 1 .. i + 1 : f[i + 1] <= s[j]
    OBVIOUS
  <2>1. f[i + 1] = IF f[i] = None \/ s[i + 1] < f[i] THEN s[i + 1] ELSE f[i]
    <3>1. f[i + 1] = IF f[i + 1 - 1] = None \/ s[i + 1] < f[i + 1 - 1]
                     THEN s[i + 1] ELSE f[i + 1 - 1]
      BY <1>5
    <3> QED BY <3>1
  <2>2. CASE i = 0
    <3>1. f[1] = s[1]
      BY <2>1, <2>2, <1>6
    <3> QED BY <2>2, <3>1, <1>1
  <2>3. CASE i # 0
    <3>1. i \in 1 .. n
      BY <2>3, <1>1
    <3>2. (\E k \in 1 .. i : f[i] = s[k]) /\ \A j \in 1 .. i : f[i] <= s[j]
      BY <3>1
    <3>3. f[i] \in Nat /\ f[i] # None
      BY <3>1, <3>2, <1>1, NoneAssumption
    <3>4. f[i + 1] \in {s[i + 1], f[i]} /\ f[i + 1] <= s[i + 1] /\ f[i + 1] <= f[i]
          /\ s[i + 1] \in Nat /\ \A j \in 1 .. i : s[j] \in Nat
      BY <2>1, <3>1, <3>3, <1>1
    <3>5. \E k \in 1 .. i + 1 : f[i + 1] = s[k]
      BY <3>1, <3>2, <3>4
    <3>6. ASSUME NEW j \in 1 .. i + 1 PROVE f[i + 1] <= s[j]
      <4>1. j = i + 1 \/ j \in 1 .. i
        BY <3>1
      <4> QED BY <4>1, <3>2, <3>3, <3>4
    <3> QED BY <3>5, <3>6
  <2> QED BY <2>2, <2>3
<1>8. T = Nat
  <2>1. T \in SUBSET Nat /\ 0 \in T
    OBVIOUS
  <2> HIDE DEF T
  <2> QED BY <2>1, <1>7, InductiveSet
<1>9. n \in T
  <2> HIDE DEF T
  <2> QED BY <1>1, <1>8
<1>10. (\E k \in 1 .. n : f[n] = s[k]) /\ \A j \in 1 .. n : f[n] <= s[j]
  <2>1. n \in 1 .. n
    BY <1>1
  <2> QED BY <1>9, <2>1
<1> QED BY <1>1, <1>6, <1>10

LEMMA HighestFound ==
  ASSUME NEW s \in Seq(Nat), s # <<>>
  PROVE  /\ \E k \in DOMAIN s : Highest(s) = s[k]
         /\ \A j \in DOMAIN s : s[j] <= Highest(s)
<1> DEFINE n == Len(s)
           S == Nat \cup {None}
           start == None
           turn == [i \in DOMAIN s |->
                      [high \in Nat \cup {None} |->
                         IF high = None \/ s[i] > high THEN s[i] ELSE high]]
<1>1. n \in Nat \ {0} /\ DOMAIN s = 1 .. n /\ start \in S /\ \A i \in 1 .. n : s[i] \in Nat
  OBVIOUS
<1>2. turn \in [1 .. n -> [S -> S]]
  BY <1>1
<1>3. Highest(s) = Loop(n, start, turn)
  BY DEF Highest
<1>4. PICK f : Run(f, S, start, n, turn)
  <2> HIDE DEF n, S, start, turn
  <2> QED BY <1>1, <1>2, LoopEnds
<1>5. ASSUME NEW i \in 1 .. n
      PROVE  f[i] = IF f[i - 1] = None \/ s[i] > f[i - 1] THEN s[i] ELSE f[i - 1]
  <2>1. f[i - 1] \in S
    <3> HIDE DEF n, S
    <3> QED BY <1>1, <1>4 DEF Run
  <2>2. turn[i] = [high \in Nat \cup {None} |->
                     IF high = None \/ s[i] > high THEN s[i] ELSE high]
    BY <1>1, Zenon
  <2>3. f[i] = turn[i][f[i - 1]]
    BY <1>4 DEF Run
  <2> QED BY <2>1, <2>2, <2>3, Zenon
<1>6. f[0] = None /\ Highest(s) = f[n]
  BY <1>3, <1>4 DEF Run
<1> DEFINE T == {i \in Nat : i \in 1 .. n => (\E k \in 1 .. i : f[i] = s[k])
                                             /\ \A j \in 1 .. i : s[j] <= f[i]}
<1> HIDE DEF n, turn
<1>7. ASSUME NEW i \in T PROVE i + 1 \in T
  <2> SUFFICES ASSUME i + 1 \in 1 .. n
               PROVE  /\ \E k \in 1 .. i + 1 : f[i + 1] = s[k]
                      /\ \A j \in 1 .. i + 1 : s[j] <= f[i + 1]
    OBVIOUS
  <2>1. f[i + 1] = IF f[i] = None \/ s[i + 1] > f[i] THEN s[i + 1] ELSE f[i]
    <3>1. f[i + 1] = IF f[i + 1 - 1] = None \/ s[i + 1] > f[i + 1 - 1]
                     THEN s[i + 1] ELSE f[i + 1 - 1]
      BY <1>5
    <3> QED BY <3>1
  <2>2. CASE i = 0
    <3>1. f[1] = s[1]
      BY <2>1, <2>2, <1>6
    <3> QED BY <2>2, <3>1, <1>1
  <2>3. CASE i # 0
    <3>1. i \in 1 .. n
      BY <2>3, <1>1
    <3>2. (\E k \in 1 .. i : f[i] = s[k]) /\ \A j \in 1 .. i : s[j] <= f[i]
      BY <3>1
    <3>3. f[i] \in Nat /\ f[i] # None
      BY <3>1, <3>2, <1>1, NoneAssumption
    <3>4. f[i + 1] \in {s[i + 1], f[i]} /\ s[i + 1] <= f[i + 1] /\ f[i] <= f[i + 1]
          /\ s[i + 1] \in Nat /\ \A j \in 1 .. i : s[j] \in Nat
      BY <2>1, <3>1, <3>3, <1>1
    <3>5. \E k \in 1 .. i + 1 : f[i + 1] = s[k]
      BY <3>1, <3>2, <3>4
    <3>6. ASSUME NEW j \in 1 .. i + 1 PROVE s[j] <= f[i + 1]
      <4>1. j = i + 1 \/ j \in 1 .. i
        BY <3>1
      <4> QED BY <4>1, <3>2, <3>3, <3>4
    <3> QED BY <3>5, <3>6
  <2> QED BY <2>2, <2>3
<1>8. T = Nat
  <2>1. T \in SUBSET Nat /\ 0 \in T
    OBVIOUS
  <2> HIDE DEF T
  <2> QED BY <2>1, <1>7, InductiveSet
<1>9. n \in T
  <2> HIDE DEF T
  <2> QED BY <1>1, <1>8
<1>10. (\E k \in 1 .. n : f[n] = s[k]) /\ \A j \in 1 .. n : s[j] <= f[n]
  <2>1. n \in 1 .. n
    BY <1>1
  <2> QED BY <1>9, <2>1
<1> QED BY <1>1, <1>6, <1>10

(* Every list can be sorted: an element is as high in the order as there   *)
(* are elements below it, or equal and no later.                           *)
LEMMA CanBeSorted ==
  ASSUME NEW s \in Seq(Nat)
  PROVE  Ascending(s) # {}
<1> DEFINE D == DOMAIN s
           Below(i) == {j \in D : s[j] < s[i] \/ (s[j] = s[i] /\ j <= i)}
           height == [i \in D |-> Cardinality(Below(i))]
<1>1. D = 1 .. Len(s) /\ Len(s) \in Nat /\ \A i \in D : s[i] \in Nat
  OBVIOUS
<1>2. IsFiniteSet(D) /\ Cardinality(D) = Len(s)
  <2>1. IsFiniteSet(1 .. Len(s)) /\ Cardinality(1 .. Len(s)) = Len(s)
    BY <1>1, UpTo
  <2> HIDE DEF D
  <2> QED BY <1>1, <2>1
<1>3. ASSUME NEW i \in D
      PROVE  IsFiniteSet(Below(i)) /\ Cardinality(Below(i)) \in D
  <2>1. Below(i) \in SUBSET D
    OBVIOUS
  <2>2. i \in Below(i)
    BY <1>1
  <2> HIDE DEF Below, D
  <2>3. IsFiniteSet(Below(i)) /\ Cardinality(Below(i)) <= Len(s)
    BY <2>1, <1>2, FS_Subset
  <2>4. Cardinality(Below(i)) \in Nat \ {0}
    BY <2>2, <2>3, FS_CardinalityType, FS_EmptySet
  <2> QED BY <2>3, <2>4, <1>1
<1>4. ASSUME NEW i \in D, NEW k \in D, s[i] < s[k] \/ (s[i] = s[k] /\ i < k)
      PROVE  height[i] < height[k]
  <2>1. Below(i) \subseteq Below(k) /\ k \in Below(k) /\ k \notin Below(i)
    BY <1>1, <1>4
  <2>2. height[i] = Cardinality(Below(i)) /\ height[k] = Cardinality(Below(k))
    OBVIOUS
  <2> HIDE DEF Below, D, height
  <2>3. Below(i) \in SUBSET Below(k) /\ Below(i) # Below(k)
    BY <2>1
  <2>4. Cardinality(Below(i)) <= Cardinality(Below(k))
        /\ Cardinality(Below(k)) # Cardinality(Below(i))
    BY <2>3, <1>3, FS_Subset
  <2>5. Cardinality(Below(i)) \in Nat /\ Cardinality(Below(k)) \in Nat
    BY <1>3, FS_CardinalityType
  <2> QED BY <2>2, <2>4, <2>5
<1>5. height \in [D -> D]
  BY <1>3
<1> HIDE DEF height, Below, D
<1>6. height \in Injection(D, D)
  <2>1. ASSUME NEW i \in D, NEW k \in D, height[i] = height[k] PROVE i = k
    <3> SUFFICES ASSUME i # k PROVE FALSE
      OBVIOUS
    <3>1. i \in Nat /\ k \in Nat /\ s[i] \in Nat /\ s[k] \in Nat
      BY <1>1
    <3>2. \/ s[i] < s[k] \/ (s[i] = s[k] /\ i < k)
          \/ s[k] < s[i] \/ (s[k] = s[i] /\ k < i)
      BY <3>1
    <3>3. height[i] < height[k] \/ height[k] < height[i]
      BY <3>2, <1>4
    <3>4. height[i] \in D
      BY <1>5
    <3>5. D \subseteq Nat
      BY <1>1
    <3>6. height[i] \in Nat
      BY <3>4, <3>5
    <3> QED BY <2>1, <3>3, <3>6
  <2> QED BY <2>1, <1>5 DEF Injection, IsInjective
<1>7. height \in Surjection(D, D)
  BY <1>2, <1>6, FS_Injection
<1> DEFINE p == [m \in D |-> CHOOSE i \in D : height[i] = m]
<1>8. \A m \in D : p[m] \in D /\ height[p[m]] = m
  BY <1>7 DEF Surjection
<1>9. p \in Bijection(D, D)
  <2>1. p \in [D -> D]
    BY <1>8
  <2>2. \A i \in D : height[i] \in D /\ p[height[i]] = i
    <3>1. ASSUME NEW i \in D PROVE height[i] \in D /\ p[height[i]] = i
      <4>1. height[i] \in D
        BY <1>5
      <4>2. p[height[i]] \in D /\ height[p[height[i]]] = height[i]
        BY <4>1, <1>8
      <4> HIDE DEF p
      <4> QED BY <4>1, <4>2, <1>6 DEF Injection, IsInjective
    <3> QED BY <3>1
  <2> HIDE DEF p
  <2>3. p \in Injection(D, D)
    BY <2>1, <1>8 DEF Injection, IsInjective
  <2>4. p \in Surjection(D, D)
    BY <2>1, <2>2 DEF Surjection
  <2> QED BY <2>3, <2>4 DEF Bijection
<1>10. ASSUME NEW i \in D, NEW j \in D, i <= j PROVE s[p[i]] <= s[p[j]]
  <2> HIDE DEF p
  <2>1. /\ p[i] \in D /\ p[j] \in D /\ s[p[i]] \in Nat /\ s[p[j]] \in Nat
        /\ height[p[i]] = i /\ height[p[j]] = j
    BY <1>1, <1>8
  <2>2. s[p[j]] < s[p[i]] => j < i
    BY <2>1, <1>4
  <2>3. i \in Nat /\ j \in Nat
    BY <1>1
  <2> QED BY <1>10, <2>1, <2>2, <2>3
<1> HIDE DEF p
<1>11. p \in Ascending(s)
  BY <1>9, <1>10 DEF Ascending, D
<1> QED BY <1>11

(* Sorted(s) is s in an ascending order. *)
LEMMA SortedInOrder ==
  ASSUME NEW s \in Seq(Nat)
  PROVE  \E p \in Ascending(s) : Sorted(s) = [i \in DOMAIN s |-> s[p[i]]]
<1>1. PICK p \in Ascending(s) : p = CHOOSE q \in Ascending(s) : TRUE
  BY CanBeSorted
<1> QED BY <1>1 DEF Sorted

(* The k-th of the sorted elements has fewer than k elements below it, and *)
(* at least k no higher.                                                   *)
LEMMA SortedRank ==
  ASSUME NEW s \in Seq(Nat), NEW k \in DOMAIN s
  PROVE  /\ \E i \in DOMAIN s : Sorted(s)[k] = s[i]
         /\ Cardinality({i \in DOMAIN s : s[i] < Sorted(s)[k]}) <= k - 1
         /\ k <= Cardinality({i \in DOMAIN s : s[i] <= Sorted(s)[k]})
<1>1. DOMAIN s = 1 .. Len(s) /\ Len(s) \in Nat /\ \A i \in DOMAIN s : s[i] \in Nat
  OBVIOUS
<1>2. PICK p \in Ascending(s) : Sorted(s) = [i \in DOMAIN s |-> s[p[i]]]
  BY SortedInOrder
<1> DEFINE D == DOMAIN s
           v == s[p[k]]
           below == {i \in D : s[i] < v}
           upto == {i \in D : s[i] <= v}
           at == [i \in below |-> CHOOSE m \in D : p[m] = i]
           first == [m \in 1 .. k |-> p[m]]
<1>3. /\ p \in [D -> D]
      /\ \A i, j \in D : p[i] = p[j] => i = j
      /\ \A i \in D : \E m \in D : p[m] = i
      /\ \A i, j \in D : i <= j => s[p[i]] <= s[p[j]]
  BY DEF Ascending, Bijection, Injection, Surjection, IsInjective
<1>4. Sorted(s)[k] = v
  BY <1>2
<1>5. k \in Nat \ {0} /\ D \subseteq Nat /\ 1 .. k \subseteq D /\ p[k] \in D /\ v \in Nat
  <2>1. k \in Nat \ {0} /\ D \subseteq Nat /\ 1 .. k \subseteq D
    BY <1>1
  <2>2. p[k] \in D
    BY <1>3
  <2>3. v \in Nat
    BY <1>1, <2>2
  <2> QED BY <2>1, <2>2, <2>3
<1>6. IsFiniteSet(upto)
  <2>1. IsFiniteSet(D) /\ upto \in SUBSET D
    BY <1>1, UpTo
  <2> QED BY <2>1, FS_Subset
<1>7. at \in Injection(below, 1 .. k - 1)
  <2>1. ASSUME NEW i \in below PROVE at[i] \in 1 .. k - 1 /\ p[at[i]] = i
    <3>1. at[i] \in D /\ p[at[i]] = i
      BY <1>3
    <3>2. s[i] < v /\ s[i] \in Nat
      BY <1>1
    <3> HIDE DEF at, D
    <3>3. k <= at[i] => v <= s[i]
      <4>1. k \in D
        BY DEF D
      <4>2. k <= at[i] => s[p[k]] <= s[p[at[i]]]
        BY <1>3, <3>1, <4>1
      <4> QED BY <3>1, <4>2
    <3>4. at[i] \in Nat /\ 1 <= at[i]
      BY <1>1, <1>5, <3>1 DEF D
    <3> QED BY <1>5, <3>1, <3>2, <3>3, <3>4
  <2>2. at \in [below -> 1 .. k - 1]
    BY <2>1
  <2> HIDE DEF at, below
  <2> QED BY <2>1, <2>2 DEF Injection, IsInjective
<1>8. first \in Injection(1 .. k, upto)
  <2>1. ASSUME NEW m \in 1 .. k PROVE p[m] \in upto
    <3>1. m \in D /\ m <= k
      BY <1>5
    <3>2. p[m] \in D /\ s[p[m]] <= v
      BY <1>3, <3>1
    <3> QED BY <3>2
  <2>2. first \in [1 .. k -> upto]
    BY <2>1
  <2> QED BY <2>2, <1>3, <1>5 DEF Injection, IsInjective
<1> HIDE DEF at, first, below, upto
<1>9. Cardinality(below) <= k - 1
  <2>1. k - 1 \in Nat
    BY <1>5
  <2>2. IsFiniteSet(1 .. k - 1) /\ Cardinality(1 .. k - 1) = k - 1
    BY <2>1, UpTo
  <2>3. Cardinality(below) <= Cardinality(1 .. k - 1)
    BY <2>2, <1>7, FS_Injection
  <2> QED BY <2>2, <2>3
<1>10. k <= Cardinality(upto)
  <2>1. Cardinality(1 .. k) = k
    BY <1>5, UpTo
  <2>2. Cardinality(1 .. k) <= Cardinality(upto)
    BY <1>6, <1>8, FS_Injection
  <2> QED BY <2>1, <2>2
<1> QED BY <1>3, <1>4, <1>9, <1>10 DEF below, upto

(* The sorted elements begin with the lowest and end with the highest. *)
LEMMA SortedEnds ==
  ASSUME NEW s \in Seq(Nat), s # <<>>
  PROVE  Sorted(s)[1] = Lowest(s) /\ Sorted(s)[Len(s)] = Highest(s)
<1>1. DOMAIN s = 1 .. Len(s) /\ Len(s) \in Nat \ {0} /\ \A i \in DOMAIN s : s[i] \in Nat
  OBVIOUS
<1>2. PICK p \in Ascending(s) : Sorted(s) = [i \in DOMAIN s |-> s[p[i]]]
  BY SortedInOrder
<1>3. /\ p \in [DOMAIN s -> DOMAIN s]
      /\ \A i \in DOMAIN s : \E m \in DOMAIN s : p[m] = i
      /\ \A i, j \in DOMAIN s : i <= j => s[p[i]] <= s[p[j]]
  BY DEF Ascending, Bijection, Surjection
<1>4. /\ 1 \in DOMAIN s /\ Len(s) \in DOMAIN s
      /\ \A m \in DOMAIN s : 1 <= m /\ m <= Len(s)
  BY <1>1
<1>5. \A i \in DOMAIN s : s[p[1]] <= s[i] /\ s[i] <= s[p[Len(s)]]
  BY <1>3, <1>4
<1>6. /\ \E i \in DOMAIN s : Lowest(s) = s[i]
      /\ \A j \in DOMAIN s : Lowest(s) <= s[j]
  BY LowestFound
<1>7. /\ \E i \in DOMAIN s : Highest(s) = s[i]
      /\ \A j \in DOMAIN s : s[j] <= Highest(s)
  BY HighestFound
<1>8. p[1] \in DOMAIN s /\ p[Len(s)] \in DOMAIN s
  BY <1>3, <1>4
<1>9. Sorted(s)[1] = s[p[1]] /\ Sorted(s)[Len(s)] = s[p[Len(s)]]
  BY <1>2, <1>4
<1>10. Lowest(s) = s[p[1]]
  <2>1. Lowest(s) <= s[p[1]] /\ s[p[1]] <= Lowest(s) /\ Lowest(s) \in Nat /\ s[p[1]] \in Nat
    BY <1>1, <1>5, <1>6, <1>8
  <2> QED BY <2>1
<1>11. Highest(s) = s[p[Len(s)]]
  <2>1. /\ Highest(s) <= s[p[Len(s)]] /\ s[p[Len(s)]] <= Highest(s)
        /\ Highest(s) \in Nat /\ s[p[Len(s)]] \in Nat
    BY <1>1, <1>5, <1>7, <1>8
  <2> QED BY <2>1
<1> QED BY <1>9, <1>10, <1>11

(* The index that percentile_rtt takes (latency.rs:89) is within the       *)
(* vector it indexes.                                                      *)
THEOREM RankInRange ==
  ASSUME NEW n \in 0 .. 100, NEW len \in Nat \ {0}
  PROVE  Rank(n, len) \in 0 .. len - 1
<1>1. n * (len - 1) \in 0 .. 100 * (len - 1)
  OBVIOUS
<1>2. Round(n * (len - 1), 100) \in 0 .. len - 1
  BY <1>1 DEF Round
<1> QED BY <1>2 DEF Rank

(* It is the rank nearest to n hundredths of the way.                      *)
LEMMA RankIsNearest ==
  ASSUME NEW n \in 0 .. 100, NEW len \in Nat \ {0}
  PROVE  2 * (100 * Rank(n, len) - n * (len - 1)) \in -100 .. 100
<1> DEFINE a == n * (len - 1)
<1>1. a \in 0 .. 100 * (len - 1)
  OBVIOUS
<1>2. CASE n = 0
  BY <1>2 DEF Rank
<1>3. CASE n = 100
  BY <1>3 DEF Rank
<1>4. CASE n # 0 /\ n # 100
  <2>1. Rank(n, len) = Round(a, 100)
    BY <1>4 DEF Rank
  <2> HIDE DEF a
  <2>2. 2 * (100 * Round(a, 100) - a) \in -100 .. 100
    BY <1>1 DEF Round
  <2> QED BY <2>1, <2>2 DEF a
<1> QED BY <1>2, <1>3, <1>4

(* Sums of squares: what (a * x - b) ^ 2 and (high - x) * (x - low) say of *)
(* each element, being at least 0, they say of the sums.                   *)
LEMMA SquareStep ==
  ASSUME NEW a \in Nat, NEW b \in Nat, NEW l \in Nat, NEW h \in Nat,
         NEW i \in Nat, NEW f \in Nat, NEW g \in Nat, NEW x \in l .. h,
         2 * (a * b * f) <= a * a * g + b * b * i,
         g + l * h * i <= (l + h) * f
  PROVE  /\ 2 * (a * b * (f + x)) <= a * a * (g + x * x) + b * b * (i + 1)
         /\ g + x * x + l * h * (i + 1) <= (l + h) * (f + x)
<1>0. x \in Nat /\ h - x \in Nat /\ x - l \in Nat
  OBVIOUS
<1>1. 2 * (a * b * (f + x)) <= a * a * (g + x * x) + b * b * (i + 1)
  <2>1. (a * x - b) * (a * x - b) >= 0
    BY <1>0
  <2>2. (a * x - b) * (a * x - b) = a * a * (x * x) + b * b - 2 * (a * b * x)
    BY <1>0
  <2>3. a * b * (f + x) = a * b * f + a * b * x
    BY <1>0
  <2>4. a * a * (g + x * x) = a * a * g + a * a * (x * x)
    BY <1>0
  <2>5. b * b * (i + 1) = b * b * i + b * b
    BY <1>0
  <2> QED BY <1>0, <2>1, <2>2, <2>3, <2>4, <2>5
<1>2. g + x * x + l * h * (i + 1) <= (l + h) * (f + x)
  <2>1. (h - x) * (x - l) >= 0
    BY <1>0
  <2>2. (h - x) * (x - l) = (l + h) * x - x * x - l * h
    BY <1>0
  <2>3. l * h * (i + 1) = l * h * i + l * h
    BY <1>0
  <2>4. (l + h) * (f + x) = (l + h) * f + (l + h) * x
    BY <1>0
  <2> QED BY <1>0, <2>1, <2>2, <2>3, <2>4
<1> QED BY <1>1, <1>2

LEMMA SquareSums ==
  ASSUME NEW l \in Nat, NEW h \in Nat, NEW s \in Seq(l .. h), NEW a \in Nat, NEW b \in Nat
  PROVE  /\ Total(s) \in Nat /\ Total(Squares(s)) \in Nat
         /\ 2 * (a * b * Total(s)) <= a * a * Total(Squares(s)) + b * b * Len(s)
         /\ Total(Squares(s)) + l * h * Len(s) <= (l + h) * Total(s)
<1>1. Len(s) \in Nat /\ s \in Seq(Nat) /\ \A i \in 1 .. Len(s) : s[i] \in l .. h
  OBVIOUS
<1>2. PICK f \in [0 .. Len(s) -> Nat] :
           /\ f[0] = 0
           /\ \A i \in 1 .. Len(s) : f[i] = f[i - 1] + s[i]
           /\ Total(s) = f[Len(s)]
  BY <1>1, TotalLoop
<1>3. Squares(s) \in Seq(Nat) /\ Len(Squares(s)) = Len(s)
      /\ \A i \in 1 .. Len(s) : Squares(s)[i] = s[i] * s[i]
  <2>1. DOMAIN s = 1 .. Len(s) /\ \A i \in DOMAIN s : s[i] * s[i] \in Nat
    BY <1>1
  <2> QED BY <2>1, <1>1 DEF Squares
<1>4. PICK g \in [0 .. Len(s) -> Nat] :
           /\ g[0] = 0
           /\ \A i \in 1 .. Len(s) : g[i] = g[i - 1] + Squares(s)[i]
           /\ Total(Squares(s)) = g[Len(s)]
  BY <1>3, TotalLoop
<1> DEFINE Holds(i) == /\ 2 * (a * b * f[i]) <= a * a * g[i] + b * b * i
                       /\ g[i] + l * h * i <= (l + h) * f[i]
           T == {i \in Nat : i <= Len(s) => Holds(i)}
<1>5. Holds(0)
  BY <1>2, <1>4
<1>6. ASSUME NEW i \in Nat, i + 1 <= Len(s), Holds(i) PROVE Holds(i + 1)
  <2>1. i + 1 \in 1 .. Len(s) /\ i \in 0 .. Len(s)
    BY <1>1, <1>6
  <2>2. f[i] \in Nat /\ g[i] \in Nat
    BY <2>1
  <2>3. s[i + 1] \in l .. h
    BY <1>1, <2>1
  <2>4. f[i + 1] = f[i + 1 - 1] + s[i + 1] /\ g[i + 1] = g[i + 1 - 1] + s[i + 1] * s[i + 1]
    BY <2>1, <1>2, <1>3, <1>4
  <2>5. f[i + 1] = f[i] + s[i + 1] /\ g[i + 1] = g[i] + s[i + 1] * s[i + 1]
    BY <2>4
  <2>6. /\ 2 * (a * b * (f[i] + s[i + 1])) <= a * a * (g[i] + s[i + 1] * s[i + 1]) + b * b * (i + 1)
        /\ g[i] + s[i + 1] * s[i + 1] + l * h * (i + 1) <= (l + h) * (f[i] + s[i + 1])
    BY <1>6, <2>2, <2>3, SquareStep
  <2> QED BY <2>5, <2>6
<1> HIDE DEF Holds
<1>7. T = Nat
  <2>1. T \in SUBSET Nat /\ 0 \in T
    BY <1>5
  <2>2. \A i \in T : i + 1 \in T
    BY <1>1, <1>6
  <2> HIDE DEF T
  <2> QED BY <2>1, <2>2, InductiveSet
<1>8. Holds(Len(s))
  BY <1>1, <1>7
<1> QED BY <1>1, <1>2, <1>4, <1>8 DEF Holds

(* The variance is not negative, and at most a quarter of the squared      *)
(* distance of the extremes.                                               *)
LEMMA VarianceBounds ==
  ASSUME NEW n \in Nat, NEW f \in Nat, NEW g \in Nat, NEW l \in Nat, NEW h \in Nat,
         2 * (n * f * f) <= n * n * g + f * f * n,
         g + l * h * n <= (l + h) * f, n > 0
  PROVE  /\ n * g - f * f >= 0
         /\ 4 * (n * g - f * f) <= n * n * (h - l) * (h - l)
<1>1. n * g - f * f >= 0
  <2>1. n * n * g = n * (n * g) /\ f * f * n = n * (f * f) /\ n * f * f = n * (f * f)
    OBVIOUS
  <2>2. n * (f * f) <= n * (n * g)
    <3> DEFINE u == n * (f * f)
               w == n * (n * g)
    <3>1. u \in Int /\ w \in Int /\ 2 * u <= w + u
      BY <2>1
    <3> HIDE DEF u, w
    <3>2. u <= w
      BY <3>1
    <3> QED BY <3>2 DEF u, w
  <2> DEFINE d == n * g - f * f
  <2>3. n * d >= 0 /\ d \in Int
    BY <2>2
  <2> HIDE DEF d
  <2>4. d >= 0
    BY <2>3
  <2> QED BY <2>4 DEF d
<1>2. n * (g + l * h * n) <= n * ((l + h) * f)
  OBVIOUS
<1>3. (n * (l + h) - 2 * f) * (n * (l + h) - 2 * f) >= 0
  OBVIOUS
<1>4. (n * (l + h) - 2 * f) * (n * (l + h) - 2 * f)
        = n * n * (h - l) * (h - l) + 4 * (n * (l * h * n)) - 4 * (n * ((l + h) * f)) + 4 * (f * f)
  OBVIOUS
<1>5. n * (g + l * h * n) = n * g + n * (l * h * n)
  OBVIOUS
<1>6. 4 * (n * g - f * f) <= n * n * (h - l) * (h - l)
  <2> DEFINE A == n * g
             B == n * (l * h * n)
             C == n * ((l + h) * f)
             F == f * f
             E == n * n * (h - l) * (h - l)
  <2>1. A \in Int /\ B \in Int /\ C \in Int /\ F \in Int /\ E \in Int
    OBVIOUS
  <2>2. A + B <= C /\ E + 4 * B - 4 * C + 4 * F >= 0
    BY <1>2, <1>3, <1>4, <1>5
  <2> HIDE DEF A, B, C, F, E
  <2>3. 4 * (A - F) <= E
    BY <2>1, <2>2
  <2> QED BY <2>3 DEF A, B, C, F, E
<1> QED BY <1>1, <1>6

(***************************************************************************)
(* The report.                                                             *)
(***************************************************************************)

(* percentile_rtt gives, for any list and any percentage, the order         *)
(* statistic of the nearest rank: at most that many measurements are below *)
(* it, and more are no higher.                                             *)
THEOREM PercentileIsOrderStatistic ==
  ASSUME NEW ms \in Seq(Nat \cup {None}), successful_count(ms) > 0, NEW n \in 0 .. 100
  PROVE  \E rank \in 0 .. successful_count(ms) - 1 :
           /\ NearestRank(n, successful_count(ms), rank)
           /\ Cardinality({i \in DOMAIN rtts(ms) :
                              rtts(ms)[i] < percentile_rtt(n, ms)}) <= rank
           /\ rank < Cardinality({i \in DOMAIN rtts(ms) :
                                     rtts(ms)[i] <= percentile_rtt(n, ms)})
<1> DEFINE found == rtts(ms)
           count == successful_count(ms)
           rank == Rank(n, count)
           k == rank + 1
           v == Sorted(found)[k]
<1>1. found \in Seq(Nat) /\ Len(found) = count
  BY RttsFound
<1>2. found # <<>> /\ count \in Nat \ {0} /\ DOMAIN found = 1 .. count
  BY <1>1
<1>3. percentile_rtt(n, ms) = v
  BY <1>1, <1>2 DEF percentile_rtt
<1>4. rank \in 0 .. count - 1 /\ NearestRank(n, count, rank)
  BY <1>2, RankInRange, RankIsNearest DEF NearestRank
<1> HIDE DEF rank
<1>5. k \in DOMAIN found /\ rank \in Nat /\ k - 1 = rank
  BY <1>2, <1>4
<1> HIDE DEF found, k
<1>6. /\ Cardinality({i \in DOMAIN found : found[i] < v}) <= k - 1
      /\ k <= Cardinality({i \in DOMAIN found : found[i] <= v})
  BY <1>1, <1>5, SortedRank
<1> HIDE DEF v
<1>7. IsFiniteSet({i \in DOMAIN found : found[i] <= v})
  <2>1. IsFiniteSet(DOMAIN found)
    BY <1>2, UpTo
  <2> QED BY <2>1, FS_Subset
<1>8. Cardinality({i \in DOMAIN found : found[i] <= v}) \in Nat
  BY <1>7, FS_CardinalityType
<1>9. rank < Cardinality({i \in DOMAIN found : found[i] <= v})
  BY <1>5, <1>6, <1>8 DEF k
<1> QED BY <1>3, <1>4, <1>5, <1>6, <1>9 DEF found

(* The latency statistics agree with their definitions, whatever was       *)
(* measured.                                                               *)
LEMMA LatencyStatisticsHold ==
  ASSUME Values \in Seq(Nat \cup {None})
  PROVE  LatencyStatistics
<1> DEFINE found == rtts(Values)
           count == successful_count(Values)
           low   == Lowest(found)
           high  == Highest(found)
<1>1. found \in Seq(Nat) /\ Len(found) = count
  BY RttsFound
<1>2. ASSUME count = 0, NEW n \in Percentiles
      PROVE  percentile_rtt(n, Values) = None
  <2>1. found = <<>>
    BY <1>1, <1>2
  <2> QED BY <2>1 DEF percentile_rtt
<1>3. ASSUME count > 0
      PROVE  /\ \A n \in Percentiles : \E rank \in 0 .. count - 1 :
                  /\ NearestRank(n, count, rank)
                  /\ OrderStatistic(rank, percentile_rtt(n, Values))
             /\ percentile_rtt(0, Values) = low /\ percentile_rtt(100, Values) = high
             /\ low * count <= Total(found) /\ Total(found) <= high * count
             /\ variance(Values) >= 0
             /\ 4 * variance(Values) <= count * count * (high - low) * (high - low)
  <2>1. found # <<>> /\ count \in Nat \ {0} /\ DOMAIN found = 1 .. count
    BY <1>1, <1>3
  <2>2. \A n \in 0 .. 100 : percentile_rtt(n, Values) = Sorted(found)[Rank(n, count) + 1]
    BY <1>1, <2>1 DEF percentile_rtt
  <2>3. ASSUME NEW n \in Percentiles
        PROVE  \E rank \in 0 .. count - 1 :
                 /\ NearestRank(n, count, rank)
                 /\ OrderStatistic(rank, percentile_rtt(n, Values))
    <3>1. n \in 0 .. 100
      BY DEF Percentiles
    <3>2. PICK rank \in 0 .. count - 1 :
            /\ NearestRank(n, count, rank)
            /\ Cardinality({i \in DOMAIN found : found[i] < percentile_rtt(n, Values)}) <= rank
            /\ rank < Cardinality({i \in DOMAIN found : found[i] <= percentile_rtt(n, Values)})
      BY <1>1, <1>3, <3>1, PercentileIsOrderStatistic
    <3>3. OrderStatistic(rank, percentile_rtt(n, Values))
      BY <3>2, Zenon DEF OrderStatistic
    <3> QED BY <3>2, <3>3
  <2>4. percentile_rtt(0, Values) = low /\ percentile_rtt(100, Values) = high
    <3>1. Rank(0, count) + 1 = 1 /\ Rank(100, count) + 1 = Len(found)
      BY <1>1, <2>1 DEF Rank
    <3>2. Sorted(found)[1] = low /\ Sorted(found)[Len(found)] = high
      BY <1>1, <2>1, SortedEnds
    <3> QED BY <2>2, <3>1, <3>2
  <2>5. low \in Nat /\ high \in Nat /\ found \in Seq(low .. high)
    <3>1. low \in Nat /\ \A j \in DOMAIN found : low <= found[j]
      BY <1>1, <2>1, LowestFound
    <3>2. high \in Nat /\ \A j \in DOMAIN found : found[j] <= high
      BY <1>1, <2>1, HighestFound
    <3> HIDE DEF found, low, high
    <3>3. \A j \in 1 .. Len(found) : found[j] \in low .. high
      BY <1>1, <3>1, <3>2
    <3> QED BY <1>1, <3>1, <3>2, <3>3
  <2> HIDE DEF low, high
  <2>6. /\ Total(found) \in Nat
        /\ low * count <= Total(found) /\ Total(found) <= high * count
    BY <1>1, <2>5, TotalBounds
  <2>7. /\ Total(Squares(found)) \in Nat
        /\ 2 * (count * Total(found) * Total(found))
             <= count * count * Total(Squares(found)) + Total(found) * Total(found) * count
        /\ Total(Squares(found)) + low * high * count <= (low + high) * Total(found)
    BY <1>1, <2>1, <2>5, <2>6, SquareSums
  <2>8. /\ variance(Values) >= 0
        /\ 4 * variance(Values) <= count * count * (high - low) * (high - low)
    <3>1. variance(Values)
            = count * Total(Squares(found)) - Total(found) * Total(found)
      BY DEF variance
    <3> DEFINE f == Total(found)
               g == Total(Squares(found))
    <3>2. /\ count \in Nat /\ f \in Nat /\ g \in Nat /\ count > 0
          /\ 2 * (count * f * f) <= count * count * g + f * f * count
          /\ g + low * high * count <= (low + high) * f
      BY <1>3, <2>1, <2>6, <2>7
    <3> HIDE DEF found, count, f, g
    <3>3. /\ count * g - f * f >= 0
          /\ 4 * (count * g - f * f) <= count * count * (high - low) * (high - low)
      BY <2>5, <3>2, VarianceBounds
    <3> QED BY <3>1, <3>3 DEF f, g
  <2> QED BY <2>3, <2>4, <2>6, <2>8
<1>4. count > 0 => avg_rtt(Values) = [sum |-> Total(found), count |-> count]
  BY <1>1 DEF avg_rtt
<1>5. min_rtt(Values) = low /\ max_rtt(Values) = high
  BY DEF min_rtt, max_rtt
<1> HIDE DEF found, low, high
<1> QED BY <1>2, <1>3, <1>4, <1>5 DEF LatencyStatistics

(* Every transfer is counted as a success or an error, and successes of    *)
(* one size add up to what was transferred.                                *)
LEMMA ThroughputStatisticsHold ==
  ASSUME Values \in Seq(Nat \cup {None})
  PROVE  ThroughputStatistics
<1>1. successful_count(Values) + dropped_count(Values) = Len(Values)
  BY CountedOnce
<1>2. ASSUME Values # <<>>
      PROVE  success_rate(Values).of = success_rate(Values).successes + total_errors(Values)
  BY <1>1, <1>2 DEF success_rate, total_errors
<1>3. ASSUME NEW size \in Sizes, Values \in Seq({size, None})
      PROVE  bytes_transferred(Values) = success_rate(Values).successes * size
  <2> DEFINE found == rtts(Values)
  <2>1. size \in Nat /\ {size} \in SUBSET Nat /\ {size, None} = {size} \cup {None}
        /\ size .. size = {size}
    BY DataAssumption
  <2>2. found \in Seq({size}) /\ Len(found) = successful_count(Values)
    BY <1>3, <2>1, RttsFound
  <2>3. /\ Total(found) \in Nat
        /\ size * Len(found) <= Total(found) /\ Total(found) <= size * Len(found)
    BY <2>1, <2>2, TotalBounds
  <2>4. Len(found) \in Nat /\ size * Len(found) = Len(found) * size
        /\ Len(found) * size \in Nat
    BY <2>1, <2>2
  <2>5. success_rate(Values).successes = successful_count(Values)
    <3>1. CASE Values = <<>>
      <4>1. DOMAIN Values = {}
        BY <3>1
      <4>2. successful_count(Values) = 0
        BY <4>1, FS_EmptySet DEF successful_count
      <4> QED BY <3>1, <4>2 DEF success_rate
    <3>2. CASE Values # <<>>
      BY <3>2 DEF success_rate
    <3> QED BY <3>1, <3>2
  <2> HIDE DEF found
  <2>6. Total(found) = Len(found) * size
    BY <2>3, <2>4
  <2> QED BY <2>2, <2>5, <2>6 DEF bytes_transferred, found
<1> QED BY <1>2, <1>3 DEF ThroughputStatistics

(* A producer's next measurement goes to the end of the record. *)
LEMMA RecordOne ==
  ASSUME NEW r \in Seq(Measurement), NEW m \in [Producers -> Nat], Sink!OnceInOrder(r, m),
         NEW p \in Producers, NEW o \in Outcomes
  PROVE  Sink!OnceInOrder(Append(r, <<p, m[p] + 1, o>>), [m EXCEPT ![p] = m[p] + 1])
<1> DEFINE e == <<p, m[p] + 1, o>>
           t == Append(r, e)
           c == [m EXCEPT ![p] = m[p] + 1]
           n == Len(r)
<1>1. /\ n \in Nat /\ DOMAIN r = 1 .. n /\ DOMAIN t = 1 .. n + 1
      /\ t[n + 1] = e /\ \A i \in 1 .. n : t[i] = r[i] /\ r[i] \in Measurement
  OBVIOUS
<1>2. e[1] = p /\ e[2] = m[p] + 1 /\ m[p] \in Nat
  OBVIOUS
<1>3. c[p] = m[p] + 1 /\ \A q \in Producers \ {p} : c[q] = m[q]
  OBVIOUS
<1>4. /\ \A q \in Producers : {r[i][2] : i \in {j \in 1 .. n : r[j][1] = q}} = 1 .. m[q]
      /\ \A i, j \in 1 .. n : i < j /\ r[i][1] = r[j][1] => r[i][2] < r[j][2]
  BY <1>1 DEF Sink!OnceInOrder
<1> HIDE DEF e, t, c, n
<1>5. ASSUME NEW q \in Producers
      PROVE  {t[i][2] : i \in {j \in 1 .. n + 1 : t[j][1] = q}} = 1 .. c[q]
  <2>1. 1 .. n + 1 = (1 .. n) \cup {n + 1}
    BY <1>1
  <2>2. CASE q = p
    <3>1. {j \in 1 .. n + 1 : t[j][1] = q} = {j \in 1 .. n : r[j][1] = q} \cup {n + 1}
      BY <1>1, <1>2, <2>1, <2>2
    <3>2. {t[i][2] : i \in {j \in 1 .. n + 1 : t[j][1] = q}}
            = {r[i][2] : i \in {j \in 1 .. n : r[j][1] = q}} \cup {m[p] + 1}
      BY <1>1, <1>2, <3>1
    <3>3. (1 .. m[p]) \cup {m[p] + 1} = 1 .. m[p] + 1
      BY <1>2
    <3> QED BY <1>3, <1>4, <2>2, <3>2, <3>3
  <2>3. CASE q # p
    <3>1. {j \in 1 .. n + 1 : t[j][1] = q} = {j \in 1 .. n : r[j][1] = q}
      BY <1>1, <1>2, <2>1, <2>3
    <3>2. {t[i][2] : i \in {j \in 1 .. n + 1 : t[j][1] = q}}
            = {r[i][2] : i \in {j \in 1 .. n : r[j][1] = q}}
      BY <1>1, <3>1
    <3> QED BY <1>3, <1>4, <2>3, <3>2
  <2> QED BY <2>2, <2>3
<1>6. ASSUME NEW i \in 1 .. n + 1, NEW j \in 1 .. n + 1, i < j, t[i][1] = t[j][1]
      PROVE  t[i][2] < t[j][2]
  <2>1. i \in 1 .. n /\ t[i] = r[i]
    BY <1>1, <1>6
  <2>2. CASE j \in 1 .. n
    BY <1>1, <1>4, <1>6, <2>1, <2>2
  <2>3. CASE j = n + 1
    <3>1. r[i][1] = p /\ t[j][2] = m[p] + 1
      BY <1>1, <1>2, <1>6, <2>1, <2>3
    <3>2. r[i][2] \in {r[k][2] : k \in {k \in 1 .. n : r[k][1] = p}}
      BY <2>1, <3>1
    <3>3. r[i][2] \in 1 .. m[p]
      BY <1>4, <3>2
    <3> QED BY <1>2, <2>1, <3>1, <3>3
  <2> QED BY <1>1, <2>2, <2>3
<1>7. Sink!OnceInOrder(t, c)
  BY <1>1, <1>5, <1>6 DEF Sink!OnceInOrder
<1> QED BY <1>7 DEF t, c, e

(* The record of a sink holds each measurement once, in its maker's order, *)
(* and what is returned is all of it, since nobody adds to it afterwards.  *)
THEOREM SinkIsWhole == Sink!Spec => []Sink!RecordIsWhole
<1> DEFINE log == measurements \o channel
           IsLog == log \in Seq(Measurement) /\ made \in [Producers -> Nat]
           LateResult == Closed # Producers => result = <<>>
           IndInv == IsLog /\ Closed \subseteq Producers /\ LateResult
                     /\ Sink!RecordIsWhole
<1>1. Sink!Init => IndInv
  <2> SUFFICES ASSUME Sink!Init PROVE IndInv
    OBVIOUS
  <2>1. /\ log = <<>> /\ made = [p \in Producers |-> 0] /\ result = <<>>
        /\ Closed \subseteq Producers
    BY DEF Sink!Init
  <2>2. IsLog
    <3> HIDE DEF log
    <3> QED BY <2>1
  <2>3. Sink!OnceInOrder(log, made)
    <3> HIDE DEF log
    <3> QED BY <2>1 DEF Sink!OnceInOrder
  <2> QED BY <2>1, <2>2, <2>3 DEF Sink!RecordIsWhole
<1>2. IndInv /\ [Sink!Next]_Sink!vars => IndInv'
  <2> SUFFICES ASSUME IndInv, [Sink!Next]_Sink!vars PROVE IndInv'
    OBVIOUS
  <2>1. ASSUME NEW p \in Producers, Sink!Record(p) PROVE IndInv'
    <3>1. PICK o \in Outcomes : log' = Append(log, <<p, made[p] + 1, o>>)
      BY <2>1 DEF Sink!Record
    <3>2. /\ made' = [made EXCEPT ![p] = made[p] + 1] /\ Closed' = Closed
          /\ result' = <<>>
      BY <2>1 DEF Sink!Record
    <3>3. Sink!OnceInOrder(log, made) /\ <<p, made[p] + 1, o>> \in Measurement
      BY DEF Sink!RecordIsWhole, Measurement
    <3> HIDE DEF log
    <3>4. Sink!OnceInOrder(log', made')
      BY <3>1, <3>2, <3>3, RecordOne
    <3>5. log' \in Seq(Measurement) /\ made' \in [Producers -> Nat]
      BY <3>1, <3>2, <3>3
    <3> QED BY <3>2, <3>4, <3>5 DEF Sink!RecordIsWhole, log
  <2>2. ASSUME NEW p \in Producers, Sink!Close(p) PROVE IndInv'
    <3>1. log' = log /\ made' = made /\ result' = result /\ Closed' = Closed \cup {p}
          /\ result = <<>>
      BY <2>2 DEF Sink!Close
    <3> QED BY <3>1 DEF Sink!RecordIsWhole
  <2>3. CASE Sink!Return
    <3>1. log' = log /\ made' = made /\ result' = log /\ Closed' = Closed
          /\ Closed = Producers
      BY <2>3 DEF Sink!Return
    <3> QED BY <3>1 DEF Sink!RecordIsWhole
  <2>4. CASE UNCHANGED Sink!vars
    <3>1. log' = log /\ made' = made /\ result' = result /\ Closed' = Closed
      BY <2>4 DEF Sink!vars
    <3> QED BY <3>1 DEF Sink!RecordIsWhole
  <2> QED BY <2>1, <2>2, <2>3, <2>4 DEF Sink!Next
<1> QED BY <1>1, <1>2, PTL DEF Sink!Spec

(* What a test that is over has returned is the collector's vector, and    *)
(* nothing is left in the channel.                                         *)
Returned == main = "returned" => collector = "ended" /\ result = measurements

LEMMA ReturnedStep ==
  ASSUME Inv, Returned, [Next]_vars
  PROVE  Returned'
<1>1. CASE Finish
  BY <1>1 DEF Finish, Returned
<1>2. CASE Collect
  BY <1>2 DEF Collect, Returned, control
<1>3. CASE CollectorEnds
  BY <1>3 DEF CollectorEnds, Returned, control, data
<1>4. CASE Probe \/ SpawnDone \/ JoinAll \/ \E t \in Tasks : SpawnTask(t)
  <2>1. main' # "returned"
    BY <1>4 DEF Probe, StartProbe, ProbeAnswered, ProbeFails, ProbeTimesOut, Record,
       SetUpFails, PauseOver, ProbesDone, SpawnDone, JoinAll, SpawnTask
  <2> QED BY <2>1 DEF Returned
<1>5. CASE \/ ProgressEnds \/ Tick \/ Finished \/ UNCHANGED vars
           \/ \E t \in Tasks : Connection(t)
  <2>1. UNCHANGED <<main, collector, measurements, result>>
    BY <1>5 DEF ProgressEnds, Tick, Finished, Connection, Connected, ConnectFails,
       Transfer, TransferFails, TaskEnds, vars, control, data
  <2> QED BY <2>1 DEF Returned
<1> QED BY <1>1, <1>2, <1>3, <1>4, <1>5 DEF Next, MainTask

(* A test that is over returned every measurement of every task: as many   *)
(* of each as it made.                                                     *)
LEMMA CountsAgree ==
  ASSUME Inv, Returned, Sink!RecordIsWhole, main = "returned", NEW p \in Producers
  PROVE  Cardinality({i \in DOMAIN result : result[i][1] = p}) = made[p]
<1> DEFINE from == {i \in DOMAIN result : result[i][1] = p}
           index == [i \in from |-> result[i][2]]
<1>1. result \in Seq(Measurement) /\ made[p] \in Nat
  BY DEF Inv, TypeOK
<1>2. measurements \o channel = result
  <2>1. channel = <<>> /\ result = measurements
    BY DEF Inv, Returned, CollectorStopsLast
  <2> QED BY <1>1, <2>1
<1>3. Sink!OnceInOrder(result, made)
  BY <1>2 DEF Sink!RecordIsWhole
<1>4. {result[i][2] : i \in from} = 1 .. made[p]
  BY <1>3 DEF Sink!OnceInOrder
<1>5. index \in [from -> 1 .. made[p]]
  BY <1>4
<1>6. index \in Surjection(from, 1 .. made[p])
  BY <1>4, <1>5 DEF Surjection
<1>7. index \in Injection(from, 1 .. made[p])
  <2>1. ASSUME NEW i \in from, NEW j \in from, index[i] = index[j] PROVE i = j
    <3>1. i \in Nat /\ j \in Nat /\ result[i][2] = result[j][2] /\ result[i][1] = result[j][1]
      BY <1>1, <2>1
    <3>2. result[i][2] \in Nat
      BY <1>1 DEF Measurement
    <3>3. ~(i < j) /\ ~(j < i)
      BY <1>3, <3>1, <3>2 DEF Sink!OnceInOrder
    <3> QED BY <3>1, <3>3
  <2> QED BY <1>5, <2>1 DEF Injection, IsInjective
<1> HIDE DEF from, index
<1>8. IsFiniteSet(1 .. made[p]) /\ Cardinality(1 .. made[p]) = made[p]
  BY <1>1, UpTo
<1>9. Cardinality(from) = Cardinality(1 .. made[p])
  BY <1>6, <1>7, <1>8, FS_Injection
<1> QED BY <1>8, <1>9 DEF from

(* What the report prints of a finished test agrees with the tasks that    *)
(* measured and with the definitions of its statistics.                    *)
THEOREM ReportIsRight == Spec => []ReportAgrees
<1>1. Init => Returned
  BY DEF Init, Returned
<1>2. Inv /\ Returned /\ [Next]_vars => Returned'
  BY ReturnedStep
<1>3. Inv /\ Returned /\ Sink!RecordIsWhole => ReportAgrees
  <2> SUFFICES ASSUME Inv, Returned, Sink!RecordIsWhole, main = "returned"
               PROVE  /\ \A p \in Producers :
                           Cardinality({i \in DOMAIN result : result[i][1] = p}) = made[p]
                      /\ successful_count(Values) + dropped_count(Values) = Len(result)
                      /\ IF Latency THEN LatencyStatistics ELSE ThroughputStatistics
    BY DEF ReportAgrees
  <2>1. Values \in Seq(Nat \cup {None}) /\ Len(Values) = Len(result)
    <3>1. result \in Seq(Measurement)
      BY DEF Inv, TypeOK
    <3>2. Outcomes \subseteq Nat \cup {None}
      BY DataAssumption DEF Outcomes
    <3>3. \A i \in DOMAIN result : result[i][3] \in Outcomes
      <4>1. \A i \in DOMAIN result : result[i] \in Measurement
        BY <3>1
      <4> QED BY <4>1 DEF Measurement
    <3>4. DOMAIN result = 1 .. Len(result) /\ Len(result) \in Nat
      BY <3>1
    <3>5. \A i \in DOMAIN result : result[i][3] \in Nat \cup {None}
      BY <3>2, <3>3
    <3> QED BY <3>4, <3>5 DEF Values
  <2>2. successful_count(Values) + dropped_count(Values) = Len(result)
    BY <2>1, CountedOnce
  <2> QED BY <2>1, <2>2, CountsAgree, LatencyStatisticsHold, ThroughputStatisticsHold
<1>4. Spec => []Sink!RecordIsWhole
  BY Refinement, SinkIsWhole DEF ImplementsSink
<1> QED BY <1>1, <1>2, <1>3, <1>4, Invariance, PTL DEF Spec
=============================================================================
