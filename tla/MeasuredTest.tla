----------------------------- MODULE MeasuredTest -----------------------------
(***************************************************************************)
(* A test and the collector of its measurements: the latency tests of the  *)
(* three clients, and run_upload_test and run_download_test of the TCP and *)
(* HTTP clients.                                                           *)
(*                                                                         *)
(* A throughput test spawns one task per connection, each with a clone of  *)
(* the collector's sender; in a latency test the main task measures        *)
(* itself.  The collector task drains the unbounded channel into a shared  *)
(* vector, the progress task runs for the duration, and finish() joins     *)
(* both and clones the vector.  The collector stops when the channel is    *)
(* empty and its last sender is gone, so the order in which the main task  *)
(* joins, drops its own sender and calls finish() decides whether the test *)
(* ends at all and whether it returns every measurement.                   *)
(*                                                                         *)
(* Abstractions.  A measurement is its maker, its index and what it        *)
(* measured: an RTT, the bytes moved, or None.  The vector's mutex is held *)
(* for one push or one clone, so each is one step; the progress display    *)
(* only reads.  Time is counted in ticks and passes while somebody waits.  *)
(***************************************************************************)
EXTENDS Statistics

CONSTANTS
  Tasks,         \* the connections 0 .. parallel_connections - 1
  Main,          \* the main task, which makes the measurements of a latency test
  Rtts,          \* round trips to consider, finer than a tick
  Sizes,         \* bytes one read or write can move
  Duration,      \* length of the test
  Pause,         \* between two probes (100 ms)
  ProbeTimeout,  \* how long a UDP probe waits for its answer (1 s)
  MaxTime,       \* bound: a probe is waited for no later than this
  MaxMade,       \* bound: measurements of one connection
  MaxProbes      \* bound: probes of a latency test

ASSUME TasksAssumption == IsFiniteSet(Tasks) /\ Main \notin Tasks
ASSUME DataAssumption == Rtts \subseteq Nat /\ Sizes \subseteq Nat
ASSUME TimeAssumption ==
  /\ Duration \in Nat /\ Pause \in Nat \ {0} /\ ProbeTimeout \in Nat
  /\ MaxTime \in Nat /\ MaxMade \in Nat /\ MaxProbes \in Nat

VARIABLES
  mode,          \* which test this is
  main,          \* where the main task is
  task,          \* where each connection task is
  made,          \* measurements a producer has sent
  main_tx,       \* the main task still holds its sender
  channel,       \* the unbounded channel
  measurements,  \* the collector's shared vector
  collector,     \* the collector task
  progress,      \* the progress task
  elapsed,       \* start.elapsed()
  since,         \* when the probe or the pause of a latency test began
  not_set_up,    \* history: UDP probes whose socket could not be made
  result         \* what finish() returned

control == <<mode, main, task>>
data    == <<channel, measurements, result>>
time    == <<elapsed, since>>
vars    == <<control, made, main_tx, data, collector, progress, time, not_set_up>>

Latency == mode \in {"tcp_latency", "udp_latency", "http_latency"}

(* An HTTP task has no connection of its own to make. *)
Http == mode \in {"http_upload", "http_download"}

Modes == {"tcp_latency", "udp_latency", "http_latency",
          "upload", "download", "http_upload", "http_download"}

Producers == Tasks \cup {Main}

(* Tasks that hold a clone of the sender. *)
Senders == {t \in Tasks : task[t] \in {"connecting", "running", "broken"}}

Outcomes == Rtts \cup Sizes \cup {None}

Room(p) == made[p] < (IF p = Main THEN MaxProbes ELSE MaxMade)

over == elapsed >= Duration

Init ==
  /\ mode \in Modes
  /\ main = (IF Latency THEN "probing" ELSE "spawning") /\ main_tx = TRUE
  /\ task = [t \in Tasks |-> "unspawned"]
  /\ made = [p \in Producers |-> 0]
  /\ channel = <<>> /\ measurements = <<>>
  /\ collector = "running" /\ progress = "running"
  /\ elapsed = 0 /\ since = 0 /\ not_set_up = 0 /\ result = <<>>

(* Mutant: the measurement is numbered before the count is advanced. *)
SendStaleIndex(p, outcomes) ==
  /\ Room(p)
  /\ made' = [made EXCEPT ![p] = made[p] + 1]
  /\ \E o \in outcomes : channel' = Append(channel, <<p, made[p], o>>)

(* The measurement goes to the collector; the channel never refuses it. *)
Send(p, outcomes) ==
  /\ Room(p)
  /\ made' = [made EXCEPT ![p] = made[p] + 1]
  /\ \E o \in outcomes : channel' = Append(channel, <<p, made[p] + 1, o>>)

(***************************************************************************)
(* The probes of a latency test.                                           *)
(***************************************************************************)
StartProbe ==
  /\ main = "probing" /\ ~over /\ Room(Main)
  /\ main' = "waiting" /\ since' = elapsed
  /\ UNCHANGED <<mode, task, made, main_tx, data, collector, progress, elapsed,
                 not_set_up>>

(* The outcome is recorded and the pause begins. *)
Record(outcomes) ==
  /\ main = "waiting"
  /\ Send(Main, outcomes)
  /\ main' = "pausing" /\ since' = elapsed
  /\ UNCHANGED <<mode, task, main_tx, measurements, result, collector, progress,
                 elapsed, not_set_up>>

(* The connection is made, a datagram comes back, or a response. *)
ProbeAnswered == Record(Rtts)

(* The connection, the send or the request fails, or what comes back is no *)
(* STP packet.                                                             *)
ProbeFails == Record({None})

ProbeTimedOut == mode = "udp_latency" /\ elapsed >= since + ProbeTimeout

ProbeTimesOut == ProbeTimedOut /\ Record({None})

(* StpClient::new fails: `continue` skips the pause. *)
SetUpFails ==
  /\ mode = "udp_latency" /\ main = "waiting"
  /\ Send(Main, {None})
  /\ not_set_up' = not_set_up + 1
  /\ main' = "probing"
  /\ UNCHANGED <<mode, task, main_tx, measurements, result, collector, progress,
                 time>>

(* Mutant: the pause is over at once. *)
PauseIsOverAtOnce == TRUE

PauseIsOver == elapsed >= since + Pause

PauseOver ==
  /\ main = "pausing" /\ PauseIsOver
  /\ main' = "probing"
  /\ UNCHANGED <<mode, task, made, main_tx, data, collector, progress, time,
                 not_set_up>>

(* The loop ends: drop(tx). *)
ProbesDone ==
  /\ main = "probing" /\ over
  /\ main_tx' = FALSE
  /\ main' = "finishing"
  /\ UNCHANGED <<mode, task, made, data, collector, progress, time, not_set_up>>

Probe == StartProbe \/ ProbeAnswered \/ ProbeFails \/ ProbeTimesOut \/ SetUpFails
         \/ PauseOver \/ ProbesDone

(***************************************************************************)
(* The main task of a throughput test.                                     *)
(***************************************************************************)
SpawnTask(t) ==
  /\ main = "spawning" /\ task[t] = "unspawned"
  /\ task' = [task EXCEPT ![t] = IF Http THEN "running" ELSE "connecting"]
  /\ UNCHANGED <<mode, main, made, main_tx, data, collector, progress, time,
                 not_set_up>>

SpawnDone ==
  /\ main = "spawning" /\ \A t \in Tasks : task[t] # "unspawned"
  /\ main' = "joining"
  /\ UNCHANGED <<mode, task, made, main_tx, data, collector, progress, time,
                 not_set_up>>

(* Mutant: finish() is called while the main task still holds its sender. *)
JoinAllKeepsSender ==
  /\ main = "joining" /\ \A t \in Tasks : task[t] = "ended"
  /\ main' = "finishing"
  /\ UNCHANGED <<mode, task, made, main_tx, data, collector, progress, time,
                 not_set_up>>

(* join_all(tasks), then drop(tx). *)
JoinAll ==
  /\ main = "joining" /\ \A t \in Tasks : task[t] = "ended"
  /\ main_tx' = FALSE
  /\ main' = "finishing"
  /\ UNCHANGED <<mode, task, made, data, collector, progress, time, not_set_up>>

(* finish(), of either collector: join both tasks, then clone the vector. *)
Finish ==
  /\ main = "finishing" /\ collector = "ended" /\ progress = "ended"
  /\ result' = measurements
  /\ main' = "returned"
  /\ UNCHANGED <<mode, task, made, main_tx, channel, measurements, collector,
                 progress, time, not_set_up>>

(***************************************************************************)
(* A connection task.                                                      *)
(***************************************************************************)

(* TcpStream::connect and the command byte. *)
Connected(t) ==
  /\ task[t] = "connecting"
  /\ task' = [task EXCEPT ![t] = "running"]
  /\ UNCHANGED <<mode, main, made, main_tx, data, collector, progress, time,
                 not_set_up>>

(* Either fails: the task returns without a measurement. *)
ConnectFails(t) ==
  /\ task[t] = "connecting"
  /\ task' = [task EXCEPT ![t] = "ended"]
  /\ UNCHANGED <<mode, main, made, main_tx, data, collector, progress, time,
                 not_set_up>>

(* What a failed transfer does to the loop: nothing in these tests, while  *)
(* it breaks that of a TCP upload and of an HTTP download.                 *)
CarriesOn == mode \in {"download", "http_upload"}

(* A transfer completes, or fails where the loop carries on. *)
Transfer(t) ==
  /\ task[t] = "running"
  /\ Send(t, IF CarriesOn THEN Sizes \cup {None} ELSE Sizes)
  /\ UNCHANGED <<control, main_tx, measurements, result, collector, progress,
                 time, not_set_up>>

(* A failed transfer is measured and breaks the loop. *)
TransferFails(t) ==
  /\ ~CarriesOn /\ task[t] = "running"
  /\ Send(t, {None})
  /\ task' = [task EXCEPT ![t] = "broken"]
  /\ UNCHANGED <<mode, main, main_tx, measurements, result, collector, progress,
                 time, not_set_up>>

(* The loop's time is up, it was broken, or the server closed a download:  *)
(* the task ends and drops its sender.                                     *)
TaskEnds(t) ==
  /\ \/ task[t] = "broken"
     \/ task[t] = "running" /\ (over \/ mode = "download")
  /\ task' = [task EXCEPT ![t] = "ended"]
  /\ UNCHANGED <<mode, main, made, main_tx, data, collector, progress, time,
                 not_set_up>>

(***************************************************************************)
(* The collector and progress tasks, and the clock.                        *)
(***************************************************************************)

(* Mutant: the channel is read from its newest end. *)
CollectNewest ==
  /\ collector = "running" /\ channel # <<>>
  /\ measurements' = Append(measurements, channel[Len(channel)])
  /\ channel' = SubSeq(channel, 1, Len(channel) - 1)
  /\ UNCHANGED <<control, made, main_tx, result, collector, progress, time,
                 not_set_up>>

Collect ==
  /\ collector = "running" /\ channel # <<>>
  /\ measurements' = Append(measurements, Head(channel))
  /\ channel' = Tail(channel)
  /\ UNCHANGED <<control, made, main_tx, result, collector, progress, time,
                 not_set_up>>

ChannelClosed == channel = <<>> /\ ~main_tx /\ Senders = {}

(* recv() returns None. *)
CollectorEnds ==
  /\ collector = "running" /\ ChannelClosed
  /\ collector' = "ended"
  /\ UNCHANGED <<control, made, main_tx, data, progress, time, not_set_up>>

ProgressEnds ==
  /\ progress = "running" /\ over
  /\ progress' = "ended"
  /\ UNCHANGED <<control, made, main_tx, data, collector, time, not_set_up>>

Tick ==
  /\ main = "waiting" => elapsed < MaxTime
  /\ ~over \/ main \in {"waiting", "pausing"}
  /\ ~(main = "waiting" /\ ProbeTimedOut) /\ ~(main = "pausing" /\ PauseIsOver)
  /\ elapsed' = elapsed + 1
  /\ UNCHANGED <<control, made, main_tx, data, collector, progress, since,
                 not_set_up>>

Finished == main = "returned" /\ UNCHANGED vars

MainTask == SpawnDone \/ JoinAll \/ Finish \/ \E t \in Tasks : SpawnTask(t)

Connection(t) == Connected(t) \/ ConnectFails(t) \/ Transfer(t) \/ TransferFails(t)
                 \/ TaskEnds(t)

Next == \/ Probe \/ MainTask \/ Collect \/ CollectorEnds \/ ProgressEnds \/ Tick
        \/ (\E t \in Tasks : Connection(t))
        \/ Finished

Spec == Init /\ [][Next]_vars

(* Tasks are polled when they can move and the clock advances.  Of the     *)
(* network only this is assumed: a TCP connect comes to an end, and a peer *)
(* that keeps a connection open answers, since neither connect, read nor   *)
(* write has a timeout.  A UDP probe has one, and nothing is assumed of    *)
(* it; an HTTP request has one, which is its failure here.                 *)
LiveSpec ==
  /\ Spec
  /\ WF_vars(StartProbe \/ PauseOver \/ ProbesDone \/ ProbeTimesOut)
  /\ WF_vars(mode # "udp_latency" /\ (ProbeAnswered \/ ProbeFails))
  /\ WF_vars(MainTask) /\ WF_vars(Collect) /\ WF_vars(CollectorEnds)
  /\ WF_vars(ProgressEnds) /\ WF_vars(Tick)
  /\ \A t \in Tasks : WF_vars(Connected(t) \/ ConnectFails(t)) /\ WF_vars(TaskEnds(t))

(***************************************************************************)
(* Properties.                                                             *)
(***************************************************************************)

Measurement == Producers \X (Nat \ {0}) \X Outcomes

(* Every variable has its type, and channel and vector hold measurements. *)
TypeOK ==
  /\ mode \in Modes
  /\ main \in IF Latency
              THEN {"probing", "waiting", "pausing", "finishing", "returned"}
              ELSE {"spawning", "joining", "finishing", "returned"}
  /\ main_tx \in BOOLEAN
  /\ task \in [Tasks -> {"unspawned", "connecting", "running", "broken", "ended"}]
  /\ made \in [Producers -> Nat]
  /\ channel \in Seq(Measurement) /\ measurements \in Seq(Measurement)
  /\ result \in Seq(Measurement)
  /\ collector \in {"running", "ended"} /\ progress \in {"running", "ended"}
  /\ elapsed \in Nat /\ since \in 0 .. elapsed /\ not_set_up \in Nat

(* The test implements the promise of MeasurementSink: the record is what  *)
(* the collector has stored followed by what is still in the channel.  The *)
(* producers of the other kind of test are closed from the start.          *)
Closed ==
  IF Latency THEN Tasks \cup (IF main_tx THEN {} ELSE {Main})
  ELSE {Main} \cup {t \in Tasks : task[t] = "ended"}

Sink == INSTANCE MeasurementSink WITH
          Producers <- Producers,
          closed    <- Closed,
          log       <- measurements \o channel

ImplementsSink == Sink!Spec

(* Probes are spaced: however they end, at most one is started per Pause,  *)
(* but for those whose socket could not be made, which come back without a *)
(* pause (udp/client.rs:339).                                              *)
ProbesAreSpaced ==
  Latency => Pause * (made[Main] - not_set_up - 1) <= elapsed

(* What the report prints of the returned measurements agrees with the     *)
(* tasks that made them and with the definitions: every measurement is     *)
(* counted once, as a success or an error; a percentile is the order       *)
(* statistic of the rank nearest to that part of the way from the smallest *)
(* to the largest RTT; the mean lies between these two, and the variance   *)
(* is within a quarter of their squared distance.                          *)
Values == [i \in DOMAIN result |-> result[i][3]]

OrderStatistic(rank, v) ==
  LET found == rtts(Values)
  IN  /\ Cardinality({i \in DOMAIN found : found[i] < v}) <= rank
      /\ rank < Cardinality({i \in DOMAIN found : found[i] <= v})

NearestRank(n, len, rank) ==
  /\ rank \in 0 .. len - 1
  /\ 2 * (100 * rank - n * (len - 1)) \in -100 .. 100

Percentiles == {0, 25, 50, 75, 100}

LatencyStatistics ==
  LET count == successful_count(Values)
      low   == min_rtt(Values)
      high  == max_rtt(Values)
      mean  == avg_rtt(Values)
  IN  /\ count = 0 => \A n \in Percentiles : percentile_rtt(n, Values) = None
      /\ count > 0 =>
           /\ \A n \in Percentiles : \E rank \in 0 .. count - 1 :
                /\ NearestRank(n, count, rank)
                /\ OrderStatistic(rank, percentile_rtt(n, Values))
           /\ percentile_rtt(0, Values) = low /\ percentile_rtt(100, Values) = high
           /\ low * mean.count <= mean.sum /\ mean.sum <= high * mean.count
           /\ variance(Values) >= 0
           /\ 4 * variance(Values) <= count * count * (high - low) * (high - low)

ThroughputStatistics ==
  LET rate == success_rate(Values)
  IN  /\ Values # <<>> => rate.of = rate.successes + total_errors(Values)
      /\ \A size \in Sizes : Values \in Seq({size, None})
                               => bytes_transferred(Values) = rate.successes * size

ReportAgrees ==
  main = "returned" =>
    /\ \A p \in Producers :
         Cardinality({i \in DOMAIN result : result[i][1] = p}) = made[p]
    /\ successful_count(Values) + dropped_count(Values) = Len(result)
    /\ IF Latency THEN LatencyStatistics ELSE ThroughputStatistics

(* The test returns: finish() never waits for a sender that is not         *)
(* dropped, and no probe waits for ever.                                   *)
TestReturns == <>(main = "returned")
=============================================================================
