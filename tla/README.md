# speed-cli: TLA+ models, model checking and proofs

`speed-cli` is a network performance tester. One binary runs as a server (TCP,
UDP, HTTP, HTTPS) or as a client that measures latency, download and upload
throughput against such a server and writes a JSON, CBOR
or HTML report, which it reads back on demand. This directory holds TLA+ models of the parts whose correctness depends on order,
loss, failure, time or shared state, the TLC runs that check them on small
instances, and TLAPS proofs of the main results for every instance.

Code paths are relative to `src/src/`. The release build is modelled: unsigned
subtraction wraps there and panics in a debug build.

## 1. Inventory

| Component | Code | State | Operations |
|---|---|---|---|
| STP upload session | `performance/udp/client.rs`, `protocol.rs`, `server.rs` | packet numbers, `in_flight`, `largest_acked`, byte and packet accounts, window; per client: `StpClientState` | `run_upload_test`, `send_data`, `process_ack`, `on_ack_received`, `handle_stp_packet` |
| STP download session | `udp/client.rs`, `udp/server.rs` | `download_mode`, burst and `remaining_bytes`, time of the last datagram | `run_download_test`, `handle_stp_packet` |
| STP latency probe | `udp/client.rs` | none between probes | `measure_udp_latency` |
| BBR and pacing | `udp/congestion.rs`, `udp/pacing.rs` | phase, gain cycle, bandwidth and RTT filters, window; the pacer's copy of the rate and its last send time | `on_packet_sent`, `on_ack_received`, `on_packet_lost`, `schedule_next_send`, `update_rate`, `PacedSend` |
| TCP server | `tcp/server.rs` | semaphore, `active_connections` and its copy in the metrics, broadcast channel | `run`, `ProductionTcpHandler::handle`, `shutdown` |
| TCP connection timers and limits | `tcp/server.rs` | `ConnectionStats`, the timers of each `select!` | `handle_upload`, `handle_download` |
| TCP throughput tests | `tcp/client.rs` | one task per connection, channel senders | `run_download_test`, `run_upload_test` |
| TCP latency, test order | `tcp/client.rs` | none between tests | `measure_tcp_latency`, `run_tcp_client` |
| Collectors | `utils/instrumentation.rs` | channel, shared vector, collector and progress tasks | `ThroughputStatsCollector`, `LatencyStatsCollector` |
| HTTP client and server | `http/client.rs`, `http/server.rs` | the request in progress | `download_chunk`, `upload_chunk`, `measure_http_latency`, the handlers |
| Dispatch, start-up | `main.rs`, `cli/` | join handles of the servers | choose the client or start the servers, join, export |
| Report and statistics | `report/` | pure data | averages, percentiles, variance, success rates, error counts |
| Export and import | `utils/export.rs`, `import.rs`, `file.rs` | files | serialise, reload |
| Rendering, formatting, TLS set-up | `renderer/`, `utils/format.rs`, `utils/tls.rs` | none | text output, certificate loading |

How they interact:

* The UDP client and server share nothing but a network that loses and
  reorders. The server acknowledges each datagram with that datagram's own
  number; the client reads the number as cumulative (`protocol.rs:199`).
* `StpClient` calls the congestion controller for each datagram sent,
  acknowledged or lost and asks it for the window before each send. It copies
  the controller's rate into the pacer, which may hold the next send.
* The TCP accept loop and its handlers share a semaphore, atomics and a
  broadcast channel. `shutdown()` sends on the channel and polls one atomic.
* The tasks of a throughput test, or the loop of a latency test, share one
  unbounded channel with a collector, which shares a vector with the progress
  task. `finish()` joins both and returns the vector, and the report's
  statistics are computed from it.
* `main` starts these parts, joins them and hands the result to the exporter.

What is hard here is listed under "hazards" in `PROJECT.json`, one entry per
line of code. In short: lost and reordered datagrams against cumulative
acknowledgement; an unsigned subtraction; resends that bypass the window and
fail half way; a wall clock used for timeouts; losses that are noticed only
when something arrives; a command that is sent once; `select!` loops that
restart every timer and drop half-done writes; early returns that must give
back permits and counts; a shutdown that races with handlers not yet
subscribed; joins that end only if all senders go away; a bandwidth that may
be infinite; a second copy of a rate that can go stale; a wait that looks at
neither the clock nor the socket; payloads cut into chunks by both sides; an
index made by rounding.

What makes each component correct:

* STP upload: the accounts balance, packet numbers are fresh, acknowledged
  numbers were received, the window bounds what is outstanding, the test ends.
* STP download: nothing is measured that was not sent, silence is reported in
  time and once, the server returns to its socket, the test ends.
* BBR and pacing: the window stays in its clamp, a phase starts for its own
  reason only, the pacer has the controller's rate, pacing delays the end of a
  test by no more than a datagram.
* TCP server: a connection is refused only when the server is full or closing,
  no capacity is lost, the active count is exact, the limit holds, `shutdown()` returns and reaches the handlers.
* TCP connection: idle connections end in time, the byte limit is kept, the
  count is honest.
* Throughput tests and collectors: the result has each measurement once, in
  its task's order, probes keep their distance, and the test returns.
* HTTP: uploads claim what was read or was answered with OK, bodies have their
  length, overruns are bounded.
* Statistics: percentiles and averages agree with their definitions.
* Commands and reports: a report on disk is complete, an earlier report is not
  lost to a failed test, a client saves its report, what was exported can be
  read.

## 2. Plan

The order was: the STP upload, which has the hardest protocol; the TCP server,
which has the shared state, with an abstract specification; the collectors, with another;
the timers of a TCP connection; the STP download; the congestion controller;
the HTTP transfer; the commands; and then the pacer with the controller, the
latency tests with the collectors, and the statistics of a report.

| Component | Specification | Composed with | Proofs |
|---|---|---|---|
| STP upload | `StpUpload` | server and network inside | `StpUpload_proofs` |
| STP download | `StpDownload` | server and network inside | `StpDownload_proofs` |
| BBR, pacing | `Bbr` (operators), `StpPacing` | `StpPacing` extends `Bbr` | `StpPacing_proofs` |
| TCP server | `TcpServer`, abstractly `Admission`; `TcpConnection` | | `TcpServer_proofs`, `TcpConnection_proofs` |
| Tests and collectors | `MeasuredTest`, abstractly `MeasurementSink` | `Statistics`, of what a test returns | `MeasuredTest_proofs` |
| HTTP | `HttpTransfer` | client and handler inside | `HttpTransfer_proofs` |
| Commands and reports | `TestRunner` | | `TestRunner_proofs` |

Left for later: the server command of `main` (section 7); `TcpServer` composed
with `TcpConnection` through the end of a transfer; the refinement of the
choice `window' \in Windows` of `StpUpload` by `Bbr`, of which
`PacingTypeOK` shows the part that `StpUpload` relies on.

## 3. Modules and the code

`MC_*` modules give values that a `.cfg` cannot express. `*_proofs` modules
hold the theorems. "History" variables record what happened and are read only
by properties.

### StpUpload

One client, the server and the network. `pc` is the place in
`run_upload_test`: loop head, pacing wait, waiting for an ACK, resend loop,
done.

| Actions | Code |
|---|---|
| `ScheduleSend`, `SendData`, `SendDataFails` | `send_data`, split at the pacing wait because the number is taken before it and the send time after it |
| `LoopBlocked`, `RecvTimeout`, `LoopExit` | the other branches of the loop |
| `RecvAck` with `ProcessAck` | `process_ack` and `LossRecovery::on_ack_received`, up to the first resend |
| `Retransmit`, `RetransmitFails` | one turn of the resend loop; `?` leaves `process_ack` and forgets the remaining lost datagrams |
| `ServerReceive` with `HandleStpPacket` | `handle_stp_packet` outside download mode |
| `Deliver`, `LoseData`, `LoseAck` | the network loses, reorders and duplicates |
| `Tick`, `ClockStep` | time passes; the wall clock is set back |

All datagrams of an upload have one length, so bytes are counted in datagrams.
The controller is the set of windows its clamp allows, chosen again wherever
the code recomputes the window. Fields that an upload writes and never reads
are left out. `in_flight` is a deque in ascending order, kept as a set. The
timestamp difference is modulo `ClockModulus` (2^64). `received` and
`abandoned` are history.

### StpDownload

One client in download mode, the server and the network. Each direction of the
network is a count of datagrams per size, which allows any reordering.

| Actions | Code |
|---|---|
| `SendCommand`, `Loop` | `run_download_test` up to its loop, and the loop's condition |
| `Receive`, `ReceiveInvalid`, `PollTimeout`, `SocketError` | the results of the 50 ms `timeout(recv)`; the second is a datagram that does not decode |
| `ServerReceive`, `SendAck` | `handle_stp_packet` up to the ACK; `?` leaves before the burst |
| `SendSingle`, `StartFragments`, `SendFragment`, `EndBurst` | the burst, with what each `break` leaves |
| `LoseToServer`, `LoseToClient`, `Tick` | network and time |

Packet numbers are left out: neither side of a download compares them. The
network does not duplicate, because the client would measure a copy again;
this is an assumption of `MeasuredWasSent`. The bytes on their way are counted
as a set with one element per byte (`BytesIn`).

### Bbr, StpPacing

`Bbr` is the controller: its state and, as operators, its three calls
`OnPacketSentOrLost` (sent and lost do the same) and `OnAckReceived`, each
with `UpdateState` and `UpdateControlParameters` in the code's order. All
datagrams have one size, so a bandwidth sample is kept as its RTT, the largest
bandwidth is the smallest RTT, and the window is an integer quotient. The
callers pass no bytes in flight (`congestion.rs:302`), so the drain test is
always true. An RTT of zero makes the bandwidth infinite; `Target` says what
the conversion to `usize` then gives. A sending rate is kept as the time it
gives one datagram, `SendInterval`; the minimum rate is `MaxInterval`.
`last_ack` and `driven` are history.

`StpPacing` is the upload loop that makes these calls. `pc` is the place in it.

| Actions | Code |
|---|---|
| `SendNow`, `SendLater` | the three outcomes of `schedule_next_send`; a pacer without a last send and a late one do the same |
| `PacingOver`, `SendData`, `Done` | the rest of `send_data`: the wait, the call of the controller, `update_rate`; a failed send breaks the loop |
| `Blocked` | `can_send` is false |
| `NoAck`, `RecvAck` | the 1 ms `timeout(recv_from)` |
| `Acked`, `Resent`, `ResendFails`, `AckProcessed` | `process_ack`: acknowledged datagrams, then lost ones, then `update_rate`, which the `?` of a failed resend skips |
| `Slept`, `Tick` | the end of a turn; time |

Which datagrams an ACK acknowledges or loses is the subject of `StpUpload`:
here it may be any number. `next_send_time` and `debt` of the pacer are never
read. Timers are exact. `stale` is history.

### Admission, TcpServer

`Admission` is what the server promises to those that connect: while it is
open, whoever waits is served if fewer than `Limit` are, and is turned away
only if `Limit` are; nobody is served twice; at closing nobody is left waiting.
`TcpServer` is the program: the accept loop with its semaphore, one handler per connection, and
`shutdown()`. A connection has a phase, the place its handler has reached.
Each access to an atomic is a step of its own, so the accept loop's
`fetch_add` and store (`CountActive`, `SpawnHandler`) interleave with a
handler's `fetch_sub` and store (`UncountActive`, `StoreRemaining`). The
broadcast channel is the set of receivers subscribed when the shutdown was
sent; `StartHandler` resubscribes. How a transfer ends is a choice. Byte and
error metrics are left out: nothing reads them back. `ImplementsAdmission` is
the refinement: a connection is served while its phase holds a permit
(`Standing`), and the door is open until `run()` returns. A leaked permit
breaks it at the first refusal below the limit, a missing check at the first
admission above it.

### TcpConnection

One transfer with its client and the socket buffer. `UploadRead`, `UploadEof`,
`ReadError`, `ReadTimeout`, `UploadIdleCheck` are the branches of
`handle_upload`; `WriteSome`, `WriteError`, `DownloadCheck` those of
`handle_download`; `HandleShutdown` is the branch both have. `waited` is the
time since this turn's `select!` was entered: the futures are made anew on
each turn. `partial` is what a `write_all` in progress has put in the socket;
`DownloadCheck` drops it. A timer is served when it is due: `Tick` waits for
it. The loop starts with the command byte, but `last_activity` is stamped when
the handler is made, at accept, so an upload starts with any `idle_for` up to
`CommandTimeout` (`server.rs:386`).

### MeasurementSink, MeasuredTest, Statistics

`MeasurementSink` says what a test promises: each producer adds its
measurements in order, and the result is published once, whole.
`MeasuredTest` is the program, for seven modes: the latency tests of the three
clients, the TCP and the HTTP upload and download.

| Actions | Code |
|---|---|
| `StartProbe`, `ProbeAnswered`, `ProbeFails`, `ProbeTimesOut`, `SetUpFails`, `PauseOver`, `ProbesDone` | `measure_tcp_latency`, `measure_udp_latency`, `measure_http_latency` |
| `SpawnTask`, `SpawnDone`, `JoinAll` | the main task of `run_upload_test` and `run_download_test` |
| `Connected`, `ConnectFails`, `Transfer`, `TransferFails`, `TaskEnds` | a connection task; `CarriesOn` says in which tests a failure leaves the loop running, `Http` which tasks have no connection to make |
| `Collect`, `CollectorEnds`, `ProgressEnds`, `Finish` | both collectors and `finish()` |

In a latency test the main task is the producer. A measurement is its maker,
its index and an RTT, a size, or `None`. `ImplementsSink` is the refinement.
`RecordIsWhole` of `MeasurementSink` says what the promise amounts to.
`Statistics` holds the functions a report calls on the result, in exact
arithmetic: counts, extremes, mean, percentiles with their rounding, variance,
bytes, success rate. A loop of the code is `Loop`, the state after so many
turns, as a recursive function over the turns; `sort_by` is the choice of an
ordering permutation.

### HttpTransfer

One task of `measure_http_latency`, `run_download_test` or `run_upload_test`
of the HTTP client, and the handler of its request. `StartTurn`, `EndTest`,
`PauseOver` are the loops; `SendRequest` and the three `...Response` actions
are `download_chunk` and `upload_chunk`; `GiveUp` is what each loop does with
a failed request. `HandleRequest`, `SendChunk`, `ReadBody`, `AnswerUpload` are
the handlers. They answer OK whatever happens: `AnswerUpload` follows the end
of a body and a body error alike (`server.rs:207`), at any position. Of the
clients only `upload_chunk` looks at the status; with this server it is always
a success. Joining and collecting are in `MeasuredTest`. `stored` and `unread`
are history: what the upload handlers have read, and what they had not read
when they answered after a body error.

### TestRunner

The commands `client` and `report` as processes that run one after another
over a few files. `pc` is the place in `main` and in the protocol client.

| Actions | Code |
|---|---|
| `StartClient`, `CheckExport`, `CheckFails` | `main`, with `can_write` before the tests |
| `CreateClient`, `CreateClientFails`, `NextTest`, `TestReturns`, `TestFails` | `run_tcp_client`, `run_udp_client`, `run_http_test`, which dispatch alike |
| `TestsDone`, `CreateFile`, `SerialiseFails`, `WritePart`, `WriteRest`, `ExportFails` | printing and `export_report` |
| `ReportCommand` | the `report` command with its import |
| `Kill` | the process is killed |

A file holds nothing, a part or a whole report in some format; a parser
accepts a whole report of its format. What fails is what the code can return
as an error: a UDP test, the construction of the HTTP client, any file
operation, and the serialiser. `Serialisable` says when the last one does: a
report with a failed measurement (`failures`) has a `ConnectionError` in it,
for which serde has no JSON or CBOR form. Which measurements fail is chosen
once, when the report is made: nothing earlier depends on it. `Exit` clears
the memory of the process. `disturbed` is history: the last command was killed
or an operation of it failed from outside. Sizes are a set, because
their order shows in the output only. Printing is left out.

## 4. Runs

| Run | Expect | What it shows |
|---|---|---|
| `stp_upload` | pass | Accounts balance, acknowledged numbers were received, what is outstanding never exceeds the window although resends are not gated, the test ends |
| `stp_upload_acked` | violation | finding 1 |
| `stp_upload_stall` | violation | finding 2 |
| `stp_download` | pass | What was measured was sent, silence is reported in time, a stalled download stays stalled, the server comes back, the test ends |
| `stp_pacing` | pass | The window stays clamped for every RTT and opens only after min_rtt rose, an ACK never starts ProbeRtt, the pacer has the controller's rate except after a failed resend, pacing delays the end of a test by a datagram and a turn at most |
| `tcp_server` | pass | The server implements `Admission`: it refuses only when full or closing and no path loses capacity; the active counter is exact up to the early returns, a handler that has the shutdown message ends, `shutdown()` returns |
| `tcp_server_leak` | violation | finding 3 |
| `tcp_connection` | pass | The count passes the limit by less than a buffer and is honest, idle uploads end in time even when the command byte came late, a read timeout longer than the idle check never fires, uploads end |
| `measured_test` | pass | The refinement, probes keep their distance, the report's statistics agree with their definitions on every result, and the test returns, in all modes |
| `http_transfer` | pass | Uploads claim only what was read or lay behind a body error answered with OK, bodies have their length, overruns are bounded, the test returns although the server may be silent |
| `test_runner` | pass | Reports on disk are complete whatever fails or is killed, an earlier report is touched only by a command that holds a complete one, `report` reads back what `client` exported |
| `test_runner_saves` | violation | finding 4 |

Bounds and why they are enough:

* `stp_upload`: window 1..2, three packet numbers, three ticks, timeout of one
  tick, one duplicate, one clock step. Two datagrams in flight and one resend
  are the smallest session in which an ACK overtakes another, a resend is
  lost, a duplicate ACK arrives after its datagram was resent, and a resend
  fails with another behind it. Threshold 1 makes the reordering test as eager
  as it can be; the theorem holds for every threshold.
* `stp_upload_acked` has the code's threshold of 3 and a window of 4.
  `stp_upload_stall` leaves two more ticks after the timeout.
* `stp_download`: a payload of one datagram and one that is cut into two
  fragments, bursts of two (so a `break` has something to leave), three polls
  against a limit of one, at most one datagram of a size on its way (further
  ones are dropped, as a full socket buffer does), two datagrams handled by
  the server, the command and one ACK.
* `stp_pacing`: RTTs 0, 1, 3, a bandwidth filter of one tick against an RTT
  filter of two, so that each can remember what the other has forgotten, a
  clamp that both ends of the range reach, a lowest rate of three ticks a
  datagram, five ticks of test, enough for all phases, a whole gain cycle and
  a wait across the end of the test.
* `tcp_server`: three connections on two permits, so that one is rejected and
  one admitted after a release; one poll before `shutdown()` gives up.
* `tcp_connection`: read timeouts below, at and above the idle check, an idle
  limit that is no multiple of it, a command byte that may take longer than
  the idle limit, a byte limit that is no multiple of the buffer.
* `measured_test`: two tasks with two measurements each, four probes, three
  RTTs of which two differ by more than the third, so that a percentile that
  is off by a rank shows.
* `http_transfer`: payloads of nothing, of whole chunks and of a broken chunk;
  three turns; a request may fail at each point of each turn.
* `test_runner`: three commands, enough for an export, an HTML export over it
  and an attempt to read the result; one file of each extension; two default
  sizes, so that the second can fail when the first has a result;
  `test_runner_saves` has the same. Deadlock is
  not checked: no further command need follow.

Fairness. Tasks are polled by the runtime whenever they are ready: weak
fairness of each task's next step, never of a peer's. Time passes: weak
fairness of the ticks; a timer is punctual, which abstracts scheduling delay.
`UploadTerminates`, `DownloadReturns` and `HttpTestReturns` assume nothing of
the network or the server. `UploadEnds` assumes nothing of the client.
`TcpServer` assumes that a message that stays ready in a `select!` is picked
and that a command read times out; nothing of the length of a transfer.
`MeasuredTest` assumes that a TCP connect, read or write in progress
completes: the code has no timeout on it, a listed hazard. It assumes nothing
of a UDP probe, whose timeout is in the model, and of an HTTP request that it
ends, as its timeout makes it do (`HttpTransfer`). A datagram that does not
decode arrives at most once a poll in `StpDownload`.

## 5. Proofs

TLAPS checks the following for all values of the constants, under the named
assumptions of each module.

* `StpUpload_proofs`. The inductive invariant joins `TypeOK`, the account
  equation, numbering (every number in use is at most `local_packet_number`,
  in flight and lost are disjoint and above `largest_acked`, what was
  acknowledged was received) and a budget (what is outstanding plus what a
  pending send will add fits the window). The equation alone is not inductive:
  it needs disjointness, and that needs the next number to be above all
  others. Results: `AccountsBalance`, `NoUnderflow` (`client.rs:608` cannot
  wrap), `WindowBound`, `AckedReceived`, `OnlyTimeoutsLose`,
  `NumbersAreFresh`.
* `TcpServer_proofs`. Counts are cardinalities of the sets of connections in
  given phases; a lemma says how one change of phase moves a cardinality.
  `Refinement` (`ImplementsAdmission`) uses these counts for the guards: by
  `PermitsConserved` a permit is left exactly when fewer than
  `max_connections` are served. It needs one more invariant, that nobody waits
  before the server is bound. `DoorKeepsItsWord` shows that `Admission` itself
  bounds those served and leaves nobody waiting. Other results:
  `PermitsAreConserved`, `ActiveIsAccounted`, `ConnectionLimit`.
* `MeasuredTest_proofs`. The invariant relates where the main task is, who
  still has a sender, the channel and the collector, and charges each probe
  that was set up a pause. `Refinement` maps initial states to initial states
  and each step to a step or a stutter of `MeasurementSink`. Other results on
  the tests: `CollectorIsLast`, `ProbesSpaced`, and `UdpOverrunIsBounded`, the
  safety half of `TestReturns` for UDP probes: such a test outlasts its
  duration by one probe and one pause at most.

  The report is the other half of the module. The statistics are loops over
  lists of any length. The library's induction theorems take an operator, so
  induction is done on sets of turns instead: a set of turns that contains 0
  and, with each turn, the next contains all (`InductiveSet`, from the
  least-element form of well-foundedness, which takes a set). `LoopRuns` gives
  from it the two equations of `Loop` for every start and every turn. Each
  statistic is then a loop with an invariant: the RTTs found so far are the
  numbers among the first measurements; a sum lies between the count times the
  extremes; `n * squares - sum^2` is at least zero and at most a quarter of
  `(n * range)^2`. That a sorted order exists is proved too (`CanBeSorted`),
  since `sort_by` is a CHOOSE; counting below and above a place of it makes
  the percentile the order statistic of its rank. Results: `RankInRange`,
  `PercentileIsOrderStatistic`. `SinkIsWhole` shows that whatever implements
  `MeasurementSink` returns every measurement once and in order; through
  `Refinement` it gives the counts per task, and with the statistics
  `ReportIsRight` (`ReportAgrees`).
* `TcpConnection_proofs`. The invariant adds that no timer is overdue
  (`waited` is at most the sleep) and that an upload has been idle for at most
  what it has waited in this turn and the larger of `connection_timeout` and
  `CommandTimeout`: a later turn starts only if the upload was not idle, the
  first one when the command byte is there. For a `connection_timeout` below
  five seconds it is the command byte that decides.
  Results: `LimitIsKept`, `CountIsHonest`, `IdleIsBounded`,
  `ReadTimeoutIsDead`.
* `StpDownload_proofs`. The invariant says that every poll starts within the
  limit of silence, so that one poll cannot pass it by more than its length.
  `MeasuredIsSent` is inductive once a datagram more or less is known to change
  the bytes on their way by its size, which is the cardinality of a union of
  disjoint sets. `ClockedByClient` bounds what is sent by what the server has
  handled: the invariant charges each datagram received a burst and counts
  what of it is still owed. Other results: `SilenceIsReported`,
  `ErrorsAreSpaced`, `QuietIsForGood`.
* `StpPacing_proofs`. Four parts besides types: both filters hold what their
  lengths allow and min_rtt is no larger than any sample it is compared with
  (`Filters`); the window is the target of the present phase and model
  (`WindowIsCurrent`); the pacer's rate is the controller's unless stale; and
  how late each wait can end (`Lateness`). The properties of the window follow
  from the first two by the arithmetic of `Target`. Results: `WindowStaysSmall`,
  `SilenceStartsProbeRtt`, `RatesAgree`, `OverrunIsBounded`.
* `HttpTransfer_proofs`. `ChunksAddUp` is the arithmetic of rounding up, for
  every payload and chunk size. `Bodies` says how far the body of the present
  request has come, in chunks already complete and bytes of the present one;
  an upload that was answered has its whole chunk read or in `unread`;
  `Punctual` says how much of the turn's limit the present wait has used. Results:
  `MeasuredHonestly`, `OverrunIsBounded`.
* `TestRunner_proofs`. Completeness on disk comes from `Progress`: while the
  tests run, each direction asked for has a result for exactly the sizes that
  are neither to do nor under test, so nothing is missing when none is left.
  `FormatsFit` says that a file holds the format of its extension or HTML.
  `OldReportsSurvive` needs that only an export with a complete report in hand
  touches a report; it does not say that the export then succeeds, and
  finding 4 shows when it does not. Results: `ReportsAreWhole`,
  `OldReportsSurvive`, `ReportsAreReadBack`.

Every invariant, action property and refinement of a passing run has a
theorem. Only model-checked are the eight liveness properties
(`UploadTerminates`, `SignalledHandlersEnd`, `ShutdownReturns`,
`TestReturns`, `UploadEnds`, `ServerReturns`, `DownloadReturns`,
`HttpTestReturns`): the prover has no rule for fairness or ENABLED.
Their safety halves are proved where the model has a clock to bound them:
`UdpOverrunIsBounded`, and the `OverrunIsBounded` of `StpPacing_proofs` and of
`HttpTransfer_proofs`. `PermitsConserved` of `TcpServer` is only proved: the
run checks the refinement, which needs it. So are
`LossOnlyByTimeout` and `FreshNumbers` of `StpUpload` (`OnlyTimeoutsLose`,
`NumbersAreFresh`).

## 6. Findings

1. `AckedWasReceivedOrLost` (`stp_upload_acked`). `STP_IMPLEMENTATION.md:42`
   tolerates a missing datagram until three higher ones are acknowledged and
   then declares it lost. `on_ack_received` (`protocol.rs:199`) takes every
   number up to the acknowledged one as delivered, while the server
   acknowledges single datagrams, so a missing one is counted as delivered by
   the next ACK. By `OnlyTimeoutsLose` the threshold never applies.
2. `TimeoutDetectsLoss` (`stp_upload_stall`). `STP_IMPLEMENTATION.md:43` calls
   the timeout the fallback. It is evaluated only inside `on_ack_received`, so
   when a whole window is lost no ACK arrives, nothing is resent and the
   upload stays blocked until its duration ends.
3. `NoneActiveWhenIdle` (`tcp_server_leak`). A connection that closes before
   its command byte leaves `handle` at `server.rs:398` without decrementing
   `active_connections`. Every latency probe does this, so the count only
   grows and `shutdown()` runs into its limit.
4. `ExportSaves` (`test_runner_saves`). `README.md:78` says that `--export`
   saves the results. `ConnectionError` (`report/errors.rs:5`) is an internally
   tagged enum whose variants hold a `String`, which serde cannot serialise, so
   every JSON or CBOR export of a report with a failed measurement fails
   (`utils/export.rs:42`, `:54`), after `File::create` (`:39`, `:51`) has
   truncated the file. The report and any earlier one in that file are lost,
   the error is printed and the command ends with success.

Differences between the code and its documents or comments that have no
violation run, met while modelling. Of the first three a passing run and a
theorem show what the code does instead.

* Read timeout. `tcp/server.rs:23` and `:38` configure a read timeout of 30
  seconds, the comment at `:480` calls it the "timeout for read operations"
  and the branch `:521-525` handles it. The five-second sleep of the same
  `select!` makes it anew on every turn, so with any value above the sleep,
  the default included, no read ever times out (`ReadTimeoutNeverFires`,
  theorem `ReadTimeoutIsDead`). Idle uploads are ended by the idle check.
* ProbeRTT. `STP_IMPLEMENTATION.md:67` lists "ProbeRTT: Periodic RTT
  measurement", and `congestion.rs:280` tests for it on every ACK. But
  `update_model` has just renewed an expired min_rtt (`:182`), so a flow that
  is driven by ACKs never enters ProbeRTT; only a send or a loss after a
  silence does (`ProbeRttNeedsSilence`, theorem `SilenceStartsProbeRtt`).
* Startup. `STP_IMPLEMENTATION.md:64` promises "Exponential bandwidth
  probing". A bandwidth sample is one datagram over its own RTT, so the window
  stays at the larger of its minimum and two datagrams except for a while
  after min_rtt has risen (`WindowOpensOnlyAfterRttRise`, theorem
  `WindowStaysSmall`): startup does not grow it.
* Byte limit. `tcp/server.rs:29` documents the "Maximum bytes per connection
  before auto-disconnect". A `write_all` dropped by the 30-second branch
  (`:565`, `:613`) has sent part of its buffer, which is never counted, so a
  slow reader's connection moves more than the limit. What holds is that the
  count is kept within a buffer of the limit and never claims too much
  (`LimitIsKept`, `CountIsHonest`).
* Upload errors. `upload_handler` leaves its loop at a body error
  (`http/server.rs:207`) and still answers OK, with a count the client does not
  read. `upload_chunk` looks at the status only, "Ensure the upload was
  successful" (`http/client.rs:516`), so if that answer arrives it counts the
  whole chunk (`unread` in `MeasuredIsTrue`).
* Response status. `download_chunk` (`http/client.rs:459-471`) and
  `measure_http_latency` (`:211-212`) never look at it: the error page of
  another server would be measured as a download or a probe. This server's
  handlers answer OK only.

* `report/result/latency.rs:42` promises 0.0 for no successful measurement;
  the function returns `None`, and `Statistics` follows the code.
* A probe whose socket cannot be made is repeated without the pause
  (`udp/client.rs:339`); `ProbesAreSpaced` therefore does not count it.
* A TCP connection that fails to connect leaves no measurement, so success
  rates do not see it.
* The time stamp of a datagram is taken before its pacing wait, and the ACKs
  that arrive in a wait are read after it, so RTT samples contain pacing delay.

## 7. Not modelled

* HTML rendering, text formatting, progress bars, argument parsing: pure
  functions from data to text.
* TLS set-up: loads certificates once through a library.
* The server command of `main`: it spawns up to four servers that share
  nothing and joins them; three of them end only when they cannot start. What
  could go wrong, a failed start that is reported only when all servers have
  ended, no document rules out.
* Of the statistics, `avg_throughput` and the loss rates, which divide for
  display, and `retry_statistics`, whose counts are always zero because
  nothing retries.
* Several UDP clients at one server: they share a map and the server's loop,
  and a client's entry depends on that client only. The growth of the map is a
  listed hazard.
* The web framework, the HTTP library and the kernel appear only as what the
  modelled code sees of them.
