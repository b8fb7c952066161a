----------------------------- MODULE HttpTransfer -----------------------------
(***************************************************************************)
(* One task of an HTTP test and the server's handlers: the latency loop,   *)
(* download_chunk and upload_chunk against latency_handler,                *)
(* download_handler and upload_handler.  How the tasks are joined and the  *)
(* measurements collected is the module MeasuredTest.                      *)
(*                                                                         *)
(* A request fails at any time (connection or stream) and is given up      *)
(* RequestTimeout after it was sent, its body included.  The handler of a  *)
(* failed request is dropped with its connection.  The handlers answer OK  *)
(* whatever happens, so a response is a success here: upload_chunk checks  *)
(* its status, download_chunk and the latency loop do not.                 *)
(*                                                                         *)
(* Sizes are in units.  Time is counted in ticks, passes only while the    *)
(* task waits, and a timer is served when it is due.                       *)
(***************************************************************************)
EXTENDS Integers

CONSTANTS
  Payloads,        \* payload sizes to consider; `--sizes 0` is accepted
  chunk_size,
  Duration,        \* length of the test
  RequestTimeout,  \* ClientBuilder.timeout (30 s)
  Pause,           \* between two latency probes (100 ms)
  MaxTurns         \* bound: turns of the test loop; then the task just waits

ASSUME SizeAssumption == Payloads \subseteq Nat /\ chunk_size \in Nat \ {0}

ASSUME TimeAssumption == /\ Duration \in Nat /\ MaxTurns \in Nat
                         /\ RequestTimeout \in Nat \ {0} /\ Pause \in Nat \ {0}

VARIABLES
  test,          \* "latency", "download" or "upload"
  payload_size,
  pc,            \* task: "loop", "request", "pause" or "done"
  waited,        \* time since the request was sent or the pause began
  elapsed,       \* start_time.elapsed()
  turns,         \* turns of the loop
  chunk_index,   \* chunk being uploaded
  total_bytes,   \* total_bytes, total_bytes_sent of this turn
  measured,      \* bytes in the Success measurements
  handler,       \* "none", "reading", "sending" or "answered"
  position,      \* bytes of the body read, or chunks sent, by the handler
  wire,          \* body bytes on their way to the client
  stored,        \* history: bytes all upload handlers have read
  unread         \* history: bytes behind a body error that was answered OK

plan    == <<test, payload_size>>
time    == <<waited, elapsed>>
turn    == <<chunk_index, total_bytes>>
server  == <<handler, position, wire>>
vars    == <<plan, pc, time, turns, turn, measured, server, stored, unread>>

Tests == {"latency", "download", "upload"}

Init ==
  /\ test \in Tests /\ payload_size \in Payloads
  /\ pc = "loop" /\ waited = 0 /\ elapsed = 0 /\ turns = 0
  /\ chunk_index = 0 /\ total_bytes = 0 /\ measured = 0
  /\ handler = "none" /\ position = 0 /\ wire = 0
  /\ stored = 0 /\ unread = 0

(* div_ceil, of both sides. *)
num_chunks == (payload_size + chunk_size - 1) \div chunk_size

ChunkLength(i) ==
  LET remaining == payload_size - i * chunk_size
  IN  IF remaining < chunk_size THEN remaining ELSE chunk_size

(***************************************************************************)
(* The task.                                                               *)
(***************************************************************************)
SendRequest ==
  pc' = "request" /\ waited' = 0 /\ handler' = "none" /\ position' = 0 /\ wire' = 0

(* Mutant: the sum of the last turn is kept. *)
StartTurnKeepsTotal ==
  /\ pc = "loop" /\ elapsed < Duration /\ turns < MaxTurns
  /\ turns' = turns + 1
  /\ chunk_index' = 0 /\ total_bytes' = total_bytes
  /\ IF test = "upload" /\ num_chunks = 0
     THEN UNCHANGED <<pc, waited, server>>
     ELSE SendRequest
  /\ UNCHANGED <<plan, elapsed, measured, stored, unread>>

(* One turn of the loop.  The upload of nothing is over without a request. *)
StartTurn ==
  /\ pc = "loop" /\ elapsed < Duration /\ turns < MaxTurns
  /\ turns' = turns + 1
  /\ chunk_index' = 0 /\ total_bytes' = 0
  /\ IF test = "upload" /\ num_chunks = 0
     THEN UNCHANGED <<pc, waited, server>>
     ELSE SendRequest
  /\ UNCHANGED <<plan, elapsed, measured, stored, unread>>

EndTest ==
  /\ pc = "loop" /\ elapsed >= Duration
  /\ pc' = "done"
  /\ UNCHANGED <<plan, time, turns, turn, measured, server, stored, unread>>

(* bytes_stream yields a piece of the body, whatever the server's chunks. *)
ReceiveBody ==
  /\ pc = "request" /\ test = "download"
  /\ \E n \in 1 .. wire :
       wire' = wire - n /\ total_bytes' = total_bytes + n
  /\ UNCHANGED <<plan, pc, time, turns, chunk_index, measured, handler, position,
                 stored, unread>>

Responded == pc = "request" /\ handler = "answered" /\ wire = 0

LatencyResponse ==
  /\ Responded /\ test = "latency"
  /\ pc' = "pause" /\ waited' = 0
  /\ UNCHANGED <<plan, elapsed, turns, turn, measured, server, stored, unread>>

DownloadResponse ==
  /\ Responded /\ test = "download"
  /\ measured' = measured + total_bytes
  /\ pc' = "loop"
  /\ UNCHANGED <<plan, time, turns, turn, server, stored, unread>>

(* A chunk is uploaded: the next one follows without a look at the clock,  *)
(* and the payload is measured when its last chunk is answered.            *)
UploadResponse ==
  /\ Responded /\ test = "upload"
  /\ total_bytes' = total_bytes + ChunkLength(chunk_index)
  /\ \/ /\ chunk_index + 1 < num_chunks
        /\ chunk_index' = chunk_index + 1 /\ measured' = measured
        /\ SendRequest
     \/ /\ chunk_index + 1 = num_chunks
        /\ chunk_index' = chunk_index /\ measured' = measured + total_bytes'
        /\ pc' = "loop"
        /\ UNCHANGED <<waited, server>>
  /\ UNCHANGED <<plan, elapsed, turns, stored, unread>>

(* Mutant: a failed request is sent again. *)
GiveUpResends ==
  /\ SendRequest
  /\ UNCHANGED <<plan, elapsed, turns, turn, measured, stored, unread>>

(* Mutant: the chunk that failed, and those before it, are measured. *)
GiveUpMeasures ==
  /\ \/ test = "latency" /\ pc' = "pause" /\ measured' = measured
     \/ test = "download" /\ pc' = "done" /\ measured' = measured
     \/ /\ test = "upload" /\ pc' = "loop"
        /\ measured' = measured + total_bytes + ChunkLength(chunk_index)
  /\ waited' = 0
  /\ handler' = "none" /\ position' = 0 /\ wire' = 0
  /\ UNCHANGED <<plan, elapsed, turns, turn, stored, unread>>

(* The failure is measured without bytes.  It ends a download task; the    *)
(* latency and upload loops go on.                                         *)
GiveUp ==
  /\ \/ test = "latency" /\ pc' = "pause"
     \/ test = "download" /\ pc' = "done"
     \/ test = "upload" /\ pc' = "loop"
  /\ waited' = 0
  /\ handler' = "none" /\ position' = 0 /\ wire' = 0
  /\ UNCHANGED <<plan, elapsed, turns, turn, measured, stored, unread>>

(* send() or the body returns an error, at any time. *)
RequestFails == pc = "request" /\ GiveUp

(* Mutant: the client has no timeout. *)
TimedOutNever == FALSE

TimedOut == waited >= RequestTimeout

RequestTimesOut == pc = "request" /\ TimedOut /\ GiveUp

PauseOver ==
  /\ pc = "pause" /\ waited >= Pause
  /\ pc' = "loop"
  /\ UNCHANGED <<plan, time, turns, turn, measured, server, stored, unread>>

(***************************************************************************)
(* The handlers.                                                           *)
(***************************************************************************)
HandleRequest ==
  /\ pc = "request" /\ handler = "none"
  /\ handler' = IF test = "upload" THEN "reading"
                ELSE IF test = "download" /\ num_chunks > 0 THEN "sending"
                ELSE "answered"
  /\ UNCHANGED <<plan, pc, time, turns, turn, measured, position, wire, stored, unread>>

SendChunk ==
  /\ handler = "sending"
  /\ wire' = wire + ChunkLength(position)
  /\ position' = position + 1
  /\ handler' = IF position' = num_chunks THEN "answered" ELSE "sending"
  /\ UNCHANGED <<plan, pc, time, turns, turn, measured, stored, unread>>

ReadBody ==
  /\ handler = "reading"
  /\ \E n \in 1 .. ChunkLength(chunk_index) - position :
       position' = position + n /\ stored' = stored + n
  /\ UNCHANGED <<plan, pc, time, turns, turn, measured, handler, wire, unread>>

(* OK is the answer when the body has ended, and just so when reading it   *)
(* fails part of the way.                                                  *)
AnswerUpload ==
  /\ handler = "reading"
  /\ unread' = unread + ChunkLength(chunk_index) - position
  /\ handler' = "answered"
  /\ UNCHANGED <<plan, pc, time, turns, turn, measured, position, wire, stored>>

Tick ==
  /\ \/ pc = "request" /\ waited < RequestTimeout
     \/ pc = "pause" /\ waited < Pause
     \/ pc = "loop" /\ turns = MaxTurns /\ elapsed < Duration
  /\ waited' = waited + 1 /\ elapsed' = elapsed + 1
  /\ UNCHANGED <<plan, pc, turns, turn, measured, server, stored, unread>>

Finished == pc = "done" /\ UNCHANGED vars

(* What the task does without hearing from the server. *)
Task == StartTurn \/ EndTest \/ RequestTimesOut \/ PauseOver

Next == \/ Task \/ ReceiveBody \/ RequestFails
        \/ LatencyResponse \/ DownloadResponse \/ UploadResponse
        \/ HandleRequest \/ SendChunk \/ ReadBody \/ AnswerUpload
        \/ Tick \/ Finished

Spec == Init /\ [][Next]_vars

(* Time passes and the task runs when it can; the server owes nothing. *)
LiveSpec == Spec /\ WF_vars(Task) /\ WF_vars(Tick)

(***************************************************************************)
(* Properties.                                                             *)
(***************************************************************************)

(* Every variable has its type.  remaining_bytes is unsigned and never     *)
(* wraps, and a turn's sum stays within the payload, so that the debug     *)
(* assertion of client.rs:474 has no reason to fire from above.            *)
TypeOK ==
  /\ test \in Tests /\ payload_size \in Payloads
  /\ pc \in {"loop", "request", "pause", "done"}
  /\ waited \in Nat /\ elapsed \in Nat /\ turns \in 0 .. MaxTurns
  /\ chunk_index \in Nat /\ chunk_index * chunk_size <= payload_size
  /\ total_bytes \in 0 .. payload_size /\ measured \in Nat
  /\ handler \in {"none", "reading", "sending", "answered"}
  /\ position \in Nat /\ wire \in Nat /\ stored \in Nat /\ unread \in Nat

(* What a test claims was transferred.  Every byte of an upload's Success  *)
(* measurements, and of the turn in progress, was read by the server or    *)
(* lay behind a body error that upload_handler answered with OK            *)
(* (http/server.rs:207), whichever requests failed in between.  The chunks  *)
(* of a download add up to its Content-Length, however they are cut, so    *)
(* what is measured is payload_size (the debug assertion of client.rs:474  *)
(* allows a tenth more or less).                                           *)
MeasuredIsTrue ==
  /\ test = "upload"
       => measured + (IF pc = "request" THEN total_bytes ELSE 0) <= stored + unread
  /\ test = "download" /\ pc = "request" /\ handler = "answered"
       => total_bytes + wire = payload_size

(* How long a turn may take: one request, with its pause for a probe, or   *)
(* one request per chunk of an upload.                                     *)
TurnLimit ==
  IF test = "latency" THEN RequestTimeout + Pause
  ELSE IF test = "download" THEN RequestTimeout
  ELSE num_chunks * RequestTimeout

(* A test looks at the clock only between turns, so it outlasts its        *)
(* duration by the turn that was started in time, and by no more.          *)
OverrunBounded == elapsed <= Duration + TurnLimit

(* The test returns even if the server never answers: unlike the TCP test, *)
(* every request has a timeout.                                            *)
HttpTestReturns == <>(pc = "done")
=============================================================================
