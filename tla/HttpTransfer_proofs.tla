------------------------- MODULE HttpTransfer_proofs -------------------------
(***************************************************************************)
(* What an HTTP test claims and how long it takes, for every payload, every *)
(* chunk size and every length of its timers.                              *)
(*                                                                         *)
(* Neither property is inductive.  Bodies says how far a body has come: a  *)
(* download has its first `position` chunks on the wire or at the client,  *)
(* an upload the chunks before chunk_index and what the handler has read,  *)
(* or the whole chunk once it is answered.                                 *)
(* Punctual says since when the present wait has lasted.                   *)
(***************************************************************************)
EXTENDS HttpTransfer, TLAPS

(* The length of the first i chunks. *)
Prefix(i) == IF i * chunk_size < payload_size THEN i * chunk_size ELSE payload_size

Downloading ==
  (test = "download" /\ pc = "request") =>
    /\ handler # "reading"
    /\ total_bytes + wire = Prefix(position)
    /\ handler = "none" => position = 0
    /\ handler = "sending" => position < num_chunks
    /\ handler = "answered" => position = num_chunks

Uploading ==
  test = "upload" =>
    IF pc = "request"
    THEN /\ handler # "sending"
         /\ chunk_index < num_chunks /\ total_bytes = Prefix(chunk_index)
         /\ position <= ChunkLength(chunk_index)
         /\ measured + total_bytes + position <= stored + unread
         /\ handler = "answered" =>
              measured + total_bytes + ChunkLength(chunk_index) <= stored + unread
    ELSE measured <= stored + unread

(* A handler works on a request that is waiting for it. *)
Working ==
  /\ handler \in {"reading", "sending"} => pc = "request"
  /\ handler = "sending" => test = "download"
  /\ handler = "reading" => test = "upload"

Bodies == Downloading /\ Uploading /\ Working

(* The requests of the turn before the present one. *)
Before == IF test = "upload" THEN chunk_index * RequestTimeout ELSE 0

Punctual ==
  /\ pc = "request" => waited <= RequestTimeout /\ elapsed <= Duration + Before + waited
  /\ pc = "pause" => /\ test = "latency" /\ waited <= Pause
                     /\ elapsed <= Duration + RequestTimeout + waited
  /\ pc \in {"loop", "done"} => elapsed <= Duration + TurnLimit

IInv == TypeOK /\ Bodies /\ Punctual

(***************************************************************************)
(* Chunks.                                                                 *)
(***************************************************************************)

(* A quotient rounded up: the multiples below p are those of i < ceiling.  *)
LEMMA Ceiling ==
  ASSUME NEW p \in Nat, NEW c \in Nat \ {0}
  PROVE  /\ (p + c - 1) \div c \in Nat
         /\ \A i \in Nat : i < (p + c - 1) \div c <=> i * c < p
<1> DEFINE q == (p + c - 1) \div c
           r == (p + c - 1) % c
<1>1. q \in Int /\ r \in 0 .. c - 1 /\ p + c - 1 = q * c + r
  OBVIOUS
<1>2. q >= 0
  <2>1. ~(q <= -1)
    <3> SUFFICES ASSUME q <= -1 PROVE FALSE
      OBVIOUS
    <3>1. q * c <= -c
      BY <1>1
    <3> QED BY <1>1, <3>1
  <2> QED BY <1>1, <2>1
<1>3. ASSUME NEW i \in Nat PROVE i < q <=> i * c < p
  <2>1. CASE i < q
    <3>1. (q - i - 1) * c >= 0
      BY <1>1, <2>1
    <3>2. q * c >= i * c + c
      BY <1>1, <3>1
    <3> QED BY <1>1, <2>1, <3>2
  <2>2. CASE i >= q
    <3>1. (i - q) * c >= 0
      BY <1>1, <2>2
    <3>2. i * c >= q * c
      BY <1>1, <3>1
    <3> QED BY <1>1, <2>2, <3>2
  <2> QED BY <1>1, <2>1, <2>2
<1> QED BY <1>1, <1>2, <1>3

(* The chunks of a payload: how many, how long, and their sums.  The last  *)
(* one is what is left, so their lengths add up to the payload.            *)
THEOREM ChunksAddUp ==
  ASSUME payload_size \in Payloads
  PROVE  /\ num_chunks \in Nat
         /\ Prefix(0) = 0 /\ Prefix(num_chunks) = payload_size
         /\ \A i \in Nat :
              /\ Prefix(i) \in 0 .. payload_size
              /\ i < num_chunks =>
                   /\ Prefix(i) = i * chunk_size
                   /\ ChunkLength(i) \in 1 .. chunk_size
                   /\ Prefix(i + 1) = Prefix(i) + ChunkLength(i)
                   /\ i + 1 = num_chunks => Prefix(i + 1) = payload_size
<1>1. payload_size \in Nat /\ chunk_size \in Nat \ {0}
  BY SizeAssumption
<1>2. /\ num_chunks \in Nat
      /\ \A i \in Nat : i < num_chunks <=> i * chunk_size < payload_size
  BY <1>1, Ceiling DEF num_chunks
<1>3. Prefix(num_chunks) = payload_size
  BY <1>1, <1>2 DEF Prefix
<1>4. Prefix(0) = 0
  BY <1>1 DEF Prefix
<1>5. ASSUME NEW i \in Nat PROVE Prefix(i) \in 0 .. payload_size
  <2>1. i * chunk_size \in Nat
    BY <1>1
  <2> QED BY <1>1, <2>1 DEF Prefix
<1>6. ASSUME NEW i \in Nat, i < num_chunks
      PROVE  /\ Prefix(i) = i * chunk_size
             /\ ChunkLength(i) \in 1 .. chunk_size
             /\ Prefix(i + 1) = Prefix(i) + ChunkLength(i)
             /\ i + 1 = num_chunks => Prefix(i + 1) = payload_size
  <2>1. i * chunk_size \in Nat /\ i * chunk_size < payload_size
    BY <1>1, <1>2, <1>6
  <2>2. (i + 1) * chunk_size = i * chunk_size + chunk_size
    BY <1>1
  <2>3. Prefix(i) = i * chunk_size
    BY <2>1 DEF Prefix
  <2>4. ChunkLength(i) \in 1 .. chunk_size
    BY <1>1, <2>1 DEF ChunkLength
  <2>5. Prefix(i + 1) = Prefix(i) + ChunkLength(i)
    BY <1>1, <2>1, <2>2, <2>3 DEF Prefix, ChunkLength
  <2> QED BY <1>3, <2>3, <2>4, <2>5
<1> QED BY <1>2, <1>3, <1>4, <1>5, <1>6

(* A turn lasts no longer than its limit, and each of its chunks no longer *)
(* than a request.                                                         *)
LEMMA TurnLimits ==
  ASSUME TypeOK
  PROVE  /\ TurnLimit \in Nat /\ Before \in Nat
         /\ test = "latency" => TurnLimit = RequestTimeout + Pause
         /\ test = "download" => TurnLimit = RequestTimeout
         /\ test = "upload" /\ chunk_index < num_chunks
              => Before + RequestTimeout <= TurnLimit
<1>1. /\ RequestTimeout \in Nat /\ Pause \in Nat /\ chunk_index \in Nat
      /\ num_chunks \in Nat
  BY TimeAssumption, ChunksAddUp DEF TypeOK
<1>2. num_chunks * RequestTimeout \in Nat /\ chunk_index * RequestTimeout \in Nat
  BY <1>1
<1>3. TurnLimit \in Nat /\ Before \in Nat
  BY <1>1, <1>2 DEF TurnLimit, Before
<1>4. ASSUME test = "upload", chunk_index < num_chunks
      PROVE  Before + RequestTimeout <= TurnLimit
  <2>1. (num_chunks - chunk_index - 1) * RequestTimeout >= 0
    BY <1>1, <1>4
  <2>2. num_chunks * RequestTimeout >= chunk_index * RequestTimeout + RequestTimeout
    BY <1>1, <2>1
  <2> QED BY <1>4, <2>2 DEF Before, TurnLimit
<1> QED BY <1>3, <1>4 DEF TurnLimit

(***************************************************************************)
(* The steps.                                                              *)
(***************************************************************************)

(* The invariant holds when the test starts. *)
LEMMA InitInv == Init => IInv
<1> SUFFICES ASSUME Init PROVE IInv
  OBVIOUS
<1>1. payload_size \in Nat /\ chunk_size \in Nat
  BY SizeAssumption DEF Init
<1>2. TypeOK
  BY <1>1, TimeAssumption DEF Init, TypeOK
<1>3. Bodies
  BY DEF Init, Bodies, Downloading, Uploading, Working
<1>4. Punctual
  BY <1>2, TurnLimits, TimeAssumption DEF Init, Punctual
<1> QED BY <1>2, <1>3, <1>4 DEF IInv

(* A turn begins in time, with nothing on its way. *)
LEMMA StartStep == IInv /\ StartTurn => IInv'
<1> SUFFICES ASSUME IInv, StartTurn PROVE IInv'
  OBVIOUS
<1>1. /\ UNCHANGED <<test, payload_size, elapsed, measured, stored, unread>>
      /\ pc = "loop" /\ elapsed < Duration /\ turns' = turns + 1 /\ turns < MaxTurns
      /\ chunk_index' = 0 /\ total_bytes' = 0
      /\ payload_size \in Nat /\ chunk_size \in Nat \ {0}
  BY SizeAssumption DEF StartTurn, plan, IInv, TypeOK
<1>2. /\ num_chunks' = num_chunks /\ TurnLimit' = TurnLimit
      /\ \A i : Prefix(i)' = Prefix(i) /\ ChunkLength(i)' = ChunkLength(i)
  BY <1>1 DEF num_chunks, TurnLimit, Prefix, ChunkLength
<1>3. /\ num_chunks \in Nat /\ Prefix(0) = 0
      /\ 0 < num_chunks => ChunkLength(0) \in 1 .. chunk_size
  BY ChunksAddUp DEF IInv, TypeOK
<1>4. \/ /\ test = "upload" /\ num_chunks = 0
         /\ UNCHANGED <<pc, waited, server>>
      \/ ~(test = "upload" /\ num_chunks = 0) /\ SendRequest
  BY DEF StartTurn
<1>5. TypeOK'
  BY <1>1, <1>4, SizeAssumption, TimeAssumption DEF IInv, TypeOK, SendRequest, server
<1>6. Downloading'
  BY <1>1, <1>2, <1>3, <1>4 DEF Downloading, SendRequest
<1>7. Uploading'
  BY <1>1, <1>2, <1>3, <1>4 DEF IInv, TypeOK, Bodies, Uploading, SendRequest
<1>8. Working'
  BY <1>1, <1>4 DEF IInv, Bodies, Working, SendRequest, server
<1>9. Punctual'
  <2>1. Before' \in Nat /\ TurnLimit \in Nat
    BY <1>1, TimeAssumption, TurnLimits DEF IInv, Before
  <2>2. /\ Duration \in Nat /\ RequestTimeout \in Nat /\ elapsed \in Nat
        /\ elapsed < Duration
    BY <1>1, TimeAssumption DEF IInv, TypeOK
  <2>3. pc' = "loop" \/ (pc' = "request" /\ waited' = 0)
    BY <1>1, <1>4 DEF SendRequest
  <2> QED BY <1>1, <1>2, <2>1, <2>2, <2>3 DEF Punctual
<1> QED BY <1>5, <1>6, <1>7, <1>8, <1>9 DEF IInv, Bodies

(* While a plan is fixed, so are its chunks. *)
LEMMA PlanIsFixed ==
  ASSUME UNCHANGED plan
  PROVE  /\ test' = test /\ payload_size' = payload_size
         /\ num_chunks' = num_chunks /\ TurnLimit' = TurnLimit
         /\ \A i : Prefix(i)' = Prefix(i) /\ ChunkLength(i)' = ChunkLength(i)
BY DEF plan, num_chunks, TurnLimit, Prefix, ChunkLength

(* The client takes a piece of the body off the wire. *)
LEMMA ReceiveStep == IInv /\ ReceiveBody => IInv'
<1> SUFFICES ASSUME IInv, ReceiveBody PROVE IInv'
  OBVIOUS
<1>1. PICK n \in 1 .. wire : wire' = wire - n /\ total_bytes' = total_bytes + n
  BY DEF ReceiveBody
<1>2. /\ UNCHANGED <<plan, pc, waited, elapsed, turns, chunk_index, measured, handler,
                     position, stored, unread>>
      /\ pc = "request" /\ test = "download"
  BY DEF ReceiveBody, time
<1>3. /\ wire \in Nat /\ total_bytes \in Nat /\ n \in Nat /\ n <= wire
      /\ total_bytes + wire = Prefix(position)
      /\ Prefix(position) \in 0 .. payload_size /\ payload_size \in Nat
  BY <1>2, ChunksAddUp, SizeAssumption DEF IInv, Bodies, Downloading, TypeOK
<1>4. wire' \in Nat /\ total_bytes' \in 0 .. payload_size
      /\ total_bytes' + wire' = Prefix(position)
  BY <1>1, <1>3
<1>5. TypeOK'
  BY <1>2, <1>4, PlanIsFixed DEF IInv, TypeOK
<1>6. Bodies'
  BY <1>2, <1>4, PlanIsFixed DEF IInv, Bodies, Downloading, Uploading, Working
<1>7. Punctual'
  BY <1>2, PlanIsFixed DEF IInv, Punctual, Before
<1> QED BY <1>5, <1>6, <1>7 DEF IInv

(* A chunk is answered: its bytes were read, and count from now on. *)
LEMMA UploadStep == IInv /\ UploadResponse => IInv'
<1> SUFFICES ASSUME IInv, UploadResponse PROVE IInv'
  OBVIOUS
<1>1. /\ UNCHANGED <<plan, elapsed, turns, stored, unread>>
      /\ test = "upload" /\ pc = "request" /\ handler = "answered" /\ wire = 0
      /\ total_bytes' = total_bytes + ChunkLength(chunk_index)
  BY DEF UploadResponse, Responded
<1>2. /\ num_chunks \in Nat /\ chunk_index \in Nat /\ chunk_index < num_chunks
      /\ total_bytes = Prefix(chunk_index)
      /\ measured + total_bytes + ChunkLength(chunk_index) <= stored + unread
      /\ ChunkLength(chunk_index) \in Nat
      /\ total_bytes' = Prefix(chunk_index + 1)
      /\ total_bytes' \in 0 .. payload_size
      /\ measured \in Nat /\ total_bytes \in Nat /\ stored \in Nat /\ unread \in Nat
  BY <1>1, ChunksAddUp, SizeAssumption DEF IInv, TypeOK, Bodies, Uploading
<1>3. measured + total_bytes' <= stored + unread /\ total_bytes' \in Nat
  BY <1>1, <1>2
<1>4. /\ elapsed <= Duration + Before + waited /\ waited <= RequestTimeout
      /\ Before + RequestTimeout <= TurnLimit
      /\ Before \in Nat /\ TurnLimit \in Nat /\ waited \in Nat /\ elapsed \in Nat
      /\ Duration \in Nat /\ RequestTimeout \in Nat
  BY <1>1, <1>2, TurnLimits, TimeAssumption DEF IInv, Punctual, TypeOK
<1>5. CASE /\ chunk_index + 1 < num_chunks /\ chunk_index' = chunk_index + 1
           /\ measured' = measured /\ SendRequest
  <2>1. /\ (chunk_index + 1) * chunk_size <= payload_size
        /\ ChunkLength(chunk_index + 1) \in Nat
        /\ chunk_index' \in Nat /\ chunk_index' < num_chunks
    <3>1. /\ chunk_index + 1 \in Nat /\ chunk_index + 1 < num_chunks
          /\ payload_size \in Payloads
      BY <1>2, <1>5 DEF IInv, TypeOK
    <3>2. /\ ChunkLength(chunk_index + 1) \in Nat
          /\ Prefix(chunk_index + 1) = (chunk_index + 1) * chunk_size
          /\ Prefix(chunk_index + 1) \in 0 .. payload_size
      BY <3>1, ChunksAddUp, SizeAssumption
    <3>3. payload_size \in Nat
      BY <3>1, SizeAssumption
    <3> QED BY <3>1, <3>2, <3>3, <1>5
  <2>2. TypeOK'
    BY <1>1, <1>2, <1>5, <2>1, PlanIsFixed DEF IInv, TypeOK, SendRequest
  <2>3. Bodies'
    BY <1>1, <1>2, <1>3, <1>5, <2>1, PlanIsFixed
    DEF Bodies, Downloading, Uploading, Working, SendRequest
  <2>4. Punctual'
    <3>1. Before' = Before + RequestTimeout
      <4>1. Before' = (chunk_index + 1) * RequestTimeout
        BY <1>1, <1>5, PlanIsFixed DEF Before
      <4> QED BY <1>1, <1>2, <1>4, <4>1 DEF Before
    <3>2. elapsed <= Duration + (Before + RequestTimeout) + 0 /\ 0 <= RequestTimeout
      BY <1>4
    <3> QED BY <1>1, <1>5, <3>1, <3>2 DEF Punctual, SendRequest
  <2> QED BY <2>2, <2>3, <2>4 DEF IInv
<1>6. CASE /\ chunk_index' = chunk_index /\ measured' = measured + total_bytes'
           /\ pc' = "loop" /\ UNCHANGED <<waited, server>>
  <2>1. TypeOK'
    BY <1>1, <1>2, <1>3, <1>6, PlanIsFixed DEF IInv, TypeOK, server
  <2>2. Bodies'
    BY <1>1, <1>2, <1>3, <1>6, PlanIsFixed
    DEF Bodies, Downloading, Uploading, Working, server
  <2>3. elapsed <= Duration + TurnLimit
    BY <1>4
  <2>4. Punctual'
    BY <1>1, <1>6, <2>3, PlanIsFixed DEF Punctual
  <2> QED BY <2>1, <2>2, <2>4 DEF IInv
<1> QED BY <1>5, <1>6 DEF UploadResponse

(* A probe or a download is answered within its request's time. *)
LEMMA ResponseStep == IInv /\ (LatencyResponse \/ DownloadResponse) => IInv'
<1> SUFFICES ASSUME IInv, LatencyResponse \/ DownloadResponse PROVE IInv'
  OBVIOUS
<1>1. /\ UNCHANGED <<plan, elapsed, turns, turn, server, stored, unread>>
      /\ pc = "request" /\ handler = "answered"
      /\ \/ /\ test = "latency" /\ pc' = "pause" /\ waited' = 0 /\ measured' = measured
         \/ /\ test = "download" /\ pc' = "loop" /\ waited' = waited
            /\ measured' = measured + total_bytes
  BY DEF LatencyResponse, DownloadResponse, Responded, time
<1>2. TypeOK'
  BY <1>1, PlanIsFixed, SizeAssumption DEF IInv, TypeOK, turn, server
<1>3. Bodies'
  BY <1>1, PlanIsFixed DEF Bodies, Downloading, Uploading, Working, server
<1>4. Punctual'
  <2>1. /\ elapsed <= Duration + waited /\ waited <= RequestTimeout
        /\ waited \in Nat /\ elapsed \in Nat
        /\ Duration \in Nat /\ RequestTimeout \in Nat /\ Pause \in Nat
    BY <1>1, TimeAssumption DEF IInv, Punctual, TypeOK, Before
  <2>2. elapsed <= Duration + RequestTimeout + 0 /\ 0 <= Pause
    BY <2>1
  <2>3. test = "download" => elapsed <= Duration + TurnLimit
    BY <2>1, <2>2, TurnLimits DEF IInv
  <2> QED BY <1>1, <2>2, <2>3, PlanIsFixed DEF Punctual
<1> QED BY <1>2, <1>3, <1>4 DEF IInv

(* A failed request leaves nothing behind, and no more time has gone than  *)
(* its timeout allowed.                                                    *)
LEMMA GiveUpStep == IInv /\ pc = "request" /\ GiveUp => IInv'
<1> SUFFICES ASSUME IInv, pc = "request", GiveUp PROVE IInv'
  OBVIOUS
<1>1. /\ UNCHANGED <<plan, elapsed, turns, turn, measured, stored, unread>>
      /\ waited' = 0 /\ handler' = "none" /\ position' = 0 /\ wire' = 0
      /\ \/ test = "latency" /\ pc' = "pause"
         \/ test = "download" /\ pc' = "done"
         \/ test = "upload" /\ pc' = "loop"
  BY DEF GiveUp
<1>2. TypeOK'
  BY <1>1, PlanIsFixed DEF IInv, TypeOK, turn
<1>3. Bodies'
  <2>1. test = "upload" => measured <= stored + unread
    <3>1. /\ measured \in Nat /\ total_bytes \in Nat /\ position \in Nat
          /\ stored \in Nat /\ unread \in Nat
          /\ test = "upload" => measured + total_bytes + position <= stored + unread
      BY SizeAssumption DEF IInv, TypeOK, Bodies, Uploading
    <3> QED BY <3>1
  <2> QED BY <1>1, <2>1, PlanIsFixed DEF Bodies, Downloading, Uploading, Working
<1>4. Punctual'
  <2>1. /\ elapsed <= Duration + Before + waited /\ waited <= RequestTimeout
        /\ waited \in Nat /\ elapsed \in Nat /\ Before \in Nat
        /\ Duration \in Nat /\ RequestTimeout \in Nat /\ Pause \in Nat
    BY TurnLimits, TimeAssumption DEF IInv, Punctual, TypeOK
  <2>2. test # "upload" => elapsed <= Duration + RequestTimeout + 0 /\ 0 <= Pause
    BY <2>1 DEF Before
  <2>3. test = "upload" => Before + RequestTimeout <= TurnLimit /\ TurnLimit \in Nat
    BY TurnLimits DEF IInv, Bodies, Uploading
  <2>4. test # "latency" => elapsed <= Duration + TurnLimit
    BY <1>1, <2>1, <2>2, <2>3, TurnLimits DEF IInv
  <2> QED BY <1>1, <2>2, <2>4, PlanIsFixed DEF Punctual
<1> QED BY <1>2, <1>3, <1>4 DEF IInv

(* The pause of a probe ends, or the test. *)
LEMMA WaitStep == IInv /\ (PauseOver \/ EndTest) => IInv'
<1> SUFFICES ASSUME IInv, PauseOver \/ EndTest PROVE IInv'
  OBVIOUS
<1>1. /\ UNCHANGED <<plan, time, turns, turn, measured, server, stored, unread>>
      /\ \/ pc = "pause" /\ pc' = "loop"
         \/ pc = "loop" /\ pc' = "done"
  BY DEF PauseOver, EndTest
<1>2. TypeOK'
  BY <1>1, PlanIsFixed DEF IInv, TypeOK, time, turn, server
<1>3. Bodies'
  BY <1>1, PlanIsFixed DEF IInv, Bodies, Downloading, Uploading, Working, server
<1>4. Punctual'
  <2>1. pc = "pause" => elapsed <= Duration + TurnLimit
    <3> SUFFICES ASSUME pc = "pause" PROVE elapsed <= Duration + TurnLimit
      OBVIOUS
    <3>1. /\ elapsed <= Duration + RequestTimeout + waited /\ waited <= Pause
          /\ TurnLimit = RequestTimeout + Pause
          /\ elapsed \in Nat /\ waited \in Nat
          /\ Duration \in Nat /\ RequestTimeout \in Nat /\ Pause \in Nat
      BY TurnLimits, TimeAssumption DEF IInv, Punctual, TypeOK
    <3> QED BY <3>1
  <2> QED BY <1>1, <2>1, PlanIsFixed DEF IInv, Punctual, time
<1> QED BY <1>2, <1>3, <1>4 DEF IInv

(* A handler's step moves a body by one piece, within its length. *)
LEMMA HandlerStep ==
  IInv /\ (HandleRequest \/ SendChunk \/ ReadBody \/ AnswerUpload) => IInv'
<1> SUFFICES ASSUME IInv, HandleRequest \/ SendChunk \/ ReadBody \/ AnswerUpload
             PROVE  IInv'
  OBVIOUS
<1>1. UNCHANGED <<plan, pc, time, turns, turn, measured>>
  BY DEF HandleRequest, SendChunk, ReadBody, AnswerUpload
<1>2. Punctual'
  BY <1>1, PlanIsFixed DEF IInv, Punctual, Before, time, turn
<1>3. /\ num_chunks \in Nat /\ Prefix(0) = 0
      /\ total_bytes \in Nat /\ wire \in Nat /\ measured \in Nat /\ stored \in Nat
      /\ unread \in Nat /\ chunk_index \in Nat /\ position \in Nat
      /\ \A i \in Nat : i < num_chunks =>
           /\ ChunkLength(i) \in Nat
           /\ Prefix(i + 1) = Prefix(i) + ChunkLength(i)
  BY ChunksAddUp, SizeAssumption DEF IInv, TypeOK
<1>4. CASE HandleRequest
  <2>1. /\ pc = "request" /\ handler = "none" /\ UNCHANGED <<position, wire, stored, unread>>
        /\ handler' = IF test = "upload" THEN "reading"
                      ELSE IF test = "download" /\ num_chunks > 0 THEN "sending"
                      ELSE "answered"
    BY <1>4 DEF HandleRequest
  <2>2. TypeOK'
    BY <1>1, <2>1, PlanIsFixed DEF IInv, TypeOK, time, turn
  <2>3. Downloading'
    BY <1>1, <1>3, <2>1, PlanIsFixed DEF IInv, Bodies, Downloading, turn
  <2>4. Uploading' /\ Working'
    BY <1>1, <2>1, PlanIsFixed DEF IInv, Bodies, Uploading, Working, turn
  <2> QED BY <1>2, <2>2, <2>3, <2>4 DEF IInv, Bodies
<1>5. CASE SendChunk
  <2>1. /\ handler = "sending" /\ pc = "request" /\ test = "download"
        /\ UNCHANGED <<stored, unread>>
        /\ wire' = wire + ChunkLength(position) /\ position' = position + 1
        /\ handler' = IF position' = num_chunks THEN "answered" ELSE "sending"
        /\ position < num_chunks /\ total_bytes + wire = Prefix(position)
    BY <1>5 DEF SendChunk, IInv, Bodies, Downloading, Working
  <2>2. /\ ChunkLength(position) \in Nat /\ wire' \in Nat /\ position' \in Nat
        /\ Prefix(position') = Prefix(position) + ChunkLength(position)
    BY <1>3, <2>1
  <2>3. total_bytes + wire' = Prefix(position')
    BY <1>3, <2>1, <2>2
  <2>4. position' <= num_chunks
    BY <1>3, <2>1
  <2>5. TypeOK'
    BY <1>1, <2>1, <2>2, PlanIsFixed DEF IInv, TypeOK, time, turn
  <2>6. Downloading'
    <3>1. Prefix(position)' = Prefix(position')
      BY <1>1 DEF Prefix, plan
    <3> QED BY <1>1, <1>3, <2>1, <2>2, <2>3, <2>4, <3>1, PlanIsFixed DEF Downloading, turn
  <2>7. Uploading' /\ Working'
    BY <1>1, <2>1, PlanIsFixed DEF Uploading, Working
  <2> QED BY <1>2, <2>5, <2>6, <2>7 DEF IInv, Bodies
<1>6. CASE ReadBody
  <2>1. PICK n \in 1 .. ChunkLength(chunk_index) - position :
          position' = position + n /\ stored' = stored + n
    BY <1>6 DEF ReadBody
  <2>2. /\ handler = "reading" /\ pc = "request" /\ test = "upload"
        /\ UNCHANGED <<handler, wire, unread>>
        /\ chunk_index < num_chunks
        /\ measured + total_bytes + position <= stored + unread
    BY <1>6 DEF ReadBody, IInv, Bodies, Uploading, Working
  <2>3. /\ position' \in Nat /\ stored' \in Nat /\ position' <= ChunkLength(chunk_index)
        /\ measured + total_bytes + position' <= stored' + unread
    BY <1>3, <2>1, <2>2
  <2>4. TypeOK'
    BY <1>1, <2>2, <2>3, PlanIsFixed DEF IInv, TypeOK, time, turn
  <2>5. Uploading'
    BY <1>1, <2>2, <2>3, PlanIsFixed DEF IInv, Bodies, Uploading, turn
  <2>6. Downloading' /\ Working'
    BY <1>1, <2>2, PlanIsFixed DEF Downloading, Working
  <2> QED BY <1>2, <2>4, <2>5, <2>6 DEF IInv, Bodies
<1>7. CASE AnswerUpload
  <2>1. /\ handler = "reading" /\ pc = "request" /\ test = "upload"
        /\ unread' = unread + ChunkLength(chunk_index) - position
        /\ handler' = "answered" /\ UNCHANGED <<position, wire, stored>>
        /\ chunk_index < num_chunks /\ position <= ChunkLength(chunk_index)
        /\ measured + total_bytes + position <= stored + unread
    BY <1>7 DEF AnswerUpload, IInv, Bodies, Uploading, Working
  <2>2. /\ ChunkLength(chunk_index) \in Nat /\ unread' \in Nat
        /\ measured + total_bytes + ChunkLength(chunk_index) <= stored + unread'
        /\ measured + total_bytes + position <= stored + unread'
    BY <1>3, <2>1
  <2>3. TypeOK'
    BY <1>1, <2>1, <2>2, PlanIsFixed DEF IInv, TypeOK, time, turn
  <2>4. Uploading'
    BY <1>1, <2>1, <2>2, PlanIsFixed DEF IInv, Bodies, Uploading, turn
  <2>5. Downloading' /\ Working'
    BY <1>1, <2>1, PlanIsFixed DEF Downloading, Working
  <2> QED BY <1>2, <2>3, <2>4, <2>5 DEF IInv, Bodies
<1> QED BY <1>4, <1>5, <1>6, <1>7

(* Time passes only while a timer runs, or to the end of the duration. *)
LEMMA TickStep == IInv /\ Tick => IInv'
<1> SUFFICES ASSUME IInv, Tick PROVE IInv'
  OBVIOUS
<1>1. /\ UNCHANGED <<plan, pc, turns, turn, measured, server, stored, unread>>
      /\ waited' = waited + 1 /\ elapsed' = elapsed + 1
      /\ \/ pc = "request" /\ waited < RequestTimeout
         \/ pc = "pause" /\ waited < Pause
         \/ pc = "loop" /\ elapsed < Duration
  BY DEF Tick
<1>2. TypeOK'
  BY <1>1, PlanIsFixed DEF IInv, TypeOK, turn, server
<1>3. Bodies'
  BY <1>1, PlanIsFixed DEF IInv, Bodies, Downloading, Uploading, Working, turn, server
<1>4. Punctual'
  <2>1. /\ waited \in Nat /\ elapsed \in Nat /\ Duration \in Nat /\ Before \in Nat
        /\ RequestTimeout \in Nat /\ Pause \in Nat /\ TurnLimit \in Nat
    BY TurnLimits, TimeAssumption DEF IInv, TypeOK
  <2>2. Before' = Before
    BY <1>1, PlanIsFixed DEF Before, turn
  <2> QED BY <1>1, <2>1, <2>2, PlanIsFixed DEF IInv, Punctual
<1> QED BY <1>2, <1>3, <1>4 DEF IInv

(* The invariant holds in every state of the test. *)
LEMMA Invariance == Spec => []IInv
<1>1. Init => IInv
  BY InitInv
<1>2. IInv /\ [Next]_vars => IInv'
  <2> SUFFICES ASSUME IInv, [Next]_vars PROVE IInv'
    OBVIOUS
  <2>1. CASE StartTurn
    BY <2>1, StartStep
  <2>2. CASE EndTest \/ PauseOver
    BY <2>2, WaitStep
  <2>3. CASE RequestTimesOut \/ RequestFails
    BY <2>3, GiveUpStep DEF RequestTimesOut, RequestFails
  <2>4. CASE ReceiveBody
    BY <2>4, ReceiveStep
  <2>5. CASE LatencyResponse \/ DownloadResponse
    BY <2>5, ResponseStep
  <2>6. CASE UploadResponse
    BY <2>6, UploadStep
  <2>7. CASE HandleRequest \/ SendChunk \/ ReadBody \/ AnswerUpload
    BY <2>7, HandlerStep
  <2>8. CASE Tick
    BY <2>8, TickStep
  <2>9. CASE UNCHANGED vars
    <3>1. /\ UNCHANGED <<plan, pc, waited, elapsed, turns, chunk_index, total_bytes,
                         measured, handler, position, wire, stored, unread>>
      BY <2>9 DEF vars, plan, time, turn, server
    <3> QED BY <3>1, PlanIsFixed
         DEF IInv, TypeOK, Bodies, Downloading, Uploading, Working, Punctual, Before
  <2> QED
    BY <2>1, <2>2, <2>3, <2>4, <2>5, <2>6, <2>7, <2>8, <2>9 DEF Next, Task, Finished
<1> QED BY <1>1, <1>2, PTL DEF Spec

(***************************************************************************)
(* The theorems.                                                           *)
(***************************************************************************)

(* remaining_bytes never wraps and a turn's sum stays within its payload. *)
THEOREM TypeCorrect == Spec => []TypeOK
<1>1. IInv => TypeOK
  BY DEF IInv
<1> QED BY <1>1, Invariance, PTL

(* Whichever requests fail, a test claims no byte that was not             *)
(* transferred, but for those behind a body error answered with OK.        *)
THEOREM MeasuredHonestly == Spec => []MeasuredIsTrue
<1>1. IInv => MeasuredIsTrue
  <2> SUFFICES ASSUME IInv PROVE MeasuredIsTrue
    OBVIOUS
  <2>1. /\ total_bytes \in Nat /\ position \in Nat /\ measured \in Nat /\ stored \in Nat
        /\ unread \in Nat /\ Prefix(num_chunks) = payload_size
    BY SizeAssumption, ChunksAddUp DEF IInv, TypeOK
  <2>2. ASSUME test = "upload"
        PROVE  measured + (IF pc = "request" THEN total_bytes ELSE 0) <= stored + unread
    BY <2>1, <2>2 DEF IInv, Bodies, Uploading
  <2>3. ASSUME test = "download", pc = "request", handler = "answered"
        PROVE  total_bytes + wire = payload_size
    BY <2>1, <2>3 DEF IInv, Bodies, Downloading
  <2> QED BY <2>2, <2>3 DEF MeasuredIsTrue
<1> QED BY <1>1, Invariance, PTL

(* A test outlasts its duration by one turn at most. *)
THEOREM OverrunIsBounded == Spec => []OverrunBounded
<1>1. IInv => OverrunBounded
  <2> SUFFICES ASSUME IInv PROVE OverrunBounded
    OBVIOUS
  <2>1. /\ waited \in Nat /\ elapsed \in Nat /\ Duration \in Nat /\ Before \in Nat
        /\ RequestTimeout \in Nat /\ Pause \in Nat /\ TurnLimit \in Nat
        /\ pc \in {"loop", "request", "pause", "done"}
        /\ test \in {"latency", "download", "upload"}
    BY TurnLimits, TimeAssumption DEF IInv, TypeOK, Tests
  <2>2. CASE pc = "request"
    <3>1. Before + RequestTimeout <= TurnLimit
      BY <2>1, <2>2, TurnLimits DEF IInv, Bodies, Uploading, Before
    <3> QED BY <2>1, <2>2, <3>1 DEF IInv, Punctual, OverrunBounded
  <2>3. CASE pc = "pause"
    BY <2>1, <2>3, TurnLimits DEF IInv, Punctual, OverrunBounded
  <2> QED BY <2>1, <2>2, <2>3 DEF IInv, Punctual, OverrunBounded
<1> QED BY <1>1, Invariance, PTL
=============================================================================
