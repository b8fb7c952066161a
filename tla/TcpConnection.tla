---------------------------- MODULE TcpConnection ----------------------------
(***************************************************************************)
(* One transfer of the TCP server, handle_upload or handle_download, with  *)
(* its client, the socket buffer between them, and the timers.             *)
(*                                                                         *)
(* Each turn of the loop is a `tokio::select!` over the socket, the        *)
(* shutdown channel and a sleep.  The futures are made anew on every turn, *)
(* so every timer restarts, and the branch not taken is dropped: a         *)
(* write_all that was half done is forgotten with it.                      *)
(*                                                                         *)
(* The loop starts when the command byte is read.  last_activity is older: *)
(* it is stamped when the handler is made, at accept.                      *)
(*                                                                         *)
(* Time is counted in ticks, and a timer is served when it is due.  A      *)
(* select! with several ready branches picks any of them.  Progress        *)
(* reports are left out.                                                   *)
(***************************************************************************)
EXTENDS Integers

CONSTANTS
  CommandTimeout,     \* time a client has for its command byte (5 s)
  IdleCheck,          \* the sleep of handle_upload, in ticks (5 s)
  ProgressCheck,      \* the sleep of handle_download, in ticks (30 s)
  connection_timeout, \* TcpServerConfig.connection_timeout, in ticks
  ReadTimeouts,       \* the values of TcpServerConfig.read_timeout to consider
  max_bytes,          \* TcpServerConfig.max_bytes_per_connection when it is Some
  buffer_size,        \* TcpServerConfig.buffer_size
  SocketBuffer,       \* bytes the kernel holds between server and client
  ClientBytes         \* bound: bytes the client sends or takes

ASSUME TimerAssumption == /\ CommandTimeout \in Nat
                          /\ IdleCheck \in Nat \ {0} /\ ProgressCheck \in Nat \ {0}
                          /\ connection_timeout \in Nat
                          /\ ReadTimeouts \subseteq Nat \ {0}

ASSUME SizeAssumption == /\ max_bytes \in Nat \ {0} /\ buffer_size \in Nat \ {0}
                         /\ SocketBuffer \in Nat \ {0} /\ ClientBytes \in Nat

VARIABLES
  transfer,      \* the command: "upload" or "download"
  read_timeout,  \* TcpServerConfig.read_timeout
  limited,       \* max_bytes_per_connection is Some
  outcome,       \* "open" while the loop runs, then how it ended
  waited,        \* time since the select! of this turn was entered
  idle_for,      \* last_activity.elapsed(), looked at by uploads only
  counted,       \* stats.total_bytes (and total_sent)
  partial,       \* bytes of the running write_all already in the socket
  moved,         \* bytes taken from or put into the socket so far
  buffered,      \* bytes in the socket buffer
  client_bytes,  \* bytes the client has sent or taken
  client_open,   \* the client has its side open
  signalled      \* the handler's receiver holds the shutdown message

config == <<transfer, read_timeout, limited>>
timers == <<waited, idle_for>>
bytes  == <<counted, partial, moved, buffered>>
client == <<client_bytes, client_open>>
vars   == <<config, outcome, timers, bytes, client, signalled>>

Outcomes == {"open", "eof", "limit", "error", "read_timeout", "idle", "shutdown"}

(* The first turn.  An upload has been idle since the connection was       *)
(* accepted, for as long as its client took to send the command byte.      *)
Init ==
  /\ transfer \in {"upload", "download"}
  /\ read_timeout \in ReadTimeouts /\ limited \in BOOLEAN
  /\ outcome = "open"
  /\ waited = 0
  /\ idle_for \in IF transfer = "upload" THEN 0 .. CommandTimeout ELSE {0}
  /\ counted = 0 /\ partial = 0 /\ moved = 0 /\ buffered = 0
  /\ client_bytes = 0 /\ client_open = TRUE
  /\ signalled = FALSE

Uploading   == transfer = "upload" /\ outcome = "open"
Downloading == transfer = "download" /\ outcome = "open"

(* Mutant: the limit must be exceeded. *)
LimitReachedStrict(total) == limited /\ total > max_bytes

LimitReached(total) == limited /\ total >= max_bytes

(* The branch handled: the next turn starts its timers anew. *)
NextTurn == waited' = 0

End(how) == outcome' = how /\ UNCHANGED timers

(***************************************************************************)
(* handle_upload.                                                          *)
(***************************************************************************)

(* read returns n bytes: they are counted, then the limit is looked at. *)
UploadRead ==
  /\ Uploading
  /\ \E n \in 1 .. buffer_size :
       /\ n <= buffered
       /\ buffered' = buffered - n
       /\ moved' = moved + n
       /\ counted' = counted + n
  /\ idle_for' = 0 /\ NextTurn
  /\ outcome' = IF LimitReached(counted') THEN "limit" ELSE "open"
  /\ UNCHANGED <<config, partial, client, signalled>>

UploadEof ==
  /\ Uploading /\ buffered = 0 /\ ~client_open
  /\ End("eof")
  /\ UNCHANGED <<config, bytes, client, signalled>>

ReadError ==
  /\ Uploading
  /\ End("error")
  /\ UNCHANGED <<config, bytes, client, signalled>>

ReadTimeout ==
  /\ Uploading /\ waited >= read_timeout
  /\ End("read_timeout")
  /\ UNCHANGED <<config, bytes, client, signalled>>

(* Mutant: the sleep of the upload is as long as that of the download. *)
UploadSleepOverLate == waited >= ProgressCheck

UploadSleepOver == waited >= IdleCheck

(* Mutant: the check does not look at the time of the last byte. *)
UploadIdleCheckOnly ==
  /\ Uploading /\ UploadSleepOver
  /\ NextTurn /\ UNCHANGED <<idle_for, outcome>>
  /\ UNCHANGED <<config, bytes, client, signalled>>

(* Mutant: the check itself counts as activity. *)
UploadIdleCheckTouches ==
  /\ Uploading /\ UploadSleepOver
  /\ \/ idle_for > connection_timeout /\ End("idle")
     \/ idle_for <= connection_timeout /\ NextTurn /\ idle_for' = 0 /\ outcome' = "open"
  /\ UNCHANGED <<config, bytes, client, signalled>>

(* The sleep ends.  is_idle compares real times, so at exactly             *)
(* connection_timeout ticks it may or may not say idle.                    *)
UploadIdleCheck ==
  /\ Uploading /\ UploadSleepOver
  /\ \/ idle_for >= connection_timeout /\ End("idle")
     \/ idle_for <= connection_timeout /\ NextTurn /\ UNCHANGED <<idle_for, outcome>>
  /\ UNCHANGED <<config, bytes, client, signalled>>

(***************************************************************************)
(* handle_download.                                                        *)
(***************************************************************************)

(* Mutant: the position in the buffer is not reset after a whole write. *)
WriteSomeKeepsPartial ==
  /\ Downloading
  /\ \E n \in 1 .. buffer_size - partial :
       /\ buffered + n <= SocketBuffer
       /\ buffered' = buffered + n
       /\ moved' = moved + n
       /\ partial' = partial + n
       /\ IF partial + n < buffer_size
          THEN UNCHANGED <<counted, waited, outcome>>
          ELSE /\ counted' = counted + buffer_size
               /\ NextTurn
               /\ outcome' = IF LimitReached(counted') THEN "limit" ELSE "open"
  /\ UNCHANGED <<config, idle_for, client, signalled>>

(* write_all puts n more bytes into the socket.  Only a whole buffer ends  *)
(* the turn and is counted.                                                *)
WriteSome ==
  /\ Downloading
  /\ \E n \in 1 .. buffer_size - partial :
       /\ buffered + n <= SocketBuffer
       /\ buffered' = buffered + n
       /\ moved' = moved + n
       /\ \/ /\ partial + n < buffer_size
             /\ partial' = partial + n
             /\ UNCHANGED <<counted, waited, outcome>>
          \/ /\ partial + n = buffer_size
             /\ partial' = 0
             /\ counted' = counted + buffer_size
             /\ NextTurn
             /\ outcome' = IF LimitReached(counted') THEN "limit" ELSE "open"
  /\ UNCHANGED <<config, idle_for, client, signalled>>

WriteError ==
  /\ Downloading
  /\ End("error")
  /\ UNCHANGED <<config, bytes, client, signalled>>

(* Mutant: the dropped write is counted as a whole buffer. *)
DownloadCheckCounts ==
  /\ Downloading /\ waited >= ProgressCheck
  /\ counted' = IF partial > 0 THEN counted + buffer_size ELSE counted
  /\ partial' = 0 /\ NextTurn
  /\ UNCHANGED <<config, outcome, idle_for, moved, buffered, client, signalled>>

(* The sleep ends: the write is dropped where it is, and the next turn     *)
(* writes the buffer from its start.                                       *)
DownloadCheck ==
  /\ Downloading /\ waited >= ProgressCheck
  /\ partial' = 0 /\ NextTurn
  /\ UNCHANGED <<config, outcome, idle_for, counted, moved, buffered, client,
                 signalled>>

(* The shutdown branch of either loop. *)
HandleShutdown ==
  /\ outcome = "open" /\ signalled
  /\ End("shutdown")
  /\ UNCHANGED <<config, bytes, client, signalled>>

(***************************************************************************)
(* The client, the rest of the server, and time.                           *)
(***************************************************************************)
ClientSends ==
  /\ transfer = "upload" /\ client_open
  /\ \E n \in 1 .. buffer_size :
       /\ buffered + n <= SocketBuffer /\ client_bytes + n <= ClientBytes
       /\ buffered' = buffered + n /\ client_bytes' = client_bytes + n
  /\ UNCHANGED <<config, outcome, timers, counted, partial, moved, client_open,
                 signalled>>

ClientTakes ==
  /\ transfer = "download" /\ client_open
  /\ \E n \in 1 .. buffer_size :
       /\ n <= buffered /\ client_bytes + n <= ClientBytes
       /\ buffered' = buffered - n /\ client_bytes' = client_bytes + n
  /\ UNCHANGED <<config, outcome, timers, counted, partial, moved, client_open,
                 signalled>>

ClientCloses ==
  /\ client_open
  /\ client_open' = FALSE
  /\ UNCHANGED <<config, outcome, timers, bytes, client_bytes, signalled>>

Shutdown ==
  /\ outcome = "open" /\ ~signalled
  /\ signalled' = TRUE
  /\ UNCHANGED <<config, outcome, timers, bytes, client>>

TimerDue ==
  \/ Uploading /\ (UploadSleepOver \/ waited >= read_timeout)
  \/ Downloading /\ waited >= ProgressCheck

Tick ==
  /\ outcome = "open" /\ ~TimerDue
  /\ waited' = waited + 1
  /\ idle_for' = IF transfer = "upload" THEN idle_for + 1 ELSE idle_for
  /\ UNCHANGED <<config, outcome, bytes, client, signalled>>

Finished == outcome # "open" /\ UNCHANGED vars

Timer == ReadTimeout \/ UploadIdleCheck \/ DownloadCheck

Next == \/ UploadRead \/ UploadEof \/ ReadError \/ Timer \/ WriteSome \/ WriteError
        \/ HandleShutdown
        \/ ClientSends \/ ClientTakes \/ ClientCloses \/ Shutdown \/ Tick
        \/ Finished

Spec == Init /\ [][Next]_vars

(* Time passes and a due timer wakes the task.  Of two timers due at once  *)
(* either is served.  The client need not do anything.                     *)
LiveSpec == Spec /\ WF_vars(Tick) /\ WF_vars(Timer)

(***************************************************************************)
(* Properties.                                                             *)
(***************************************************************************)

(* Every variable has its type; a write_all in progress is short of its     *)
(* buffer, and the socket holds no more than it can.                       *)
TypeOK ==
  /\ transfer \in {"upload", "download"} /\ read_timeout \in ReadTimeouts
  /\ limited \in BOOLEAN /\ outcome \in Outcomes
  /\ waited \in Nat /\ idle_for \in Nat
  /\ counted \in Nat /\ partial \in 0 .. buffer_size - 1 /\ moved \in Nat
  /\ buffered \in 0 .. SocketBuffer
  /\ client_bytes \in Nat /\ client_open \in BOOLEAN
  /\ signalled \in BOOLEAN

(* A loop that goes on is below its byte limit, and the count passes the   *)
(* limit by less than one buffer: the check after each read or write       *)
(* (server.rs:498, server.rs:576) misses no path round the loop.           *)
LimitOvershoot ==
  limited =>
    /\ outcome = "open" => counted < max_bytes
    /\ counted < max_bytes + buffer_size

(* The statistics never claim a byte that did not pass the socket: an      *)
(* upload's count is exact, and a download's count leaves out what a       *)
(* dropped write_all had already sent.                                     *)
CountedWasMoved ==
  /\ transfer = "upload" => counted = moved
  /\ counted + partial <= moved

(* The idle time an upload may already have when a sleep starts. *)
IdleAtSleep == IF CommandTimeout > connection_timeout THEN CommandTimeout
                                                      ELSE connection_timeout

(* The idle check is made at the end of a sleep that every read restarts.  *)
(* It still ends an upload at most one sleep after connection_timeout, or  *)
(* after the wait for the command byte if that is the longer.              *)
IdleBound == Uploading => idle_for <= IdleAtSleep + IdleCheck

(* The sleep restarts the read timeout each time it ends, so a             *)
(* read_timeout longer than the sleep, as the default of 30 s is, never    *)
(* fires, although server.rs:480 is a "timeout for read operations".       *)
ReadTimeoutNeverFires == read_timeout > IdleCheck => outcome # "read_timeout"

(* An upload ends once its client has sent its last byte, even if the      *)
(* client neither closes nor fails: reads and checks cannot keep each      *)
(* other's timers from expiring for ever.                                  *)
UploadEnds == transfer = "upload" ~> outcome # "open"
=============================================================================
