------------------------ MODULE TcpConnection_proofs ------------------------
(***************************************************************************)
(* The limits of one transfer, for all timer lengths and sizes.            *)
(*                                                                         *)
(* IdleBound is not inductive: a check can only be missed by as long as    *)
(* its own sleep lasts.  Punctual says that no sleep is overdue and that   *)
(* at the start of the running sleep the connection was not yet idle, or   *)
(* the sleep is the first and the client was slow with its command byte.   *)
(***************************************************************************)
EXTENDS TcpConnection, TLAPS

Punctual ==
  outcome = "open" =>
    /\ transfer = "upload" =>
         waited <= IdleCheck /\ idle_for <= IdleAtSleep + waited
    /\ transfer = "download" => waited <= ProgressCheck

IInv == TypeOK /\ Punctual /\ LimitOvershoot /\ CountedWasMoved
               /\ IdleBound /\ ReadTimeoutNeverFires

(* The invariant holds when the transfer starts. *)
LEMMA InitIInv == Init => IInv
<1> SUFFICES ASSUME Init PROVE IInv
  OBVIOUS
<1>1. TypeOK
  <2>1. /\ transfer \in {"upload", "download"} /\ read_timeout \in ReadTimeouts
        /\ limited \in BOOLEAN /\ client_open \in BOOLEAN /\ signalled \in BOOLEAN
    BY Zenon DEF Init
  <2>2. /\ outcome \in Outcomes /\ waited \in Nat /\ idle_for \in Nat
        /\ counted \in Nat /\ partial \in 0 .. buffer_size - 1 /\ moved \in Nat
        /\ buffered \in 0 .. SocketBuffer /\ client_bytes \in Nat
    BY SizeAssumption, TimerAssumption DEF Init, Outcomes
  <2> QED BY <2>1, <2>2, Zenon DEF TypeOK
<1>2. LimitOvershoot /\ CountedWasMoved
  BY SizeAssumption DEF Init, LimitOvershoot, CountedWasMoved
<1>3. Punctual /\ IdleBound /\ ReadTimeoutNeverFires
  BY TimerAssumption DEF Init, Punctual, IdleBound, IdleAtSleep, Uploading, ReadTimeoutNeverFires
<1> QED BY <1>1, <1>2, <1>3 DEF IInv

(* One read: the count grows by at most a buffer from below the limit. *)
LEMMA ReadStep ==
  ASSUME IInv, UploadRead
  PROVE  IInv'
<1>1. PICK n \in 1 .. buffer_size : n <= buffered /\ buffered' = buffered - n
                                    /\ moved' = moved + n /\ counted' = counted + n
  BY DEF UploadRead
<1>2. /\ transfer = "upload" /\ outcome = "open"
      /\ UNCHANGED <<config, partial, client, signalled>>
      /\ idle_for' = 0 /\ waited' = 0
      /\ outcome' = IF LimitReached(counted') THEN "limit" ELSE "open"
  BY DEF UploadRead, Uploading, NextTurn
<1>3. TypeOK'
  BY <1>1, <1>2, SizeAssumption DEF IInv, TypeOK, config, client, Outcomes
<1>4. LimitOvershoot'
  BY <1>1, <1>2, SizeAssumption
  DEF IInv, TypeOK, LimitOvershoot, LimitReached, config
<1>5. CountedWasMoved'
  BY <1>1, <1>2, SizeAssumption DEF IInv, TypeOK, CountedWasMoved, config
<1>6. Punctual' /\ IdleBound' /\ ReadTimeoutNeverFires'
  BY <1>2, TimerAssumption
  DEF Punctual, IdleBound, IdleAtSleep, Uploading, ReadTimeoutNeverFires, config
<1> QED BY <1>3, <1>4, <1>5, <1>6 DEF IInv

(* One step of write_all: only a whole buffer is counted. *)
LEMMA WriteStep ==
  ASSUME IInv, WriteSome
  PROVE  IInv'
<1>1. PICK n \in 1 .. buffer_size - partial :
        /\ buffered + n <= SocketBuffer /\ buffered' = buffered + n
        /\ moved' = moved + n
        /\ \/ /\ partial + n < buffer_size /\ partial' = partial + n
              /\ UNCHANGED <<counted, waited, outcome>>
           \/ /\ partial + n = buffer_size /\ partial' = 0
              /\ counted' = counted + buffer_size /\ waited' = 0
              /\ outcome' = IF LimitReached(counted') THEN "limit" ELSE "open"
  BY DEF WriteSome, NextTurn
<1>2. /\ transfer = "download" /\ outcome = "open"
      /\ UNCHANGED <<config, idle_for, client, signalled>>
  BY DEF WriteSome, Downloading
<1>3. TypeOK'
  BY <1>1, <1>2, SizeAssumption DEF IInv, TypeOK, config, client, Outcomes
<1>4. LimitOvershoot'
  BY <1>1, <1>2, SizeAssumption
  DEF IInv, TypeOK, LimitOvershoot, LimitReached, config
<1>5. CountedWasMoved'
  BY <1>1, <1>2, SizeAssumption DEF IInv, TypeOK, CountedWasMoved, config
<1>6. Punctual' /\ IdleBound' /\ ReadTimeoutNeverFires'
  BY <1>1, <1>2, TimerAssumption
  DEF IInv, Punctual, IdleBound, IdleAtSleep, Uploading, ReadTimeoutNeverFires, config
<1> QED BY <1>3, <1>4, <1>5, <1>6 DEF IInv

(* The timers: a sleep that ends either ends the upload or finds that it   *)
(* has not been idle for long, and the next sleep starts from zero.        *)
LEMMA TimerStep ==
  ASSUME IInv, Timer \/ Tick
  PROVE  IInv'
<1>1. CASE ReadTimeout
  BY <1>1, TimerAssumption
  DEF ReadTimeout, End, timers, config, bytes, client, IInv, TypeOK, Outcomes,
      Punctual, LimitOvershoot, CountedWasMoved, IdleBound, IdleAtSleep, Uploading,
      ReadTimeoutNeverFires
<1>2. CASE UploadIdleCheck
  <2>1. /\ UNCHANGED <<config, bytes, client, signalled, idle_for>>
        /\ transfer = "upload" /\ outcome = "open"
        /\ \/ outcome' = "idle" /\ waited' = waited
           \/ outcome' = "open" /\ waited' = 0 /\ idle_for <= connection_timeout
    BY <1>2 DEF UploadIdleCheck, Uploading, End, NextTurn, timers
  <2> QED
    BY <2>1, TimerAssumption
    DEF config, bytes, client, IInv, TypeOK, Outcomes, Punctual, LimitOvershoot,
        CountedWasMoved, IdleBound, IdleAtSleep, Uploading, ReadTimeoutNeverFires
<1>3. CASE DownloadCheck
  BY <1>3, TimerAssumption, SizeAssumption
  DEF DownloadCheck, Downloading, NextTurn, config, client, IInv, TypeOK,
      Outcomes, Punctual, LimitOvershoot, CountedWasMoved, IdleBound, IdleAtSleep, Uploading,
      ReadTimeoutNeverFires
<1>4. CASE Tick
  <2>1. /\ UNCHANGED <<config, outcome, bytes, client, signalled>>
        /\ outcome = "open" /\ waited' = waited + 1
        /\ idle_for' = IF transfer = "upload" THEN idle_for + 1 ELSE idle_for
        /\ transfer = "upload" => waited < IdleCheck
        /\ transfer = "download" => waited < ProgressCheck
    BY <1>4, TimerAssumption
    DEF Tick, TimerDue, Uploading, Downloading, UploadSleepOver, IInv, TypeOK
  <2> QED
    BY <2>1, TimerAssumption
    DEF config, bytes, client, IInv, TypeOK, Outcomes, Punctual, LimitOvershoot,
        CountedWasMoved, IdleBound, IdleAtSleep, Uploading, ReadTimeoutNeverFires
<1> QED BY <1>1, <1>2, <1>3, <1>4 DEF Timer

(* The loop ends for another reason, or the rest of the system moves. *)
LEMMA OtherStep ==
  ASSUME IInv,
         \/ UploadEof \/ ReadError \/ WriteError \/ HandleShutdown \/ ClientSends
         \/ ClientTakes \/ ClientCloses \/ Shutdown \/ UNCHANGED vars
  PROVE  IInv'
<1> DEFINE Kept == UNCHANGED <<config, counted, partial, moved, timers>>
<1>1. CASE UploadEof \/ ReadError \/ WriteError \/ HandleShutdown
  <2>1. /\ Kept /\ UNCHANGED <<buffered, client, signalled>>
        /\ outcome' \in {"eof", "error", "shutdown"}
    BY <1>1 DEF UploadEof, ReadError, WriteError, HandleShutdown, End, bytes
  <2> QED
    BY <2>1
    DEF config, timers, client, IInv, TypeOK, Outcomes, Punctual, LimitOvershoot,
        CountedWasMoved, IdleBound, IdleAtSleep, Uploading, ReadTimeoutNeverFires
<1>2. CASE ClientSends \/ ClientTakes \/ ClientCloses \/ Shutdown \/ UNCHANGED vars
  <2>1. Kept /\ UNCHANGED outcome
    BY <1>2 DEF ClientSends, ClientTakes, ClientCloses, Shutdown, vars, bytes
  <2>2. buffered' \in 0 .. SocketBuffer /\ client_bytes' \in Nat
    <3>1. CASE ClientSends
      BY <3>1, SizeAssumption DEF ClientSends, IInv, TypeOK
    <3>2. CASE ClientTakes
      BY <3>2, SizeAssumption DEF ClientTakes, IInv, TypeOK
    <3>3. CASE ClientCloses \/ Shutdown \/ UNCHANGED vars
      BY <3>3 DEF ClientCloses, Shutdown, vars, bytes, client, IInv, TypeOK
    <3> QED BY <1>2, <3>1, <3>2, <3>3
  <2>3. client_open' \in BOOLEAN /\ signalled' \in BOOLEAN
    BY <1>2, Zenon
    DEF ClientSends, ClientTakes, ClientCloses, Shutdown, vars, client, IInv, TypeOK
  <2> QED
    BY <2>1, <2>2, <2>3
    DEF config, timers, IInv, TypeOK, Punctual, LimitOvershoot,
        CountedWasMoved, IdleBound, IdleAtSleep, Uploading, ReadTimeoutNeverFires
<1> QED BY <1>1, <1>2

(* IInv is an inductive invariant. *)
THEOREM Invariance == Spec => []IInv
<1>1. IInv /\ [Next]_vars => IInv'
  BY ReadStep, WriteStep, TimerStep, OtherStep DEF Next, Finished
<1> QED BY InitIInv, <1>1, PTL DEF Spec

(* Every variable keeps its type. *)
THEOREM TypeCorrect == Spec => []TypeOK
<1>1. IInv => TypeOK
  BY DEF IInv
<1> QED BY Invariance, <1>1, PTL

(* The byte limit ends the loop, with less than one buffer too many        *)
(* counted (server.rs:498, server.rs:576).                                 *)
THEOREM LimitIsKept == Spec => []LimitOvershoot
<1>1. IInv => LimitOvershoot
  BY DEF IInv
<1> QED BY Invariance, <1>1, PTL

(* The statistics never claim a byte that did not pass the socket. *)
THEOREM CountIsHonest == Spec => []CountedWasMoved
<1>1. IInv => CountedWasMoved
  BY DEF IInv
<1> QED BY Invariance, <1>1, PTL

(* An upload is never idle for longer than one sleep and the larger of     *)
(* connection_timeout and the time it may take to send its command byte,   *)
(* whatever the timers are.                                                *)
THEOREM IdleIsBounded == Spec => []IdleBound
<1>1. IInv => IdleBound
  BY DEF IInv
<1> QED BY Invariance, <1>1, PTL

(* A read_timeout longer than the sleep of handle_upload never fires. *)
THEOREM ReadTimeoutIsDead == Spec => []ReadTimeoutNeverFires
<1>1. IInv => ReadTimeoutNeverFires
  BY DEF IInv
<1> QED BY Invariance, <1>1, PTL
=============================================================================
