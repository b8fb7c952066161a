------------------------------ MODULE TcpServer ------------------------------
(***************************************************************************)
(* The TCP server: its accept loop, the connection semaphore, the two      *)
(* connection counters, one task per connection and graceful shutdown.     *)
(*                                                                         *)
(* Every task runs on its own worker thread, so each access to a shared    *)
(* atomic is a step: the accept loop adds one to active_connections and    *)
(* then stores the sum in the metrics, a handler subtracts one and then    *)
(* stores the difference, and the two pairs interleave.                    *)
(*                                                                         *)
(* Abstractions.  What a client does on its socket (command byte, data,    *)
(* end of stream, reset) and which timer of the transfer loop fires first  *)
(* are choices of the environment; byte and error counts only feed the log *)
(* and are left out.  The broadcast channel is the set of receivers that  *)
(* were subscribed when the one shutdown was sent.                         *)
(***************************************************************************)
EXTENDS Integers, FiniteSets

CONSTANTS
  Conns,           \* the connections clients may open
  max_connections, \* TcpServerConfig.max_connections
  MaxAttempts      \* polls of shutdown() before it gives up (30 in the code)

ASSUME ConnAssumption == IsFiniteSet(Conns)
ASSUME LimitAssumption == max_connections \in Nat /\ MaxAttempts \in Nat

VARIABLES
  accept,             \* where the accept loop is in run()
  phase,              \* where each connection is
  permits,            \* permits left in connection_semaphore
  active_connections, \* TcpServer.active_connections
  metrics_active,     \* TcpServerMetrics.active_connections
  total_connections,  \* TcpServerMetrics.total_connections
  published,          \* the sum the accept loop is about to store
  remaining,          \* the difference each handler is about to store
  subscribed,         \* connections whose handler has resubscribed
  signalled,          \* connections whose receiver holds the shutdown message
  accept_signalled,   \* the accept loop's receiver holds it
  shutdown,           \* where shutdown() is
  attempts,           \* its poll counter
  uncounted           \* history: handlers that returned without fetch_sub

accepting == <<accept, published, total_connections>>
counters  == <<active_connections, metrics_active>>
channel   == <<subscribed, signalled, accept_signalled>>
stopping  == <<shutdown, attempts>>
vars      == <<accepting, phase, permits, counters, remaining,
               channel, stopping, uncounted>>

(* Phases in which the handler, or the accept loop for it, has a permit. *)
Holding == {"admitted", "counted", "spawned", "command", "upload", "download",
            "closing", "storing", "returning"}

(* Phases between fetch_add and fetch_sub on active_connections. *)
Counted == {"counted", "spawned", "command", "upload", "download", "closing"}

Ended == {"rejected", "returned"}

Phases == {"none", "backlog"} \cup Holding \cup Ended

InPhase(P) == {c \in Conns : phase[c] \in P}

Init ==
  /\ accept = "bind" /\ published = 0 /\ total_connections = 0
  /\ phase = [c \in Conns |-> "none"]
  /\ permits = max_connections
  /\ active_connections = 0 /\ metrics_active = 0
  /\ remaining = [c \in Conns |-> 0]
  /\ subscribed = {} /\ signalled = {} /\ accept_signalled = FALSE
  /\ shutdown = "idle" /\ attempts = 0
  /\ uncounted = {}

(***************************************************************************)
(* The accept loop.                                                        *)
(***************************************************************************)

(* bind and subscribe: a shutdown sent before this is not heard. *)
Bind ==
  /\ accept = "bind"
  /\ accept' \in {"select", "stopped"}
  /\ UNCHANGED <<published, total_connections, phase, permits, counters,
                 remaining, channel, stopping, uncounted>>

(* A client connects: the kernel queues the connection. *)
Connect(c) ==
  /\ accept \notin {"bind", "stopped"} /\ phase[c] = "none"
  /\ phase' = [phase EXCEPT ![c] = "backlog"]
  /\ UNCHANGED <<accepting, permits, counters, remaining, channel, stopping,
                 uncounted>>

(* Mutant: the result of try_acquire is not checked. *)
CanAdmitUnchecked == permits <= max_connections

CanAdmit == permits > 0

(* try_acquire_owned succeeds. *)
Admit(c) ==
  /\ accept = "select" /\ phase[c] = "backlog" /\ CanAdmit
  /\ permits' = permits - 1
  /\ total_connections' = total_connections + 1
  /\ phase' = [phase EXCEPT ![c] = "admitted"]
  /\ accept' = "admit"
  /\ UNCHANGED <<published, counters, remaining, channel, stopping, uncounted>>

(* It fails: the socket is dropped. *)
Reject(c) ==
  /\ accept = "select" /\ phase[c] = "backlog" /\ ~CanAdmit
  /\ phase' = [phase EXCEPT ![c] = "rejected"]
  /\ UNCHANGED <<accepting, permits, counters, remaining, channel, stopping,
                 uncounted>>

(* active_connections.fetch_add(1) + 1. *)
CountActive(c) ==
  /\ accept = "admit" /\ phase[c] = "admitted"
  /\ active_connections' = active_connections + 1
  /\ published' = active_connections + 1
  /\ phase' = [phase EXCEPT ![c] = "counted"]
  /\ UNCHANGED <<accept, total_connections, permits, metrics_active, remaining,
                 channel, stopping, uncounted>>

(* metrics.active_connections.store, then the handler is spawned. *)
SpawnHandler(c) ==
  /\ accept = "admit" /\ phase[c] = "counted"
  /\ metrics_active' = published
  /\ phase' = [phase EXCEPT ![c] = "spawned"]
  /\ accept' = "select"
  /\ UNCHANGED <<published, total_connections, permits, active_connections,
                 remaining, channel, stopping, uncounted>>

(* accept() fails: a brief pause, then the loop goes on. *)
AcceptError ==
  /\ accept \in {"select", "paused"}
  /\ accept' = IF accept = "select" THEN "paused" ELSE "select"
  /\ UNCHANGED <<published, total_connections, phase, permits, counters,
                 remaining, channel, stopping, uncounted>>

(* The shutdown branch: run() returns and the listener resets its queue. *)
StopAccepting ==
  /\ accept = "select" /\ accept_signalled
  /\ accept' = "stopped"
  /\ phase' = [c \in Conns |-> IF phase[c] = "backlog" THEN "rejected" ELSE phase[c]]
  /\ UNCHANGED <<published, total_connections, permits, counters, remaining,
                 channel, stopping, uncounted>>

(***************************************************************************)
(* A connection's task: ProductionTcpHandler::handle.                      *)
(***************************************************************************)

(* configure_socket and resubscribe: what was sent before is not heard. *)
StartHandler(c) ==
  /\ phase[c] = "spawned"
  /\ phase' = [phase EXCEPT ![c] = "command"]
  /\ subscribed' = subscribed \cup {c}
  /\ UNCHANGED <<accepting, permits, counters, remaining, signalled,
                 accept_signalled, stopping, uncounted>>

(* The command byte arrives; an unknown one closes the connection. *)
ReadCommand(c) ==
  /\ phase[c] = "command"
  /\ \E p \in {"upload", "download", "closing"} : phase' = [phase EXCEPT ![c] = p]
  /\ UNCHANGED <<accepting, permits, counters, remaining, channel, stopping,
                 uncounted>>

(* Mutant: the early return keeps the permit. *)
CommandFailsKeepsPermit(c) ==
  /\ phase[c] = "command"
  /\ phase' = [phase EXCEPT ![c] = "returned"]
  /\ uncounted' = uncounted \cup {c}
  /\ UNCHANGED <<accepting, permits, counters, remaining, channel, stopping>>

(* No command byte within five seconds, or the read fails (the latency     *)
(* probe closes without one): handle() returns at once.  The permit goes   *)
(* with the handler; active_connections is not decremented.                *)
CommandFails(c) ==
  /\ phase[c] = "command"
  /\ phase' = [phase EXCEPT ![c] = "returned"]
  /\ permits' = permits + 1
  /\ uncounted' = uncounted \cup {c}
  /\ UNCHANGED <<accepting, counters, remaining, channel, stopping>>

(* The transfer loop ends by itself: end of stream, byte limit or idle     *)
(* timeout, read timeout or an I/O error.                                  *)
TransferEnds(c) ==
  /\ phase[c] \in {"upload", "download"}
  /\ phase' = [phase EXCEPT ![c] = "closing"]
  /\ UNCHANGED <<accepting, permits, counters, remaining, channel, stopping,
                 uncounted>>

(* Mutant: only the upload loop listens for the shutdown. *)
TransferShutdownUploadOnly(c) ==
  /\ phase[c] = "upload" /\ c \in signalled
  /\ phase' = [phase EXCEPT ![c] = "closing"]
  /\ UNCHANGED <<accepting, permits, counters, remaining, channel, stopping,
                 uncounted>>

(* The shutdown branch of the transfer loop. *)
TransferShutdown(c) ==
  /\ phase[c] \in {"upload", "download"} /\ c \in signalled
  /\ phase' = [phase EXCEPT ![c] = "closing"]
  /\ UNCHANGED <<accepting, permits, counters, remaining, channel, stopping,
                 uncounted>>

(* Mutant: the counter is read instead of decremented. *)
UncountActiveReadOnly(c) ==
  /\ phase[c] = "closing"
  /\ remaining' = [remaining EXCEPT ![c] = active_connections - 1]
  /\ phase' = [phase EXCEPT ![c] = "storing"]
  /\ UNCHANGED <<accepting, permits, counters, channel, stopping, uncounted>>

(* active_connections.fetch_sub(1) - 1. *)
UncountActive(c) ==
  /\ phase[c] = "closing"
  /\ active_connections' = active_connections - 1
  /\ remaining' = [remaining EXCEPT ![c] = active_connections - 1]
  /\ phase' = [phase EXCEPT ![c] = "storing"]
  /\ UNCHANGED <<accepting, permits, metrics_active, channel, stopping,
                 uncounted>>

(* metrics.active_connections.store(remaining). *)
StoreRemaining(c) ==
  /\ phase[c] = "storing"
  /\ metrics_active' = remaining[c]
  /\ phase' = [phase EXCEPT ![c] = "returning"]
  /\ UNCHANGED <<accepting, permits, active_connections, remaining, channel,
                 stopping, uncounted>>

(* The handler is dropped and its permit with it. *)
DropHandler(c) ==
  /\ phase[c] = "returning"
  /\ permits' = permits + 1
  /\ phase' = [phase EXCEPT ![c] = "returned"]
  /\ UNCHANGED <<accepting, counters, remaining, channel, stopping, uncounted>>

(***************************************************************************)
(* shutdown(), called by another task.                                     *)
(***************************************************************************)
SendShutdown ==
  /\ shutdown = "idle"
  /\ shutdown' = "waiting"
  /\ signalled' = subscribed
  /\ accept_signalled' = (accept # "bind")
  /\ UNCHANGED <<accepting, phase, permits, counters, remaining, subscribed,
                 attempts, uncounted>>

MayPoll == active_connections > 0 /\ attempts < MaxAttempts

(* Mutant: the poll counter is not advanced. *)
PollActiveUncounted ==
  /\ shutdown = "waiting"
  /\ shutdown' = IF MayPoll THEN shutdown ELSE "done"
  /\ UNCHANGED <<accepting, phase, permits, counters, remaining, channel,
                 attempts, uncounted>>

(* One turn of the wait: sleep 100 ms, or give up ("force closing" is only *)
(* logged) or find the counter at zero.                                    *)
PollActive ==
  /\ shutdown = "waiting"
  /\ IF MayPoll
     THEN attempts' = attempts + 1 /\ shutdown' = shutdown
     ELSE attempts' = attempts /\ shutdown' = "done"
  /\ UNCHANGED <<accepting, phase, permits, counters, remaining, channel,
                 uncounted>>

Finished ==
  /\ shutdown = "done" /\ accept = "stopped" /\ InPhase(Holding) = {}
  /\ UNCHANGED vars

Handler(c) == \/ StartHandler(c) \/ ReadCommand(c) \/ CommandFails(c)
              \/ TransferEnds(c) \/ TransferShutdown(c)
              \/ UncountActive(c) \/ StoreRemaining(c) \/ DropHandler(c)

AcceptLoop(c) == \/ Connect(c) \/ Admit(c) \/ Reject(c)
                 \/ CountActive(c) \/ SpawnHandler(c)

Next == \/ Bind \/ AcceptError \/ StopAccepting \/ SendShutdown \/ PollActive
        \/ \E c \in Conns : AcceptLoop(c) \/ Handler(c)
        \/ Finished

Spec == Init /\ [][Next]_vars

(* A task's next own step is eventually taken; the five-second timer of    *)
(* the command read fires; a select! picks its branches at random, so a    *)
(* shutdown message that stays ready is eventually picked.  Nothing is     *)
(* assumed of clients: a transfer need not end by itself.                  *)
Fairness ==
  /\ WF_vars(PollActive)
  /\ \A c \in Conns :
       /\ WF_vars(CountActive(c)) /\ WF_vars(SpawnHandler(c))
       /\ WF_vars(StartHandler(c)) /\ WF_vars(CommandFails(c))
       /\ WF_vars(TransferShutdown(c)) /\ WF_vars(UncountActive(c))
       /\ WF_vars(StoreRemaining(c)) /\ WF_vars(DropHandler(c))

LiveSpec == Spec /\ Fairness

(***************************************************************************)
(* Properties.                                                             *)
(***************************************************************************)

(* Every variable has its type; the counters are unsigned in the code. *)
TypeOK ==
  /\ accept \in {"bind", "select", "paused", "admit", "stopped"}
  /\ phase \in [Conns -> Phases]
  /\ permits \in 0 .. max_connections
  /\ active_connections \in Nat /\ metrics_active \in Nat
  /\ total_connections \in Nat
  /\ published \in Nat /\ remaining \in [Conns -> Nat]
  /\ subscribed \subseteq Conns /\ signalled \subseteq subscribed
  /\ accept_signalled \in BOOLEAN
  /\ shutdown \in {"idle", "waiting", "done"} /\ attempts \in 0 .. MaxAttempts
  /\ uncounted \subseteq Conns

(* Every permit is in the semaphore or with exactly one connection, on     *)
(* every path out of handle(): the limit on concurrent connections holds   *)
(* and capacity is never lost.                                             *)
PermitsConserved == permits + Cardinality(InPhase(Holding)) = max_connections

(* What the clients see of all this: the semaphore, the queue and the      *)
(* handlers' tasks keep the promise of Admission, in which a connection is *)
(* served as long as it holds a permit, and refused only when the server   *)
(* is full or closes.                                                      *)
Standing(p) == CASE p = "none"     -> "away"
                 [] p = "backlog"  -> "waiting"
                 [] p \in Holding  -> "served"
                 [] p = "rejected" -> "refused"
                 [] p = "returned" -> "left"

Door == INSTANCE Admission WITH
          Visitors <- Conns,
          Limit    <- max_connections,
          standing <- [c \in Conns |-> Standing(phase[c])],
          open     <- (accept # "stopped")

ImplementsAdmission == Door!Spec

(* active_connections is the number of handlers between their fetch_add    *)
(* and fetch_sub plus those that left by the early returns of the command  *)
(* read, so `fetch_sub(1) - 1` (server.rs:450) never wraps.                *)
ActiveAccounted ==
  active_connections = Cardinality(InPhase(Counted)) + Cardinality(uncounted)

(* A handler whose receiver got the shutdown message ends, whatever its    *)
(* client does.                                                            *)
SignalledHandlersEnd == \A c \in Conns : c \in signalled ~> phase[c] = "returned"

(* shutdown() returns even when a counted connection never goes away. *)
ShutdownReturns == shutdown = "waiting" ~> shutdown = "done"

(* server.rs:449, "Update active connection count and metrics": once no    *)
(* handler is left, no connection is counted as active.                    *)
NoneActiveWhenIdle == InPhase(Holding) = {} => active_connections = 0
=============================================================================
