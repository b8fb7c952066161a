--------------------------- MODULE TcpServer_proofs ---------------------------
(***************************************************************************)
(* Proofs about the TCP server, for every set of connections and every     *)
(* limit.                                                                  *)
(*                                                                         *)
(* Both facts are counts over the phases of the connections: a permit is   *)
(* out exactly in the phases of Holding, a connection counts in            *)
(* active_connections exactly in those of Counted, or for ever once it has *)
(* left by an early return.  The types need the counts (a counter of n     *)
(* members stays natural when one leaves) and the counts need the types,   *)
(* so they are one invariant.                                              *)
(*                                                                         *)
(* With the counts a permit is left exactly when the server is not full,   *)
(* so each step of a connection is one that Admission allows.              *)
(***************************************************************************)
EXTENDS TcpServer, FiniteSetTheorems, TLAPS

IInv ==
  /\ TypeOK
  /\ PermitsConserved
  /\ ActiveAccounted
  /\ \A c \in uncounted : phase[c] = "returned"

(* A set of connections picked by phase is finite. *)
LEMMA InPhaseFinite ==
  ASSUME NEW P
  PROVE  /\ IsFiniteSet(InPhase(P))
         /\ Cardinality(InPhase(P)) \in Nat
<1>1. IsFiniteSet(InPhase(P))
  BY ConnAssumption, FS_Subset DEF InPhase
<1> QED BY <1>1, FS_CardinalityType

(* When connection c moves to phase p, the number of connections in a set  *)
(* of phases grows if c enters the set and shrinks if it leaves it.        *)
LEMMA MoveCount ==
  ASSUME NEW P, NEW c \in Conns, NEW p \in Phases,
         phase \in [Conns -> Phases], phase' = [phase EXCEPT ![c] = p]
  PROVE  /\ p \in P /\ phase[c] \in P =>
              Cardinality(InPhase(P)') = Cardinality(InPhase(P))
         /\ p \notin P /\ phase[c] \notin P =>
              Cardinality(InPhase(P)') = Cardinality(InPhase(P))
         /\ p \in P /\ phase[c] \notin P =>
              Cardinality(InPhase(P)') = Cardinality(InPhase(P)) + 1
         /\ p \notin P /\ phase[c] \in P =>
              /\ Cardinality(InPhase(P)') = Cardinality(InPhase(P)) - 1
              /\ Cardinality(InPhase(P)) > 0
<1>1. IsFiniteSet(InPhase(P)) /\ Cardinality(InPhase(P)) \in Nat
  BY InPhaseFinite
<1>2. p \in P => InPhase(P)' = InPhase(P) \cup {c}
  BY DEF InPhase
<1>3. p \notin P => InPhase(P)' = InPhase(P) \ {c}
  BY DEF InPhase
<1>4. c \in InPhase(P) <=> phase[c] \in P
  BY DEF InPhase
<1>5. CASE p \in P
  BY <1>1, <1>2, <1>4, <1>5, FS_AddElement
<1>6. CASE p \notin P
  <2>1. Cardinality(InPhase(P)') =
          IF c \in InPhase(P) THEN Cardinality(InPhase(P)) - 1
                              ELSE Cardinality(InPhase(P))
    BY <1>1, <1>3, <1>6, FS_RemoveElement
  <2>2. c \in InPhase(P) => Cardinality(InPhase(P)) > 0
    BY <1>1, FS_EmptySet
  <2> QED BY <1>4, <1>6, <2>1, <2>2
<1> QED BY <1>5, <1>6

(* Moves of a connection that change neither counter's set. *)
LEMMA NeutralMove ==
  ASSUME IInv, NEW c \in Conns, NEW p \in Phases,
         phase' = [phase EXCEPT ![c] = p],
         p \in Holding <=> phase[c] \in Holding,
         p \in Counted <=> phase[c] \in Counted,
         phase[c] # "returned",
         UNCHANGED <<permits, active_connections, uncounted>>
  PROVE  /\ (PermitsConserved /\ ActiveAccounted)'
         /\ (\A d \in uncounted : phase[d] = "returned")'
<1>1. phase \in [Conns -> Phases] /\ uncounted \subseteq Conns
  BY DEF IInv, TypeOK
<1>2. /\ Cardinality(InPhase(Holding)') = Cardinality(InPhase(Holding))
      /\ Cardinality(InPhase(Counted)') = Cardinality(InPhase(Counted))
  BY <1>1, MoveCount
<1>3. c \notin uncounted
  BY DEF IInv
<1> QED BY <1>1, <1>2, <1>3 DEF IInv, PermitsConserved, ActiveAccounted

(* The invariant holds when the server is built. *)
LEMMA InitIInv == Init => IInv
<1> SUFFICES ASSUME Init PROVE IInv
  OBVIOUS
<1>1. TypeOK
  <2>1. permits \in 0 .. max_connections /\ attempts \in 0 .. MaxAttempts
    BY LimitAssumption DEF Init
  <2>2. phase \in [Conns -> Phases] /\ remaining \in [Conns -> Nat]
    BY DEF Init, Phases
  <2>3. /\ accept \in {"bind", "select", "paused", "admit", "stopped"}
        /\ shutdown \in {"idle", "waiting", "done"}
    BY DEF Init
  <2> QED BY <2>1, <2>2, <2>3 DEF Init, TypeOK
<1>2. InPhase(Holding) = {} /\ InPhase(Counted) = {}
  BY DEF Init, InPhase, Holding, Counted
<1> QED BY <1>1, <1>2, FS_EmptySet, LimitAssumption
        DEF Init, IInv, PermitsConserved, ActiveAccounted

(* Steps that move no connection. *)
LEMMA QuietStep ==
  ASSUME IInv, Bind \/ AcceptError \/ SendShutdown \/ PollActive
  PROVE  IInv'
<1>1. /\ UNCHANGED <<phase, permits, counters, remaining, subscribed, uncounted,
                     published, total_connections>>
  BY DEF Bind, AcceptError, SendShutdown, PollActive, accepting, channel
<1>2. TypeOK'
  <2>1. accept' \in {"bind", "select", "paused", "admit", "stopped"}
    BY DEF IInv, TypeOK, Bind, AcceptError, SendShutdown, PollActive, accepting
  <2>2. signalled' \subseteq subscribed /\ accept_signalled' \in BOOLEAN
    BY DEF IInv, TypeOK, Bind, AcceptError, SendShutdown, PollActive, channel
  <2>3. shutdown' \in {"idle", "waiting", "done"} /\ attempts' \in 0 .. MaxAttempts
    BY LimitAssumption DEF IInv, TypeOK, Bind, AcceptError, SendShutdown, PollActive,
       MayPoll, stopping
  <2> QED BY <1>1, <2>1, <2>2, <2>3 DEF IInv, TypeOK, counters
<1> QED BY <1>1, <1>2 DEF IInv, PermitsConserved, ActiveAccounted, InPhase, counters

(* Steps that move a connection but touch neither permits nor the counter. *)
LEMMA MovingStep ==
  ASSUME IInv, NEW c \in Conns,
         \/ Connect(c) \/ Reject(c) \/ SpawnHandler(c) \/ StartHandler(c)
         \/ ReadCommand(c) \/ TransferEnds(c) \/ TransferShutdown(c)
         \/ StoreRemaining(c)
  PROVE  IInv'
<1> USE DEF Connect, Reject, SpawnHandler, StartHandler, ReadCommand, TransferEnds,
            TransferShutdown, StoreRemaining, accepting, counters, channel, stopping
<1>1. PICK p \in Phases :
        /\ phase' = [phase EXCEPT ![c] = p]
        /\ p \in Holding <=> phase[c] \in Holding
        /\ p \in Counted <=> phase[c] \in Counted
        /\ phase[c] # "returned"
  BY DEF Phases, Holding, Counted, Ended
<1>2. UNCHANGED <<permits, active_connections, uncounted>>
  OBVIOUS
<1>3. TypeOK'
  BY <1>1, <1>2 DEF IInv, TypeOK
<1> QED BY <1>1, <1>2, <1>3, NeutralMove DEF IInv

(* Stopping the accept loop rejects the queue. *)
LEMMA StopStep ==
  ASSUME IInv, StopAccepting
  PROVE  IInv'
<1> USE DEF StopAccepting, counters, channel, stopping
<1>1. TypeOK'
  BY DEF IInv, TypeOK, Phases, Ended
<1>2. InPhase(Holding)' = InPhase(Holding) /\ InPhase(Counted)' = InPhase(Counted)
  BY DEF InPhase, Holding, Counted
<1>3. \A c \in uncounted' : phase'[c] = "returned"
  BY DEF IInv, TypeOK
<1> QED BY <1>1, <1>2, <1>3 DEF IInv, PermitsConserved, ActiveAccounted

(* A permit is taken for a connection from the queue. *)
LEMMA AdmitStep ==
  ASSUME IInv, NEW c \in Conns, Admit(c)
  PROVE  IInv'
<1> USE DEF Admit, CanAdmit, counters, channel, stopping
<1>1. phase \in [Conns -> Phases] /\ "admitted" \in Phases
  BY DEF IInv, TypeOK, Phases, Holding
<1>2. /\ Cardinality(InPhase(Holding)') = Cardinality(InPhase(Holding)) + 1
      /\ Cardinality(InPhase(Counted)') = Cardinality(InPhase(Counted))
  <2>1. /\ "admitted" \in Holding /\ phase[c] \notin Holding
        /\ "admitted" \notin Counted /\ phase[c] \notin Counted
    BY DEF Holding, Counted
  <2> QED BY <1>1, <2>1, MoveCount
<1>3. TypeOK'
  BY <1>1, LimitAssumption DEF IInv, TypeOK
<1>4. PermitsConserved' /\ ActiveAccounted'
  BY <1>2, InPhaseFinite, LimitAssumption
     DEF IInv, TypeOK, PermitsConserved, ActiveAccounted
<1> QED BY <1>1, <1>3, <1>4 DEF IInv, TypeOK

(* fetch_add counts the admitted connection. *)
LEMMA CountStep ==
  ASSUME IInv, NEW c \in Conns, CountActive(c)
  PROVE  IInv'
<1> USE DEF CountActive, channel, stopping
<1>1. phase \in [Conns -> Phases] /\ "counted" \in Phases
  BY DEF IInv, TypeOK, Phases, Holding
<1>2. /\ Cardinality(InPhase(Holding)') = Cardinality(InPhase(Holding))
      /\ Cardinality(InPhase(Counted)') = Cardinality(InPhase(Counted)) + 1
  <2>1. /\ "counted" \in Holding /\ phase[c] \in Holding
        /\ "counted" \in Counted /\ phase[c] \notin Counted
    BY DEF Holding, Counted
  <2> QED BY <1>1, <2>1, MoveCount
<1>3. TypeOK'
  BY <1>1 DEF IInv, TypeOK
<1>4. Cardinality(uncounted) \in Nat
  BY ConnAssumption, FS_Subset, FS_CardinalityType DEF IInv, TypeOK
<1>5. PermitsConserved' /\ ActiveAccounted'
  BY <1>2, <1>4, InPhaseFinite DEF IInv, TypeOK, PermitsConserved, ActiveAccounted
<1> QED BY <1>1, <1>3, <1>5 DEF IInv, TypeOK

(* The early return gives the permit back and leaves the counter behind. *)
LEMMA CommandFailsStep ==
  ASSUME IInv, NEW c \in Conns, CommandFails(c)
  PROVE  IInv'
<1> USE DEF CommandFails, accepting, counters, channel, stopping
<1>1. phase \in [Conns -> Phases] /\ "returned" \in Phases
  BY DEF IInv, TypeOK, Phases, Ended
<1>2. /\ Cardinality(InPhase(Holding)') = Cardinality(InPhase(Holding)) - 1
      /\ Cardinality(InPhase(Holding)) > 0
      /\ Cardinality(InPhase(Counted)') = Cardinality(InPhase(Counted)) - 1
  <2>1. /\ "returned" \notin Holding /\ phase[c] \in Holding
        /\ "returned" \notin Counted /\ phase[c] \in Counted
    BY DEF Holding, Counted
  <2> QED BY <1>1, <2>1, MoveCount
<1>3. /\ Cardinality(uncounted') = Cardinality(uncounted) + 1
      /\ Cardinality(uncounted) \in Nat
  <2>1. IsFiniteSet(uncounted) /\ c \notin uncounted
    BY ConnAssumption, FS_Subset DEF IInv, TypeOK
  <2> QED BY <2>1, FS_AddElement, FS_CardinalityType
<1>4. PermitsConserved' /\ ActiveAccounted'
  BY <1>2, <1>3, InPhaseFinite, LimitAssumption
     DEF IInv, TypeOK, PermitsConserved, ActiveAccounted
<1>5. TypeOK'
  BY <1>1, <1>2, InPhaseFinite, LimitAssumption DEF IInv, TypeOK, PermitsConserved
<1> QED BY <1>1, <1>4, <1>5 DEF IInv, TypeOK

(* fetch_sub on a counted connection leaves a natural number. *)
LEMMA UncountStep ==
  ASSUME IInv, NEW c \in Conns, UncountActive(c)
  PROVE  IInv'
<1> USE DEF UncountActive, accepting, channel, stopping
<1>1. phase \in [Conns -> Phases] /\ "storing" \in Phases
  BY DEF IInv, TypeOK, Phases, Holding
<1>2. /\ Cardinality(InPhase(Holding)') = Cardinality(InPhase(Holding))
      /\ Cardinality(InPhase(Counted)') = Cardinality(InPhase(Counted)) - 1
      /\ Cardinality(InPhase(Counted)) > 0
  <2>1. /\ "storing" \in Holding /\ phase[c] \in Holding
        /\ "storing" \notin Counted /\ phase[c] \in Counted
    BY DEF Holding, Counted
  <2> QED BY <1>1, <2>1, MoveCount
<1>3. Cardinality(uncounted) \in Nat
  BY ConnAssumption, FS_Subset, FS_CardinalityType DEF IInv, TypeOK
<1>4. active_connections - 1 \in Nat
  BY <1>2, <1>3, InPhaseFinite DEF IInv, TypeOK, ActiveAccounted
<1>5. TypeOK'
  BY <1>1, <1>4 DEF IInv, TypeOK
<1>6. PermitsConserved' /\ ActiveAccounted'
  BY <1>2, <1>3, InPhaseFinite DEF IInv, TypeOK, PermitsConserved, ActiveAccounted
<1> QED BY <1>1, <1>5, <1>6 DEF IInv, TypeOK

(* Dropping the handler gives its permit back. *)
LEMMA DropStep ==
  ASSUME IInv, NEW c \in Conns, DropHandler(c)
  PROVE  IInv'
<1> USE DEF DropHandler, accepting, counters, channel, stopping
<1>1. phase \in [Conns -> Phases] /\ "returned" \in Phases
  BY DEF IInv, TypeOK, Phases, Ended
<1>2. /\ Cardinality(InPhase(Holding)') = Cardinality(InPhase(Holding)) - 1
      /\ Cardinality(InPhase(Holding)) > 0
      /\ Cardinality(InPhase(Counted)') = Cardinality(InPhase(Counted))
  <2>1. /\ "returned" \notin Holding /\ phase[c] \in Holding
        /\ "returned" \notin Counted /\ phase[c] \notin Counted
    BY DEF Holding, Counted
  <2> QED BY <1>1, <2>1, MoveCount
<1>3. TypeOK'
  BY <1>1, <1>2, InPhaseFinite, LimitAssumption DEF IInv, TypeOK, PermitsConserved
<1>4. PermitsConserved' /\ ActiveAccounted'
  BY <1>2, InPhaseFinite, LimitAssumption
     DEF IInv, TypeOK, PermitsConserved, ActiveAccounted
<1> QED BY <1>1, <1>3, <1>4 DEF IInv, TypeOK

(* The invariant holds in every reachable state of the server. *)
THEOREM Invariance == Spec => []IInv
<1>1. IInv /\ [Next]_vars => IInv'
  <2> SUFFICES ASSUME IInv, [Next]_vars PROVE IInv'
    OBVIOUS
  <2>1. CASE Bind \/ AcceptError \/ SendShutdown \/ PollActive
    BY <2>1, QuietStep
  <2>2. CASE StopAccepting
    BY <2>2, StopStep
  <2>3. CASE \E c \in Conns : AcceptLoop(c) \/ Handler(c)
    <3>1. PICK c \in Conns : AcceptLoop(c) \/ Handler(c)
      BY <2>3
    <3>2. CASE \/ Connect(c) \/ Reject(c) \/ SpawnHandler(c) \/ StartHandler(c)
               \/ ReadCommand(c) \/ TransferEnds(c) \/ TransferShutdown(c)
               \/ StoreRemaining(c)
      BY <3>2, MovingStep
    <3>3. CASE Admit(c)
      BY <3>3, AdmitStep
    <3>4. CASE CountActive(c)
      BY <3>4, CountStep
    <3>5. CASE CommandFails(c)
      BY <3>5, CommandFailsStep
    <3>6. CASE UncountActive(c)
      BY <3>6, UncountStep
    <3>7. CASE DropHandler(c)
      BY <3>7, DropStep
    <3> QED BY <3>1, <3>2, <3>3, <3>4, <3>5, <3>6, <3>7 DEF AcceptLoop, Handler
  <2>4. CASE Finished \/ UNCHANGED vars
    <3>1. UNCHANGED <<accept, phase, permits, active_connections, metrics_active,
                      total_connections, published, remaining, subscribed, signalled,
                      accept_signalled, shutdown, attempts, uncounted>>
      BY <2>4 DEF Finished, vars, accepting, counters, channel, stopping
    <3> QED BY <3>1 DEF IInv, TypeOK, PermitsConserved, ActiveAccounted, InPhase
  <2> QED BY <2>1, <2>2, <2>3, <2>4 DEF Next
<1> QED BY <1>1, InitIInv, PTL DEF Spec

(* The type invariant of the server: no counter wraps. *)
THEOREM TypeCorrect == Spec => []TypeOK
<1>1. IInv => TypeOK
  BY DEF IInv
<1> QED BY <1>1, Invariance, PTL

(* No permit is lost or duplicated on any path through a handler. *)
THEOREM PermitsAreConserved == Spec => []PermitsConserved
<1>1. IInv => PermitsConserved
  BY DEF IInv
<1> QED BY <1>1, Invariance, PTL

(* active_connections exceeds the counted handlers exactly by the early    *)
(* returns.                                                                *)
THEOREM ActiveIsAccounted == Spec => []ActiveAccounted
<1>1. IInv => ActiveAccounted
  BY DEF IInv
<1> QED BY <1>1, Invariance, PTL

(* The number of connections served at once never exceeds the limit. *)
THEOREM ConnectionLimit ==
  Spec => [](Cardinality(InPhase(Holding)) <= max_connections)
<1>1. IInv => Cardinality(InPhase(Holding)) <= max_connections
  BY InPhaseFinite, LimitAssumption DEF IInv, TypeOK, PermitsConserved
<1> QED BY <1>1, Invariance, PTL

(***************************************************************************)
(* The server keeps the promise of Admission.  A step moves at most one    *)
(* connection, and the counts above say that the semaphore has a permit    *)
(* exactly when fewer than max_connections are served.  The one fact still *)
(* missing is that nobody waits before the server is bound: run() may      *)
(* return from there too, and then it closes without refusing anybody.     *)
(***************************************************************************)
NobodyBeforeBind == accept = "bind" => \A c \in Conns : phase[c] = "none"

LEMMA BindComesFirst == Spec => []NobodyBeforeBind
<1>1. Init => NobodyBeforeBind
  BY DEF Init, NobodyBeforeBind
<1>2. TypeOK /\ NobodyBeforeBind /\ [Next]_vars => NobodyBeforeBind'
  <2> SUFFICES ASSUME TypeOK, NobodyBeforeBind, [Next]_vars, accept' = "bind"
               PROVE  \A c \in Conns : phase'[c] = "none"
    BY DEF NobodyBeforeBind
  <2>1. CASE Bind \/ AcceptError \/ StopAccepting
    BY <2>1 DEF Bind, AcceptError, StopAccepting
  <2>2. CASE SendShutdown \/ PollActive \/ Finished \/ UNCHANGED vars
    BY <2>2 DEF SendShutdown, PollActive, Finished, vars, accepting, NobodyBeforeBind
  <2>3. CASE \E c \in Conns : AcceptLoop(c)
    BY <2>3 DEF AcceptLoop, Connect, Admit, Reject, CountActive, SpawnHandler, accepting
  <2>4. CASE \E c \in Conns : Handler(c)
    <3>1. accept' = accept /\ \E c \in Conns : phase[c] # "none"
      BY <2>4 DEF Handler, StartHandler, ReadCommand, CommandFails, TransferEnds,
         TransferShutdown, UncountActive, StoreRemaining, DropHandler, accepting
    <3> QED BY <3>1 DEF NobodyBeforeBind
  <2> QED BY <2>1, <2>2, <2>3, <2>4 DEF Next
<1> QED BY <1>1, <1>2, TypeCorrect, PTL DEF Spec

(* The connections as Admission sees them. *)
Stands == [c \in Conns |-> Standing(phase[c])]

(* A phase determines a standing, and three standings a phase. *)
LEMMA StandingsTold ==
  ASSUME NEW p \in Phases
  PROVE  /\ Standing(p) = "away" <=> p = "none"
         /\ Standing(p) = "waiting" <=> p = "backlog"
         /\ Standing(p) = "served" <=> p \in Holding
         /\ Standing(p) = "refused" <=> p = "rejected"
         /\ Standing(p) = "left" <=> p = "returned"
BY DEF Standing, Phases, Holding, Ended

(* Admission counts as the server does. *)
LEMMA SameCount == \A S : Door!Cardinality(S) = Cardinality(S)
BY DEF Door!Cardinality, Cardinality

LEMMA ServedHold ==
  ASSUME TypeOK
  PROVE  Door!In("served") = InPhase(Holding)
<1>1. \A c \in Conns : phase[c] \in Phases
  BY DEF TypeOK
<1> QED BY <1>1, StandingsTold DEF Door!In, InPhase

(* One connection changes its standing, or keeps it, and the door stays    *)
(* as it is.                                                               *)
LEMMA StandingMoves ==
  ASSUME TypeOK, NEW c \in Conns, NEW p \in Phases,
         phase' = [phase EXCEPT ![c] = p]
  PROVE  Stands' = [Stands EXCEPT ![c] = Standing(p)]
BY DEF TypeOK, Stands

(* Moves that Admission does not see. *)
LEMMA UnseenMove ==
  ASSUME TypeOK, NEW c \in Conns, NEW p \in Phases,
         phase' = [phase EXCEPT ![c] = p], Standing(p) = Standing(phase[c])
  PROVE  Stands' = Stands
BY StandingMoves DEF Stands

(* A step of a connection is the step of Admission of its kind. *)
LEMMA ConnectionStep ==
  ASSUME IInv, IInv', NEW c \in Conns, AcceptLoop(c) \/ Handler(c)
  PROVE  [Door!Next]_(Door!vars)
<1> DEFINE gate == accept # "stopped"
<1>1. TypeOK /\ phase[c] \in Phases
  BY DEF IInv, TypeOK
<1>2. gate' = gate
  BY DEF AcceptLoop, Handler, Connect, Admit, Reject, CountActive, SpawnHandler,
     StartHandler, ReadCommand, CommandFails, TransferEnds, TransferShutdown,
     UncountActive, StoreRemaining, DropHandler, accepting
<1>3. ASSUME NEW from, NEW p \in Phases, Standing(phase[c]) = from,
             phase' = [phase EXCEPT ![c] = p]
      PROVE  Door!Become(c, from, Standing(p))
  <2>1. Stands' = [Stands EXCEPT ![c] = Standing(p)] /\ Stands[c] = from
    BY <1>1, <1>3, StandingMoves DEF Stands
  <2> QED BY <1>2, <2>1 DEF Door!Become, Stands
<1>4. CASE Connect(c)
  <2>1. Standing(phase[c]) = "away" /\ Standing("backlog") = "waiting" /\ "backlog" \in Phases
    BY <1>4 DEF Connect, Standing, Phases, Holding
  <2>2. Door!Become(c, "away", "waiting")
    BY <1>3, <1>4, <2>1 DEF Connect
  <2> QED BY <1>4, <2>2 DEF Door!Next, Door!Arrive, Connect
<1>5. CASE Admit(c)
  <2>1. /\ Standing(phase[c]) = "waiting" /\ Standing("admitted") = "served"
        /\ "admitted" \in Phases
    BY <1>5 DEF Admit, Standing, Phases, Holding
  <2>2. Door!Become(c, "waiting", "served")
    BY <1>3, <1>5, <2>1 DEF Admit
  <2>3. Cardinality(Door!In("served")) < max_connections
    BY <1>1, <1>5, ServedHold, InPhaseFinite, LimitAssumption
       DEF Admit, CanAdmit, IInv, TypeOK, PermitsConserved
  <2>4. Door!Serve(c)
    BY <1>5, <2>2, <2>3, SameCount DEF Door!Serve, Admit
  <2> QED BY <2>4 DEF Door!Next
<1>6. CASE Reject(c)
  <2>1. /\ Standing(phase[c]) = "waiting" /\ Standing("rejected") = "refused"
        /\ "rejected" \in Phases
    BY <1>6 DEF Reject, Standing, Phases, Holding, Ended
  <2>2. Door!Become(c, "waiting", "refused")
    BY <1>3, <1>6, <2>1 DEF Reject
  <2>3. Cardinality(Door!In("served")) = max_connections
    BY <1>1, <1>6, ServedHold, InPhaseFinite, LimitAssumption
       DEF Reject, CanAdmit, IInv, TypeOK, PermitsConserved
  <2>4. Door!Refuse(c)
    BY <1>6, <2>2, <2>3, SameCount DEF Door!Refuse, Reject
  <2> QED BY <2>4 DEF Door!Next
<1>7. CASE CommandFails(c) \/ DropHandler(c)
  <2>1. /\ Standing(phase[c]) = "served" /\ Standing("returned") = "left"
        /\ "returned" \in Phases
    BY <1>7 DEF CommandFails, DropHandler, Standing, Phases, Holding, Ended
  <2>2. Door!Become(c, "served", "left")
    BY <1>3, <1>7, <2>1 DEF CommandFails, DropHandler
  <2> QED BY <2>2 DEF Door!Next, Door!Leave
<1>8. CASE \/ CountActive(c) \/ SpawnHandler(c) \/ StartHandler(c) \/ ReadCommand(c)
           \/ TransferEnds(c) \/ TransferShutdown(c) \/ UncountActive(c)
           \/ StoreRemaining(c)
  <2>1. \E p \in Holding : phase' = [phase EXCEPT ![c] = p] /\ phase[c] \in Holding
    BY <1>8 DEF CountActive, SpawnHandler, StartHandler, ReadCommand, TransferEnds,
       TransferShutdown, UncountActive, StoreRemaining, Holding
  <2>2. Stands' = Stands
    <3>1. PICK p \in Holding : phase' = [phase EXCEPT ![c] = p] /\ phase[c] \in Holding
      BY <2>1
    <3>2. p \in Phases
      BY DEF Phases
    <3>3. Standing(p) = "served" /\ Standing(phase[c]) = "served"
      BY <1>1, <3>1, <3>2, StandingsTold
    <3> QED BY <1>1, <3>1, <3>2, <3>3, UnseenMove
  <2> QED BY <1>2, <2>2 DEF Door!vars, Stands
<1> QED BY <1>4, <1>5, <1>6, <1>7, <1>8 DEF AcceptLoop, Handler

(* run() returns: the door closes and the queue with it. *)
LEMMA ClosingStep ==
  ASSUME TypeOK, NobodyBeforeBind,
         StopAccepting \/ (Bind /\ accept' = "stopped")
  PROVE  Door!Close
<1>1. accept # "stopped" /\ accept' = "stopped"
  BY DEF StopAccepting, Bind
<1>2. \A c \in Conns :
        phase'[c] = IF phase[c] = "backlog" THEN "rejected" ELSE phase[c]
  BY DEF StopAccepting, Bind, NobodyBeforeBind
<1>3. \A c \in Conns : phase[c] \in Phases
  BY DEF TypeOK
<1>4. Stands' = [c \in Conns |->
                  IF Stands[c] = "waiting" THEN "refused" ELSE Stands[c]]
  <2>1. Standing("rejected") = "refused"
    BY DEF Standing, Holding
  <2> QED BY <1>2, <1>3, <2>1, StandingsTold DEF Stands
<1> QED BY <1>1, <1>4 DEF Door!Close, Stands

(* The server keeps the promise of Admission: it serves whoever it has a   *)
(* place for, refuses only when full or closing, and serves nobody twice.  *)
THEOREM Refinement == Spec => ImplementsAdmission
<1>1. Init => Door!Init
  <2> SUFFICES ASSUME Init PROVE Door!Init
    OBVIOUS
  <2>1. Standing("none") = "away"
    BY DEF Standing, Holding
  <2> QED BY <2>1 DEF Init, Door!Init
<1>2. IInv /\ IInv' /\ NobodyBeforeBind /\ [Next]_vars => [Door!Next]_(Door!vars)
  <2> SUFFICES ASSUME IInv, IInv', NobodyBeforeBind, [Next]_vars
               PROVE  [Door!Next]_(Door!vars)
    OBVIOUS
  <2>1. CASE \E c \in Conns : AcceptLoop(c) \/ Handler(c)
    BY <2>1, ConnectionStep
  <2>2. CASE StopAccepting \/ (Bind /\ accept' = "stopped")
    BY <2>2, ClosingStep DEF IInv, Door!Next
  <2>3. CASE \/ Bind /\ accept' # "stopped"
             \/ AcceptError \/ SendShutdown \/ PollActive \/ Finished \/ UNCHANGED vars
    <3>1. phase' = phase /\ (accept' = "stopped" <=> accept = "stopped")
      BY <2>3 DEF Bind, AcceptError, SendShutdown, PollActive, Finished, vars, accepting
    <3> QED BY <3>1 DEF Door!vars
  <2> QED BY <2>1, <2>2, <2>3 DEF Next
<1> QED BY <1>1, <1>2, Invariance, BindComesFirst, PTL DEF Spec, ImplementsAdmission, Door!Spec

(* How one visitor's change of standing changes those served and waiting. *)
LEMMA BecomeCounts ==
  ASSUME NEW c \in Conns, NEW from, NEW to, Door!Become(c, from, to)
  PROVE  \A s : Door!In(s)' = IF s = to THEN Door!In(s) \cup {c} ELSE Door!In(s) \ {c}
<1>1. Stands' = [Stands EXCEPT ![c] = to] /\ DOMAIN Stands = Conns
  BY DEF Door!Become, Stands
<1>2. \A s : Door!In(s) = {v \in Conns : Stands[v] = s}
  BY DEF Door!In, Stands
<1>3. \A s : Door!In(s)' = {v \in Conns : Stands'[v] = s}
  BY DEF Door!In, Stands
<1> QED BY <1>1, <1>2, <1>3

(* Admission keeps its word: at most Limit are served at once, and nobody  *)
(* is left waiting at a closed door.                                       *)
THEOREM DoorKeepsItsWord == Door!Spec => []Door!KeepsItsWord
<1> DEFINE gate == accept # "stopped"
<1>1. \A s : IsFiniteSet(Door!In(s)) /\ Cardinality(Door!In(s)) \in Nat
  BY ConnAssumption, FS_Subset, FS_CardinalityType DEF Door!In
<1>2. Door!Init => Door!KeepsItsWord
  <2> SUFFICES ASSUME Door!Init PROVE Door!KeepsItsWord
    OBVIOUS
  <2>1. Door!In("served") = {} /\ gate
    BY DEF Door!Init, Door!In
  <2> QED BY <2>1, FS_EmptySet, LimitAssumption, SameCount DEF Door!KeepsItsWord
<1>3. Door!KeepsItsWord /\ [Door!Next]_(Door!vars) => Door!KeepsItsWord'
  <2> SUFFICES ASSUME Door!KeepsItsWord, [Door!Next]_(Door!vars)
               PROVE  Door!KeepsItsWord'
    OBVIOUS
  <2>1. Cardinality(Door!In("served")) <= max_connections /\ (~gate => Door!In("waiting") = {})
    BY SameCount DEF Door!KeepsItsWord
  <2>2. SUFFICES /\ Cardinality(Door!In("served")') <= max_connections
                 /\ ~gate' => Door!In("waiting")' = {}
    BY SameCount DEF Door!KeepsItsWord
  <2>3. CASE Door!Close
    <3>1. /\ \A v \in Conns : Stands'[v] = IF Stands[v] = "waiting" THEN "refused" ELSE Stands[v]
          /\ \A s : Door!In(s) = {v \in Conns : Stands[v] = s}
          /\ \A s : Door!In(s)' = {v \in Conns : Stands'[v] = s}
      BY <2>3 DEF Door!Close, Door!In, Stands
    <3>2. Door!In("served")' = Door!In("served") /\ Door!In("waiting")' = {}
      BY <3>1
    <3> QED BY <2>1, <3>2
  <2>4. ASSUME NEW c \in Conns, Door!Arrive(c) \/ Door!Refuse(c) \/ Door!Leave(c)
        PROVE  /\ Cardinality(Door!In("served")') <= max_connections
               /\ ~gate' => Door!In("waiting")' = {}
    <3>1. PICK from \in {"away", "waiting", "served"}, to \in {"waiting", "refused", "left"} :
            /\ Door!Become(c, from, to)
            /\ ~gate => to # "waiting"
      BY <2>4 DEF Door!Arrive, Door!Refuse, Door!Leave
    <3>2. gate' = gate
      BY <3>1 DEF Door!Become
    <3>3. Door!In("served")' \subseteq Door!In("served")
      BY <3>1, BecomeCounts
    <3>4. Cardinality(Door!In("served")') <= Cardinality(Door!In("served"))
      BY <1>1, <3>3, FS_Subset
    <3>5. ~gate => Door!In("waiting")' \subseteq Door!In("waiting")
      BY <3>1, BecomeCounts
    <3>6. Cardinality(Door!In("served")') \in Nat
      BY <1>1, <3>3, FS_Subset, FS_CardinalityType
    <3> QED BY <1>1, <2>1, <3>2, <3>4, <3>5, <3>6, LimitAssumption
  <2>5. ASSUME NEW c \in Conns, Door!Serve(c)
        PROVE  /\ Cardinality(Door!In("served")') <= max_connections
               /\ ~gate' => Door!In("waiting")' = {}
    <3>1. /\ Door!Become(c, "waiting", "served") /\ gate
          /\ Cardinality(Door!In("served")) < max_connections
      BY <2>5, SameCount DEF Door!Serve
    <3>2. Door!In("served")' = Door!In("served") \cup {c} /\ gate' = gate
      BY <3>1, BecomeCounts DEF Door!Become
    <3>3. Cardinality(Door!In("served")') <= Cardinality(Door!In("served")) + 1
      BY <1>1, <3>2, FS_AddElement
    <3>4. Cardinality(Door!In("served")') \in Nat
      BY <1>1, <3>2, FS_AddElement, FS_CardinalityType
    <3> QED BY <1>1, <3>1, <3>2, <3>3, <3>4, LimitAssumption
  <2>6. CASE UNCHANGED Door!vars
    <3>1. gate' = gate /\ \A s : Door!In(s)' = Door!In(s)
      BY <2>6 DEF Door!vars, Door!In
    <3> QED BY <2>1, <3>1
  <2> QED BY <2>3, <2>4, <2>5, <2>6 DEF Door!Next
<1> QED BY <1>2, <1>3, PTL DEF Door!Spec
=============================================================================
