------------------------------ MODULE Admission ------------------------------
(***************************************************************************)
(* What the TCP server promises to those that connect: while it is open,   *)
(* whoever waits is served if fewer than Limit are being served and is     *)
(* turned away only if Limit are, so no place is ever lost; nobody is      *)
(* served twice or after being turned away; and once it has closed nobody  *)
(* is let in, and nobody is left waiting.                                  *)
(***************************************************************************)
EXTENDS Integers, FiniteSets

CONSTANTS
  Visitors,  \* those that may connect
  Limit      \* how many may be served at once

VARIABLES
  standing,  \* how each visitor stands
  open       \* whether visitors are still let in
vars == <<standing, open>>

Standings == {"away", "waiting", "served", "refused", "left"}

In(s) == {v \in Visitors : standing[v] = s}

Init == standing = [v \in Visitors |-> "away"] /\ open = TRUE

Become(v, from, to) ==
  /\ standing[v] = from
  /\ standing' = [standing EXCEPT ![v] = to]
  /\ open' = open

Arrive(v) == open /\ Become(v, "away", "waiting")

Serve(v) == open /\ Cardinality(In("served")) < Limit /\ Become(v, "waiting", "served")

Refuse(v) == open /\ Cardinality(In("served")) = Limit /\ Become(v, "waiting", "refused")

Leave(v) == Become(v, "served", "left")

Close ==
  /\ open /\ open' = FALSE
  /\ standing' = [v \in Visitors |->
                    IF standing[v] = "waiting" THEN "refused" ELSE standing[v]]

Next == Close \/ \E v \in Visitors : Arrive(v) \/ Serve(v) \/ Refuse(v) \/ Leave(v)

Spec == Init /\ [][Next]_vars

(* At most Limit are served at once, and nobody waits at a closed door. *)
KeepsItsWord ==
  /\ Cardinality(In("served")) <= Limit
  /\ ~open => In("waiting") = {}
=============================================================================
