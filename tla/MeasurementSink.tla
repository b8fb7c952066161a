--------------------------- MODULE MeasurementSink ---------------------------
(***************************************************************************)
(* What a test promises about its measurements: each producer's            *)
(* measurements are recorded in the order it made them, none is lost or    *)
(* repeated, and the result handed back is the whole record, taken when    *)
(* nobody will add to it.                                                  *)
(***************************************************************************)
EXTENDS Naturals, Sequences

CONSTANTS
  Producers,  \* the tasks that may measure
  Outcomes    \* what a measurement can say

VARIABLES
  made,    \* how many measurements each producer has made
  closed,  \* the producers that will make no more
  log,     \* the measurements recorded: <<producer, index, outcome>>
  result   \* what the test returned: the empty sequence until it does
vars == <<made, closed, log, result>>

Init ==
  /\ made = [p \in Producers |-> 0] /\ closed \subseteq Producers
  /\ log = <<>> /\ result = <<>>

Record(p) ==
  /\ p \notin closed
  /\ made' = [made EXCEPT ![p] = made[p] + 1]
  /\ \E o \in Outcomes : log' = Append(log, <<p, made[p] + 1, o>>)
  /\ UNCHANGED <<closed, result>>

Close(p) ==
  /\ p \notin closed
  /\ closed' = closed \cup {p}
  /\ UNCHANGED <<made, log, result>>

Return ==
  /\ closed = Producers /\ result = <<>>
  /\ result' = log
  /\ UNCHANGED <<made, closed, log>>

Next == Return \/ \E p \in Producers : Record(p) \/ Close(p)

Spec == Init /\ [][Next]_vars

(* What a producer measured is on record once and in its order. *)
OnceInOrder(record, count) ==
  /\ \A p \in Producers :
       {record[i][2] : i \in {j \in DOMAIN record : record[j][1] = p}} = 1 .. count[p]
  /\ \A i, j \in DOMAIN record :
       i < j /\ record[i][1] = record[j][1] => record[i][2] < record[j][2]

(* The record holds each measurement made so far, and what the test        *)
(* returns is all of it.                                                   *)
RecordIsWhole == OnceInOrder(log, made) /\ result \in {<<>>, log}
=============================================================================
