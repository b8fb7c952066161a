------------------------------ MODULE Statistics ------------------------------
(***************************************************************************)
(* The statistics a report prints of a list of measurements: LatencyResult *)
(* and ThroughputResult.                                                   *)
(*                                                                         *)
(* A measurement is a number, the RTT or the bytes it counts, or None: a   *)
(* dropped probe or a failed transfer.  Percentages are whole numbers, and *)
(* a quotient of floats is kept as its numerator and denominator, so that  *)
(* nothing is rounded which the code does not round.                       *)
(*                                                                         *)
(* The state of a loop over a list is a function of the turns made, and    *)
(* turns are functions as well, so that proofs can be about any loop.      *)
(***************************************************************************)
EXTENDS Integers, Sequences, FiniteSets, Functions

CONSTANTS None

ASSUME NoneAssumption == None \notin Nat

(* What a loop of n turns ends with: turn i makes turn[i][it] of what it    *)
(* has.                                                                    *)
Loop(n, start, turn) ==
  LET after[i \in 0 .. n] == IF i = 0 THEN start ELSE turn[i][after[i - 1]]
  IN  after[n]

(* What the measurements that have a number measured, in their order. *)
rtts(ms) ==
  Loop(Len(ms), <<>>, [i \in DOMAIN ms |->
    [found \in Seq(Nat) |-> IF ms[i] = None THEN found ELSE Append(found, ms[i])]])

successful_count(ms) == Cardinality({i \in DOMAIN ms : ms[i] # None})

dropped_count(ms) == Cardinality({i \in DOMAIN ms : ms[i] = None})

Total(s) == Loop(Len(s), 0, [i \in DOMAIN s |-> [sum \in Nat |-> sum + s[i]]])

(* sum / count *)
avg_rtt(ms) ==
  IF rtts(ms) = <<>> THEN None
  ELSE [sum |-> Total(rtts(ms)), count |-> successful_count(ms)]

Lowest(s) ==
  Loop(Len(s), None, [i \in DOMAIN s |->
    [low \in Nat \cup {None} |-> IF low = None \/ s[i] < low THEN s[i] ELSE low]])

Highest(s) ==
  Loop(Len(s), None, [i \in DOMAIN s |->
    [high \in Nat \cup {None} |-> IF high = None \/ s[i] > high THEN s[i] ELSE high]])

min_rtt(ms) == Lowest(rtts(ms))

max_rtt(ms) == Highest(rtts(ms))

(* (a / b).round(), which rounds a half up. *)
Round(a, b) == (2 * a + b) \div (2 * b)

(* Mutant: the index is truncated, not rounded. *)
RankTruncated(n, len) == (n * (len - 1)) \div 100

(* The index percentile_rtt takes from len sorted values, n per cent up. *)
Rank(n, len) ==
  IF n = 0 THEN 0 ELSE IF n = 100 THEN len - 1 ELSE Round(n * (len - 1), 100)

(* The orders in which the elements of s ascend. *)
Ascending(s) ==
  {p \in Bijection(DOMAIN s, DOMAIN s) :
     \A i, j \in DOMAIN s : i <= j => s[p[i]] <= s[p[j]]}

(* sort_by: the elements of s in such an order. *)
Sorted(s) ==
  LET order == CHOOSE p \in Ascending(s) : TRUE
  IN  [i \in DOMAIN s |-> s[order[i]]]

percentile_rtt(n, ms) ==
  LET sorted == Sorted(rtts(ms))
  IN  IF n \notin 0 .. 100 \/ rtts(ms) = <<>> THEN None
      ELSE sorted[Rank(n, Len(rtts(ms))) + 1]

Squares(s) == [i \in DOMAIN s |-> s[i] * s[i]]

(* The mean of the squared deviations, times the square of the count. *)
variance(ms) ==
  successful_count(ms) * Total(Squares(rtts(ms))) - Total(rtts(ms)) * Total(rtts(ms))

bytes_transferred(ms) == Total(rtts(ms))

(* connection_success_rate and request_success_rate, as a quotient. *)
success_rate(ms) ==
  IF ms = <<>> THEN [successes |-> 0, of |-> 1]
  ELSE [successes |-> successful_count(ms), of |-> Len(ms)]

total_errors(ms) == dropped_count(ms)
=============================================================================
