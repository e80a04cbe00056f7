---------------------------- MODULE RttClassifier ----------------------------
(***************************************************************************)
(* How internal/whatsapp/activitytracker.go infers the state of a device   *)
(* from the round-trip times of its probes: the average of the last few    *)
(* against the median of many.  Times are integers (milliseconds) and the  *)
(* comparison is exact, where the code divides in floating point.          *)
(***************************************************************************)
EXTENDS Integers, Sequences, FiniteSets, Functions

CONSTANTS
  AvgWindow,      (* atMovingAvgWindow: 3 in the code. *)
  GlobalSamples,  (* atGlobalSamples: 2000 in the code. *)
  MinSamples      (* atMinSamples: 5 in the code.       *)

ASSUME WindowAssumption ==
  /\ AvgWindow \in Nat \ {0} /\ GlobalSamples \in Nat \ {0} /\ MinSamples \in Nat

DeviceStates == {"Online", "Standby", "Offline"}

(* Appending to a window that holds at most n samples.                     *)
Remember(window, n, rtt) == Append(IF Len(window) >= n THEN Tail(window) ELSE window, rtt)

(* The k-th smallest sample.                                               *)
Ranked(samples, k) ==
  CHOOSE x \in Range(samples) :
    /\ Cardinality({i \in DOMAIN samples : samples[i] < x}) < k
    /\ k <= Cardinality({i \in DOMAIN samples : samples[i] <= x})

(* Twice atMedian, which halves the sum of the two middle samples.         *)
TwiceMedian(samples) ==
  LET mid == Len(samples) \div 2
  IN IF samples = <<>> THEN 0
     ELSE IF Len(samples) % 2 = 0 THEN Ranked(samples, mid) + Ranked(samples, mid + 1)
     ELSE 2 * Ranked(samples, mid + 1)

Total(samples) == FoldFunction(LAMBDA x, y : x + y, 0, samples)

(* avg < 0.90 * median, with both sides multiplied by 20 * Len(recent).    *)
BelowThreshold(recent, all) == 20 * Total(recent) < 9 * TwiceMedian(all) * Len(recent)

(* The state inferred once the new sample is in both windows.              *)
Inferred(recent, all) ==
  IF Len(all) < MinSamples \/ BelowThreshold(recent, all) THEN "Online" ELSE "Standby"
=============================================================================
