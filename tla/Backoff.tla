------------------------------ MODULE Backoff ------------------------------
(***************************************************************************)
(* How long RetryWithBackoff sleeps (backoff/backoff.go): exponential      *)
(* delays with jitter.  A configuration is a record with the fields Min,   *)
(* Max, Factor and Jitter; durations are integers.                         *)
(***************************************************************************)
EXTENDS Integers

CONSTANTS DefaultMin, DefaultMax  \* 100 milliseconds and 10 seconds

ASSUME BackoffAssumption == DefaultMin \in Nat \ {0} /\ DefaultMax \in Nat \ {0}

(* Values that make no sense are replaced by defaults *)
OrDefault(v, default) == IF v <= 0 THEN default ELSE v

(* The duration is kept within its bounds; a float too large for int64 is, too *)
Bounded(d, min, max) == IF d < min THEN min ELSE IF d > max THEN max ELSE d

(* The durations that ForAttempt may return: any up to the exponential one *)
ForAttempt(b, attempt) ==
  LET min == OrDefault(b.Min, DefaultMin)
      max == OrDefault(b.Max, DefaultMax)
      factor == OrDefault(b.Factor, 2)
      exponential == min * factor ^ attempt
  IN  IF min >= max THEN {max}
      ELSE {Bounded(d, min, max) : d \in IF b.Jitter THEN min..exponential ELSE {exponential}}

=============================================================================
