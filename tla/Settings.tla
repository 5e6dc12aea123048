------------------------------ MODULE Settings ------------------------------
(***************************************************************************)
(* From what a user writes to what is served: the translation of the spec  *)
(* of an XdsService, and of the label of a Service, into the settings of   *)
(* xds.Service (extract* of controller.go, Parse* of xds/utils.go).        *)
(*                                                                         *)
(* A word is a pair of a word and how it is written; a duration is an      *)
(* integer or Invalid, what time.ParseDuration refuses.  Durations wrap    *)
(* at DurationLimit, as int64 does.                                        *)
(***************************************************************************)
EXTENDS Integers, Sequences

CONSTANTS
  Unset,          \* a field that is left out, a nil pointer
  Invalid,        \* a string that does not parse
  DurationLimit,  \* durations are less than this, and not less than its negation
  DefaultBase     \* 25 milliseconds

ASSUME SettingsAssumption ==
  /\ DurationLimit \in Nat \ {0}
  /\ DefaultBase \in 0..(DurationLimit - 1)

Durations == (-DurationLimit)..(DurationLimit - 1)

(* The policies by the names that users give them *)
LbPolicies ==
  [round_robin |-> "ROUND_ROBIN", least_request |-> "LEAST_REQUEST",
   ring_hash |-> "RING_HASH", random |-> "RANDOM", maglev |-> "MAGLEV",
   cluster_provided |-> "CLUSTER_PROVIDED",
   load_balancing_policy_config |-> "LOAD_BALANCING_POLICY_CONFIG"]

ParseToClusterLbPolicy(policy) ==
  IF policy \in DOMAIN LbPolicies THEN LbPolicies[policy] ELSE "ROUND_ROBIN"

(* A Service without the label is balanced round robin *)
extractClusterLbPolicyFromServiceLabel(label) ==
  IF label = Unset THEN "ROUND_ROBIN" ELSE ParseToClusterLbPolicy(label)

(* An unknown strategy counts as none *)
ParsePriorityStrategy(strategy) ==
  IF strategy \in {"none", "local-first"} THEN strategy ELSE "none"

PrioritizeLocal(strategy) == strategy = "local-first"

(* The sizes of the ring, each left out if it is not given *)
extractRingHashConfig(policy, rh) ==
  IF policy # "RING_HASH" \/ rh = Unset THEN Unset
  ELSE [MinimumRingSize |-> rh.MinimumRingSize, MaximumRingSize |-> rh.MaximumRingSize]

(* Mutant of extractRingHashPolicies: headers are hashed under any policy *)
extractRingHashPoliciesAlways(policy, rh) == IF rh = Unset THEN <<>> ELSE rh.Headers

(* The headers to hash, in the order given *)
extractRingHashPolicies(policy, rh) ==
  IF policy # "RING_HASH" \/ rh = Unset THEN <<>> ELSE rh.Headers

(* Conditions are trimmed and put in lower case: only the word is left *)
ParseRetryOn(on) == [i \in DOMAIN on |-> on[i][1]]

ParseNumRetries(num) == IF num = Unset THEN 1 ELSE num

(* int64 arithmetic *)
Wrap(d) == ((d + DurationLimit) % (2 * DurationLimit)) - DurationLimit

(* Mutant of ParseRetryBackOff: the limits are not compared *)
ParseRetryBackOffUnordered(base, max) ==
  LET baseDuration == IF base = Invalid THEN DefaultBase ELSE base
  IN  [BaseInterval |-> baseDuration,
       MaxInterval |-> IF max = Invalid THEN Wrap(10 * baseDuration) ELSE max]

ParseRetryBackOff(base, max) ==
  LET baseDuration == IF base = Invalid THEN DefaultBase ELSE base
      maxDuration == IF max = Invalid THEN Wrap(10 * baseDuration) ELSE max
  IN  [BaseInterval |-> baseDuration,
       MaxInterval |-> IF maxDuration < baseDuration THEN baseDuration ELSE maxDuration]

(* Without a condition there is no retry policy at all *)
extractRetryPolicy(retry) ==
  IF retry = Unset \/ retry.RetryOn = <<>> THEN Unset
  ELSE [RetryOn |-> ParseRetryOn(retry.RetryOn),
        NumRetries |-> ParseNumRetries(retry.NumRetries),
        RetryBackOff |-> ParseRetryBackOff(retry.BaseInterval, retry.MaxInterval)]

(* xds.Service for a labelled Service *)
LabelService(label) ==
  [EnableRemoteEndpoints |-> FALSE,
   Policy |-> extractClusterLbPolicyFromServiceLabel(label),
   RingHash |-> Unset,
   RingHashPolicies |-> <<>>,
   PrioritizeLocalEndpoints |-> FALSE,
   Retry |-> Unset]

(* xds.Service for the spec of an XdsService *)
SpecService(spec) ==
  LET policy == ParseToClusterLbPolicy(spec.Policy)
  IN  [EnableRemoteEndpoints |-> spec.EnableRemoteEndpoints = TRUE,
       Policy |-> policy,
       RingHash |-> extractRingHashConfig(policy, spec.RingHash),
       RingHashPolicies |-> extractRingHashPolicies(policy, spec.RingHash),
       PrioritizeLocalEndpoints |-> PrioritizeLocal(ParsePriorityStrategy(spec.PriorityStrategy)),
       Retry |-> extractRetryPolicy(spec.Retry)]

=============================================================================
