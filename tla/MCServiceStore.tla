--------------------------- MODULE MCServiceStore ---------------------------
(* Instances of ServiceStore for TLC *)
EXTENDS ServiceStore, TLC

Ring == [MinimumRingSize |-> 8, MaximumRingSize |-> Unset, Headers |-> <<"h1", "h2">>]

Retry(on, base, max) ==
  [RetryOn |-> on, NumRetries |-> Unset, BaseInterval |-> base, MaxInterval |-> max]

Conditions == <<<<"internal", "Internal ">>, <<"cancelled", "cancelled">>>>

PlainSpec ==
  [Policy |-> "round_robin", RingHash |-> Unset, EnableRemoteEndpoints |-> Unset,
   PriorityStrategy |-> Unset, Retry |-> Unset]

(***************************************************************************)
(* Every policy and strategy that the code tells apart, a ring with and    *)
(* without its policy, retries without conditions, and intervals that are  *)
(* invalid, negative, out of order, or whose tenfold wraps around to a     *)
(* negative (60) and to a positive (150) number.                           *)
(***************************************************************************)
SomeSpecs ==
  {PlainSpec,
   [PlainSpec EXCEPT !.Policy = "ring_hash", !.RingHash = Ring, !.Retry = Retry(<<>>, 25, 250)],
   [PlainSpec EXCEPT !.Policy = "maglev", !.RingHash = Ring, !.Retry = Retry(Conditions, Invalid, Invalid)],
   [PlainSpec EXCEPT !.Policy = Invalid, !.RingHash = Ring, !.Retry = Retry(Conditions, -1, Invalid)],
   [PlainSpec EXCEPT !.Retry = Retry(Conditions, 60, Invalid),
                     !.EnableRemoteEndpoints = TRUE, !.PriorityStrategy = "none"],
   [PlainSpec EXCEPT !.Retry = Retry(Conditions, 150, 100),
                     !.EnableRemoteEndpoints = TRUE, !.PriorityStrategy = "local-first"],
   [PlainSpec EXCEPT !.Retry = Retry(Conditions, 150, Invalid),
                     !.EnableRemoteEndpoints = FALSE, !.PriorityStrategy = Invalid]}

SomeLabels == {Unset, "random", Invalid}

(* Ports of the Service, and of its slices: only one number is on both sides *)
SomePortSets == {{8080}, {8080, 80}}
TwoSlicePorts == [s \in Services |-> {8080, 9090}]

Symmetry == Permutations(XdsNames)

=============================================================================
