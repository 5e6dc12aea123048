----------------------------- MODULE MCStartup -----------------------------
(* Instances of Startup for TLC *)
EXTENDS Startup

(* A sufficient configuration of the remotes, and one that lacks the token *)
TwoConfigs ==
  {[r \in Remotes |-> {"apiURL", "caURL", "saTokenPath"}],
   [r \in Remotes |-> {"apiURL", "caURL"}]}

(* The exponential delay passes Max with the second retry *)
SmallBackoff == [Min |-> 2, Max |-> 3, Factor |-> 0, Jitter |-> TRUE]

=============================================================================
