---------------------------- MODULE MCSnapshotter ----------------------------
(* Instances of Snapshotter for TLC *)
EXTENDS SnapshotterCache, TLC

CONSTANTS k1, k2

(* Requests for one key under its plain or its xdstp name *)
EitherName == {<<<<k1, NoAuthority>>>>, <<<<k1, "authority">>>>}

(* Requests of a client that repeats a name *)
RepeatedName ==
  {<<<<k1, NoAuthority>>, <<k2, NoAuthority>>>>,
   <<<<k1, NoAuthority>>, <<k1, NoAuthority>>>>}

(* How often SnapServices and SnapEndpoints are called *)
ServicesTwice == [services |-> 2, endpoints |-> 0]
ServicesThrice == [services |-> 3, endpoints |-> 0]
BothOnce == [services |-> 1, endpoints |-> 1]

Symmetry == Permutations(Streams) \cup Permutations(NodeIDs) \cup Permutations(Contents)

=============================================================================
