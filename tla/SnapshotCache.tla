---------------------------- MODULE SnapshotCache ----------------------------
(***************************************************************************)
(* What xds/snapshotter.go promises to the readers of its two snapshot     *)
(* caches, the gRPC server and the metrics collector: which node ids have  *)
(* a snapshot, under which version, and how the steps of the snapshotter   *)
(* may change that.  Where the contents come from is left open.            *)
(***************************************************************************)
EXTENDS Naturals

CONSTANTS
  NodeIDs,      \* ids of the clients
  EmptyNodeID,  \* the id under which the full snapshots are cached
  Families,     \* the two caches, of services and of endpoints
  Resources,    \* what a snapshot may hold
  Versions      \* bound: the values of the version counters

ASSUME CacheAssumption ==
  /\ EmptyNodeID \notin NodeIDs
  /\ 0 \in Versions /\ Versions \subseteq Nat

CacheIDs == NodeIDs \cup {EmptyNodeID}

VARIABLES
  nodes,     \* the ids that NodesMap returns
  versions,  \* versions[n][f]: 0 if GetSnapshot returns an error
  contents   \* contents[n][f]: the resources of the snapshot

cacheVars == <<nodes, versions, contents>>

CacheInit ==
  /\ nodes = {}
  /\ versions = [n \in CacheIDs |-> [f \in Families |-> 0]]
  /\ contents = [n \in CacheIDs |-> [f \in Families |-> {}]]

-----------------------------------------------------------------------------
(***************************************************************************)
(* SetSnapshot for the node ids N and the families F, all at once for a    *)
(* reader that takes nodesMu or reads a single one: the version is the     *)
(* next one, and all other snapshots stay.                                 *)
(***************************************************************************)
SetSnapshots(N, F) ==
  /\ versions' = [n \in CacheIDs |-> [f \in Families |->
       IF n \in N /\ f \in F THEN versions[n][f] + 1 ELSE versions[n][f]]]
  /\ contents' \in [CacheIDs -> [Families -> SUBSET Resources]]
  /\ \A n \in CacheIDs, f \in Families :
       /\ versions'[n][f] \in Versions
       /\ (n \in N /\ f \in F) \/ contents'[n][f] = contents[n][f]
  /\ UNCHANGED nodes

(* SnapServices or SnapEndpoints replaces the full snapshot *)
PublishFull(f) == SetSnapshots({EmptyNodeID}, {f})

(* Later it gives every node a new snapshot of the family *)
PublishNodes(f) == SetSnapshots(nodes, {f})

(* A request registers its node; there is no snapshot yet *)
Register(n) ==
  /\ nodes' = nodes \cup {n}
  /\ UNCHANGED <<versions, contents>>

(* A request changes what a node is served of one family *)
Update(n, f) == n \in nodes /\ SetSnapshots({n}, {f})

(* A stream of a node is closed and another one is left *)
CloseStream(n) == n \in nodes /\ SetSnapshots({n}, Families)

(* The last stream of a node is closed: clearNodeCache *)
Forget(n) ==
  /\ nodes' = nodes \ {n}
  /\ versions' = [versions EXCEPT ![n] = [f \in Families |-> 0]]
  /\ contents' = [contents EXCEPT ![n] = [f \in Families |-> {}]]

CacheNext ==
  \/ \E f \in Families : PublishFull(f) \/ PublishNodes(f)
  \/ \E n \in NodeIDs :
       \/ Register(n)
       \/ \E f \in Families : Update(n, f)
       \/ CloseStream(n)
       \/ Forget(n)

CacheSpec == CacheInit /\ [][CacheNext]_cacheVars

=============================================================================
