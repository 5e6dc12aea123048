---------------------------- MODULE EndpointStore ----------------------------
(***************************************************************************)
(* From EndpointSlices to the clusters that are served: the pure parts of  *)
(* controller.go (endpointsStoreForXdsServiceStore) and xds/endpoints.go   *)
(* (createClustersFromEndpointStore), for one Service.                     *)
(*                                                                         *)
(* A slice is a record with the fields ports, a set of port numbers, and   *)
(* endpoints, a set of records with the fields pod and ready.  The order   *)
(* of slices and of endpoints makes no difference to what is checked here, *)
(* so that lists are sets.  A port number that a slice lists twice, for    *)
(* TCP and for UDP, is once in the set; the code serves its endpoints      *)
(* twice in the cluster of that number.                                    *)
(***************************************************************************)
EXTENDS Naturals

(* A local slice without endpoints is not stored *)
LocalEntries(local) ==
  {[slice |-> e, priority |-> 0] : e \in {e \in local : e.endpoints # {}}}

(* Mutant of RemotePriority: the local slices are not looked at *)
RemotePriorityAlways(s, local) == IF s.PrioritizeLocalEndpoints THEN 1 ELSE 0

(* Mutant of RemotePriority: the strategy is not looked at *)
RemotePriorityNever(s, local) == 0

(* Remote endpoints are a fallback only where local ones were found *)
RemotePriority(s, local) ==
  IF s.PrioritizeLocalEndpoints /\ LocalEntries(local) # {} THEN 1 ELSE 0

RemoteEntries(s, local, remote) ==
  IF s.EnableRemoteEndpoints
  THEN {[slice |-> e, priority |-> RemotePriority(s, local)] : e \in remote}
  ELSE {}

(* endpointsStoreForXdsServiceStore: what is stored for the Service s *)
endpointsStore(s, local, remote) ==
  LocalEntries(local) \cup RemoteEntries(s, local, remote)

(* Mutant of endpointSliceToClusterEndpoints: only ready endpoints *)
endpointSliceToReadyEndpoints(e, priority) ==
  {[port |-> p, pod |-> ep.pod, healthy |-> TRUE, priority |-> priority] :
     p \in e.ports, ep \in {ep \in e.endpoints : ep.ready}}

(* One cluster endpoint for each port and endpoint of a slice *)
endpointSliceToClusterEndpoints(e, priority) ==
  {[port |-> p, pod |-> ep.pod, healthy |-> ep.ready, priority |-> priority] :
     p \in e.ports, ep \in e.endpoints}

clusterEndpoints(store) ==
  UNION {endpointSliceToClusterEndpoints(entry.slice, entry.priority) : entry \in store}

(* Mutant of createClusters: a cluster even for the ports of an empty slice *)
createClustersOfPorts(store) ==
  [p \in UNION {entry.slice.ports : entry \in store} |->
     {ce \in clusterEndpoints(store) : ce.port = p}]

(***************************************************************************)
(* createClustersFromEndpointStore: a cluster for each port of a slice,    *)
(* named after it (makeClusterName), with the endpoints of that port.      *)
(***************************************************************************)
createClusters(store) ==
  [p \in {ce.port : ce \in clusterEndpoints(store)} |->
     {ce \in clusterEndpoints(store) : ce.port = p}]

=============================================================================
