------------------------------ MODULE Endpoints ------------------------------
(***************************************************************************)
(* The EndpointSlices of one Service, in the local cluster and in the      *)
(* remote ones, as they change under the controller, and the settings of   *)
(* the XdsService that selects it.  What SnapEndpoints would serve for a   *)
(* state is a function of it, given by EndpointStore.                      *)
(***************************************************************************)
EXTENDS EndpointStore, FiniteSets

CONSTANTS
  Ports,        \* port numbers that slices list
  LocalSlices,  \* names of the slices of the local cluster
  RemoteSlices, \* names of the slices of the remote clusters
  PodsOf        \* PodsOf[e]: the pods that slice e may list

Slices == LocalSlices \cup RemoteSlices

(* No pod is in two clusters, or in two slices of one *)
ASSUME SlicesAssumption ==
  /\ LocalSlices \cap RemoteSlices = {}
  /\ \A e1, e2 \in Slices : e1 # e2 => PodsOf[e1] \cap PodsOf[e2] = {}

(* What a slice can say: ports, and some of its pods, each once *)
SliceValues(e) ==
  [ports : (SUBSET Ports) \ {{}},
   endpoints : {eps \in SUBSET [pod : PodsOf[e], ready : BOOLEAN] :
                  \A ep1, ep2 \in eps : ep1.pod = ep2.pod => ep1 = ep2}]

NoSlice == [ports |-> {}, endpoints |-> {}]

VARIABLES
  slices,   \* slices[e]: what is known of slice e, in whichever cluster
  present,  \* the slices that exist
  service   \* the settings of the XdsService

endpointVars == <<slices, present, service>>

ServiceSettings == [EnableRemoteEndpoints : BOOLEAN, PrioritizeLocalEndpoints : BOOLEAN]

EndpointsInit ==
  /\ slices = [e \in Slices |-> NoSlice]
  /\ present = {}
  /\ service \in ServiceSettings

(* A slice is created, or its endpoints, their readiness or its ports change *)
SliceApplied(e, value) ==
  /\ slices' = [slices EXCEPT ![e] = value]
  /\ present' = present \cup {e}
  /\ UNCHANGED service

SliceDeleted(e) ==
  /\ e \in present
  /\ slices' = [slices EXCEPT ![e] = NoSlice]
  /\ present' = present \ {e}
  /\ UNCHANGED service

EndpointsNext ==
  \E e \in Slices :
    \/ \E value \in SliceValues(e) : SliceApplied(e, value)
    \/ SliceDeleted(e)

EndpointsSpec == EndpointsInit /\ [][EndpointsNext]_endpointVars

-----------------------------------------------------------------------------
local == {slices[e] : e \in present \cap LocalSlices}
remote == {slices[e] : e \in present \cap RemoteSlices}

(* What is served: the clusters by port *)
clusters == createClusters(endpointsStore(service, local, remote))

Priorities(p) == {ce.priority : ce \in clusters[p]}
LocalIn(p) == {ce \in clusters[p] : \E e \in LocalSlices : ce.pod \in PodsOf[e]}
RemoteIn(p) == {ce \in clusters[p] : \E e \in RemoteSlices : ce.pod \in PodsOf[e]}

(***************************************************************************)
(* Every endpoint of a slice is served, once for every port of the slice,  *)
(* ready or not, and remote ones exactly when they are enabled             *)
(* (endpointsStoreForXdsServiceStore, createClustersFromEndpointStore).    *)
(***************************************************************************)
EveryEndpointIsServed ==
  \A e \in present, p \in Ports : \A ep \in slices[e].endpoints :
    LET served == {ce \in UNION {clusters[q] : q \in DOMAIN clusters} :
                     ce.port = p /\ ce.pod = ep.pod /\ ce.healthy = ep.ready}
        expected == p \in slices[e].ports
                      /\ (e \in LocalSlices \/ service.EnableRemoteEndpoints)
    IN  Cardinality(served) = IF expected THEN 1 ELSE 0

(***************************************************************************)
(* Nothing but the endpoints of slices that exist is served, and no        *)
(* cluster is empty.                                                       *)
(***************************************************************************)
ServedExists ==
  \A p \in DOMAIN clusters :
    /\ clusters[p] # {}
    /\ \A ce \in clusters[p] :
         \E e \in present : /\ p \in slices[e].ports
                            /\ [pod |-> ce.pod, ready |-> ce.healthy] \in slices[e].endpoints

(***************************************************************************)
(* local-first: in a cluster that has local and remote endpoints, the      *)
(* local ones come first and the remote ones are the next priority;        *)
(* without the strategy, all of them are equal.                            *)
(***************************************************************************)
LocalFirst ==
  \A p \in DOMAIN clusters :
    LocalIn(p) # {} /\ RemoteIn(p) # {} =>
      /\ \A ce \in LocalIn(p) : ce.priority = 0
      /\ \A ce \in RemoteIn(p) :
           ce.priority = IF service.PrioritizeLocalEndpoints THEN 1 ELSE 0

(* The slices of the Service list the same ports, unless they are empty *)
SamePorts ==
  \A e1, e2 \in present :
    slices[e1].endpoints # {} /\ slices[e2].endpoints # {} =>
      slices[e1].ports = slices[e2].ports

(* Priorities range from 0 to N without skipping, cluster by cluster. *)
PrioritiesDoNotSkip ==
  \A p \in DOMAIN clusters : \E n \in 0..1 : Priorities(p) = 0..n

(***************************************************************************)
(* When all slices of the Service list the same ports, the priorities of a *)
(* cluster range from 0 to N without skipping, as clients require, however *)
(* the local endpoints come and go.                                        *)
(***************************************************************************)
PrioritiesDoNotSkipSamePorts == SamePorts => PrioritiesDoNotSkip

=============================================================================
