------------------------------ MODULE Resources ------------------------------
(***************************************************************************)
(* The resources that xds/service.go and xds/endpoints.go make of the      *)
(* stores, with the names by which a client gets from one to the next: a   *)
(* listener holds a route, a route names a cluster, a cluster names a load *)
(* assignment.  Module Snapshotter has them without their fields.          *)
(*                                                                         *)
(* A store is a function from Services to entries, whose fields are those  *)
(* of Settings and Ports, the ports of the Service.  A name is a tuple of  *)
(* what it is formatted from, and the format.                              *)
(***************************************************************************)
EXTENDS Settings

CONSTANT Absent  \* no entry in a store

NoAuthority == "no authority"

makeClusterName(s, p) == <<"%s.%s.%s", s, p>>
makeGlobalServiceDomain(s, p) == <<"%s.%s:%s", s, p>>
Xdstp(authority, type, name) == <<"xdstp://%s/%s/%s", authority, type, name>>

(* A plain name, or the xdstp name of a type that is made of a plain one *)
NameFor(authority, type, plain, inner) ==
  IF authority = NoAuthority THEN plain ELSE Xdstp(authority, type, inner)

ClusterNameFor(s, p, authority) ==
  NameFor(authority, "Cluster", makeClusterName(s, p), makeClusterName(s, p))

LoadAssignmentNameFor(s, p, authority) ==
  NameFor(authority, "ClusterLoadAssignment", makeClusterName(s, p), makeClusterName(s, p))

RouteNameFor(s, p, authority) ==
  NameFor(authority, "RouteConfiguration", makeGlobalServiceDomain(s, p), makeClusterName(s, p))

(* Listeners and virtual hosts have the same names *)
ListenerNameFor(s, p, authority) ==
  NameFor(authority, "Listener", makeGlobalServiceDomain(s, p), makeGlobalServiceDomain(s, p))

(* A virtual host answers to its domain, and to its xdstp name *)
makeVirtualHost(s, p, authority, entry) ==
  [Name |-> ListenerNameFor(s, p, authority),
   Domains |-> {makeGlobalServiceDomain(s, p), ListenerNameFor(s, p, authority)},
   Cluster |-> ClusterNameFor(s, p, authority),
   HashPolicy |-> entry.RingHashPolicies,
   RetryPolicy |-> entry.Retry]

makeRouteConfig(s, p, authority, vh) ==
  [Name |-> RouteNameFor(s, p, authority), VirtualHosts |-> {vh}]

(* The manager of a listener holds the route, and not a name to ask for *)
makeListener(s, p, authority, routeConfig) ==
  [Name |-> ListenerNameFor(s, p, authority), RouteConfig |-> routeConfig]

(* Mutant of makeCluster: an xdstp cluster names no load assignment *)
makeClusterWithoutServiceName(s, p, authority, entry) ==
  [Name |-> ClusterNameFor(s, p, authority),
   LbPolicy |-> entry.Policy,
   LbConfig |-> IF entry.Policy = "RING_HASH" THEN entry.RingHash ELSE Unset,
   ServiceName |-> Unset,
   EdsConfig |-> "ads"]

makeCluster(s, p, authority, entry) ==
  [Name |-> ClusterNameFor(s, p, authority),
   LbPolicy |-> entry.Policy,
   LbConfig |-> IF entry.Policy = "RING_HASH" THEN entry.RingHash ELSE Unset,
   ServiceName |-> IF authority = NoAuthority THEN Unset
                   ELSE LoadAssignmentNameFor(s, p, authority),
   EdsConfig |-> "ads"]

(* The Services and ports of a store *)
PortsOf(store) ==
  UNION {{<<s, p>> : p \in store[s].Ports} : s \in {s \in DOMAIN store : store[s] # Absent}}

servicesToResources(store, authority) ==
  LET ports == PortsOf(store)
      route(s, p) == makeRouteConfig(s, p, authority, makeVirtualHost(s, p, authority, store[s]))
  IN  [routes    |-> {route(sp[1], sp[2]) : sp \in ports},
       listeners |-> {makeListener(sp[1], sp[2], authority, route(sp[1], sp[2])) : sp \in ports},
       clusters  |-> {makeCluster(sp[1], sp[2], authority, store[sp[1]]) : sp \in ports}]

(* For delta clients the whole of the cluster's EDS configuration is replaced *)
patchClusterDeltaEDS(cluster) ==
  [cluster EXCEPT !.EdsConfig = "xds_cluster", !.ServiceName = Unset]

(* Mutant of the names of delta virtual hosts: the prefix is forgotten *)
kubeDynamicPlain(name) == name

kubeDynamic(name) == <<"%s/%s", "kube_dynamic", name>>

(* The one route of delta clients, who ask "xds_cluster" for its virtual hosts *)
makeKubeDynamicRouteConfig == [Name |-> "kube_dynamic", Vhds |-> "xds_cluster"]

(* The clusters of a virtual host are asked for when they are needed *)
patchVirtualHostForOnDemandDiscovery(vh) ==
  [f \in DOMAIN vh \cup {"OnDemandCds"} |-> IF f = "OnDemandCds" THEN "xds_cluster" ELSE vh[f]]

(* The same Services for delta clients, who find virtual hosts by their names *)
servicesToResourcesWithNames(store, authority) ==
  LET ports == PortsOf(store)
      vh(s, p) == [makeVirtualHost(s, p, authority, store[s]) EXCEPT !.Name = kubeDynamic(@)]
  IN  [virtualHosts |-> {patchVirtualHostForOnDemandDiscovery(vh(sp[1], sp[2])) : sp \in ports},
       routes       |-> {makeKubeDynamicRouteConfig},
       clusters     |-> {patchClusterDeltaEDS(makeCluster(sp[1], sp[2], authority, store[sp[1]])) :
                           sp \in ports}]

(* A load assignment for each port of the slices of a Service in the store *)
clusterLoadAssignments(store, slicePorts, authority) ==
  UNION {{[ClusterName |-> LoadAssignmentNameFor(s, p, authority), endpoints |-> <<s, p>>] :
            p \in slicePorts[s]} : s \in {s \in DOMAIN store : store[s] # Absent}}

=============================================================================
