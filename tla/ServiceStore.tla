---------------------------- MODULE ServiceStore ----------------------------
(***************************************************************************)
(* How a worker builds the store of Services that it publishes             *)
(* (servicesToXdsServiceStore of controller.go), step by step, while the   *)
(* caches it reads change: the labelled Services are listed once, then the *)
(* XdsServices once, but the Service of each XdsService is looked up when  *)
(* its turn comes.  Module Controller has this as two steps; here are the  *)
(* settings in full, and the resources that are made of them.              *)
(***************************************************************************)
EXTENDS Resources, FiniteSets

CONSTANTS
  Services,    \* namespace and name of Services
  XdsNames,    \* namespace and name of XdsServices
  PortSets,    \* what a Service may list as its ports
  Labels,      \* what a Service may carry as its lb-policy label, or Unset
  Specs,       \* what the spec of an XdsService may say besides its Service
  SlicePorts,  \* SlicePorts[s]: the ports that the EndpointSlices of s list
  Authority,   \* the flag authority-name, or NoAuthority
  MaxChanges   \* bound: changes of objects

ASSUME StoreAssumption == MaxChanges \in Nat

(* What a spec may say of retries, and what is made of it *)
RetrySpec ==
  [RetryOn : Seq(STRING \X STRING), NumRetries : Nat \cup {Unset},
   BaseInterval : Durations \cup {Invalid}, MaxInterval : Durations \cup {Invalid}]

RetryPolicy ==
  [RetryOn : Seq(STRING), NumRetries : Nat,
   RetryBackOff : [BaseInterval : Durations, MaxInterval : Durations]]

(* A nil pointer is no policy and no name *)
ASSUME SpecsAssumption ==
  /\ \A spec \in Specs : spec.Retry = Unset \/ spec.Retry \in RetrySpec
  /\ Unset \notin RetryPolicy
  /\ \A s \in Services : \A p \in UNION PortSets : LoadAssignmentNameFor(s, p, Authority) # Unset

VARIABLES
  labelled,     \* cache of the service watcher
  services,     \* cache of the Services informer
  xdsServices,  \* cache of the XdsServices informer
  build,        \* where the worker is, and what it has gathered
  published,    \* the store of the last SnapServices
  undisturbed,  \* history: no cache has changed since the worker began to list
  changes

caches == <<labelled, services, xdsServices>>
vars == <<caches, build, published, undisturbed, changes>>

Labelled == [Ports : PortSets, Label : Labels]
XdsService == [service : Services, spec : Specs]
NoEntries == [s \in Services |-> Absent]

Idle == [pc |-> "idle", xds |-> [x \in XdsNames |-> Absent], todo |-> {},
         found |-> {}, store |-> NoEntries]

(* The caches are filled before the workers start (Run, WatchAll) *)
Init ==
  /\ labelled \in [Services -> Labelled \cup {Absent}]
  /\ services \in [Services -> PortSets \cup {Absent}]
  /\ xdsServices \in [XdsNames -> XdsService \cup {Absent}]
  /\ build = Idle
  /\ published = NoEntries
  /\ undisturbed = FALSE
  /\ changes = 0

(* The informers replace an object, or drop it *)
Change ==
  /\ changes < MaxChanges
  /\ changes' = changes + 1
  /\ undisturbed' = FALSE
  /\ \/ \E s \in Services, v \in Labelled \cup {Absent} :
          labelled' = [labelled EXCEPT ![s] = v] /\ UNCHANGED <<services, xdsServices>>
     \/ \E s \in Services, v \in PortSets \cup {Absent} :
          services' = [services EXCEPT ![s] = v] /\ UNCHANGED <<labelled, xdsServices>>
     \/ \E x \in XdsNames, v \in XdsService \cup {Absent} :
          xdsServices' = [xdsServices EXCEPT ![x] = v] /\ UNCHANGED <<labelled, services>>
  /\ UNCHANGED <<build, published>>

-----------------------------------------------------------------------------
(* The entry of a Service: xds.Service with the ports of its Service *)
Entry(settings, ports) ==
  [EnableRemoteEndpoints |-> settings.EnableRemoteEndpoints,
   Policy |-> settings.Policy,
   RingHash |-> settings.RingHash,
   RingHashPolicies |-> settings.RingHashPolicies,
   PrioritizeLocalEndpoints |-> settings.PrioritizeLocalEndpoints,
   Retry |-> settings.Retry,
   Ports |-> ports]

(* Mutant of AddOrUpdate: an update without a retry policy keeps the old one *)
AddOrUpdateKeepsRetry(store, s, entry) ==
  [store EXCEPT ![s] = IF @ # Absent /\ entry.Retry = Unset
                       THEN [entry EXCEPT !.Retry = store[s].Retry] ELSE entry]

(* The entry is replaced as a whole *)
AddOrUpdate(store, s, entry) == [store EXCEPT ![s] = entry]

(* The entry of a labelled Service *)
LabelEntry(s) ==
  IF labelled[s] = Absent THEN Absent ELSE Entry(LabelService(labelled[s].Label), labelled[s].Ports)

(* The labelled Services, none of them twice *)
ListServices ==
  /\ build.pc = "idle"
  /\ build' = [build EXCEPT
       !.pc = "labelled",
       !.store = [s \in Services |-> LabelEntry(s)]]
  /\ undisturbed' = TRUE
  /\ UNCHANGED <<caches, published, changes>>

ListXdsServices ==
  /\ build.pc = "labelled"
  /\ build' = [build EXCEPT !.pc = "xds", !.xds = xdsServices,
                            !.todo = {x \in XdsNames : xdsServices[x] # Absent}]
  /\ UNCHANGED <<caches, published, undisturbed, changes>>

(***************************************************************************)
(* The next XdsService of the list, in any order.  If its Service is not   *)
(* in the cache, it is skipped.                                            *)
(***************************************************************************)
AddXdsService(x) ==
  LET s == build.xds[x].service
  IN  /\ build.pc = "xds"
      /\ x \in build.todo
      /\ build' = IF services[s] = Absent
                  THEN [build EXCEPT !.todo = @ \ {x}]
                  ELSE [build EXCEPT
                          !.todo = @ \ {x},
                          !.found = @ \cup {x},
                          !.store = AddOrUpdate(@, s, Entry(SpecService(build.xds[x].spec), services[s]))]
      /\ UNCHANGED <<caches, published, undisturbed, changes>>

(* Mutant of SnapServices: what is no longer selected is kept *)
SnapServicesKeepsOld ==
  /\ build.pc = "xds"
  /\ build.todo = {}
  /\ published' = [s \in Services |-> IF build.store[s] = Absent THEN published[s] ELSE build.store[s]]
  /\ build' = Idle
  /\ UNCHANGED <<caches, undisturbed, changes>>

(* SnapServices, at the end of the list *)
SnapServices ==
  /\ build.pc = "xds"
  /\ build.todo = {}
  /\ published' = build.store
  /\ build' = Idle
  /\ UNCHANGED <<caches, undisturbed, changes>>

Next ==
  \/ Change
  \/ ListServices
  \/ ListXdsServices
  \/ \E x \in XdsNames : AddXdsService(x)
  \/ SnapServices

Spec == Init /\ [][Next]_vars

-----------------------------------------------------------------------------
(* Properties *)

Settings(entry) ==
  [f \in {"EnableRemoteEndpoints", "Policy", "RingHash", "RingHashPolicies",
          "PrioritizeLocalEndpoints", "Retry"} |-> entry[f]]

(***************************************************************************)
(* The settings of an entry come whole from one source, one of the         *)
(* XdsServices that select its Service if the Service of any was found,    *)
(* and otherwise its label: AddOrUpdate never mixes two of them, whichever *)
(* comes last (servicesToXdsServiceStore).                                 *)
(***************************************************************************)
SettingsFromOneSource ==
  \A s \in Services :
    LET from == {x \in build.found : build.xds[x].service = s}
    IN  IF from # {}
        THEN \E x \in from : Settings(build.store[s]) = SpecService(build.xds[x].spec)
        ELSE build.store[s] # Absent =>
               \E label \in Labels : Settings(build.store[s]) = LabelService(label)

(* The entries that the cached XdsServices have for a Service that is cached *)
XdsEntries(s) ==
  {Entry(SpecService(xdsServices[x].spec), services[s]) :
     x \in {y \in XdsNames : xdsServices[y] # Absent /\ xdsServices[y].service = s /\ services[s] # Absent}}

(***************************************************************************)
(* A worker whose reads no change of the caches interrupts publishes what  *)
(* the caches hold, whatever it and others published before: the Services  *)
(* that are selected with the ports of the same cache, an XdsService before*)
(* a label, and nothing of objects that are gone                           *)
(* (servicesToXdsServiceStore, a store made anew for every SnapServices).  *)
(***************************************************************************)
UndisturbedBuildIsExact ==
  undisturbed /\ build.pc = "idle" =>
    \A s \in Services :
      IF XdsEntries(s) # {} THEN published[s] \in XdsEntries(s) ELSE published[s] = LabelEntry(s)

(***************************************************************************)
(* The intervals of a retry policy are in order though the default of the  *)
(* larger one, ten times the smaller, may overflow (ParseRetryBackOff).    *)
(***************************************************************************)
RetryIntervalsInOrder ==
  \A s \in Services :
    build.store[s] # Absent /\ build.store[s].Retry # Unset =>
      LET backoff == build.store[s].Retry.RetryBackOff
      IN  /\ backoff.BaseInterval \in Durations /\ backoff.MaxInterval \in Durations
          /\ backoff.BaseInterval <= backoff.MaxInterval

(* What the two kinds of clients find *)
Snapshot ==
  LET of(authority) == servicesToResources(published, authority)
      both(f) == IF Authority = NoAuthority THEN of(NoAuthority)[f]
                 ELSE of(NoAuthority)[f] \cup of(Authority)[f]
      assignments(authority) == clusterLoadAssignments(published, SlicePorts, authority)
  IN  [listeners |-> both("listeners"), routes |-> both("routes"), clusters |-> both("clusters"),
       assignments |-> assignments(NoAuthority) \cup
                         IF Authority = NoAuthority THEN {} ELSE assignments(Authority)]

Delta ==
  LET of == servicesToResourcesWithNames(published, NoAuthority)
  IN  [virtualHosts |-> of.virtualHosts, routes |-> of.routes, clusters |-> of.clusters,
       assignments |-> clusterLoadAssignments(published, SlicePorts, NoAuthority)]

(* The clusters of a snapshot that a virtual host leads to *)
ClustersOf(vh, snapshot) == {c \in snapshot.clusters : c.Name = vh.Cluster}

(* The load assignments that a cluster leads to: by its service name, or its own *)
AssignmentsOf(c, snapshot) ==
  {a \in snapshot.assignments : a.ClusterName = IF c.ServiceName = Unset THEN c.Name ELSE c.ServiceName}

(* From a virtual host a client gets to one cluster, and to the endpoints of sp *)
LeadsTo(vh, snapshot, sp) ==
  \E c \in snapshot.clusters :
    /\ ClustersOf(vh, snapshot) = {c}
    /\ {a.endpoints : a \in AssignmentsOf(c, snapshot)} =
         IF sp[2] \in SlicePorts[sp[1]] THEN {sp} ELSE {}

(***************************************************************************)
(* A client that asks for the listener of a Service and port, under its    *)
(* plain name or its xdstp name, is led through the names in the resources *)
(* to exactly one cluster and to the endpoints of that Service and port,   *)
(* if the slices list the port under the same number (servicesToResources, *)
(* createClustersFromEndpointStore).                                       *)
(***************************************************************************)
ListenersLeadToEndpoints ==
  LET snapshot == Snapshot
  IN  \A sp \in PortsOf(published), authority \in {NoAuthority, Authority} :
        \E l \in snapshot.listeners :
          /\ {o \in snapshot.listeners : o.Name = ListenerNameFor(sp[1], sp[2], authority)} = {l}
          /\ l.RouteConfig \in snapshot.routes
          /\ \A vh \in l.RouteConfig.VirtualHosts :
               /\ makeGlobalServiceDomain(sp[1], sp[2]) \in vh.Domains
               /\ LeadsTo(vh, snapshot, sp)

(***************************************************************************)
(* Delta clients ask for virtual hosts under the name of the route that    *)
(* they are given, and get to the same endpoints under the same policies   *)
(* as the other clients, all of it from the server they know               *)
(* (servicesToResourcesWithNames, patchClusterDeltaEDS).                   *)
(***************************************************************************)
DeltaLeadsToTheSame ==
  LET snapshot == Snapshot
      delta == Delta
      plain(sp) == makeVirtualHost(sp[1], sp[2], NoAuthority, published[sp[1]])
      policies(vh, snap) == {<<c.LbPolicy, c.LbConfig>> : c \in ClustersOf(vh, snap)}
  IN  \A sp \in PortsOf(published) :
        \E route \in delta.routes, vh \in delta.virtualHosts :
          /\ vh.Name = <<"%s/%s", route.Name, ListenerNameFor(sp[1], sp[2], NoAuthority)>>
          /\ vh.OnDemandCds = route.Vhds
          /\ \A c \in ClustersOf(vh, delta) : c.EdsConfig = route.Vhds
          /\ vh.HashPolicy = plain(sp).HashPolicy /\ vh.RetryPolicy = plain(sp).RetryPolicy
          /\ LeadsTo(vh, delta, sp)
          /\ policies(vh, delta) = policies(plain(sp), snapshot)

(***************************************************************************)
(* Routes and clusters are made apart, but agree: the route of a Service   *)
(* hashes headers, and its cluster configures a ring, only where that      *)
(* cluster picks endpoints by a ring (extractRingHashPolicies,             *)
(* extractRingHashConfig, makeCluster).                                    *)
(***************************************************************************)
HashedRoutesHaveRings ==
  LET snapshot == Snapshot
  IN  \A route \in snapshot.routes : \A vh \in route.VirtualHosts :
        \A c \in ClustersOf(vh, snapshot) :
          vh.HashPolicy # <<>> \/ c.LbConfig # Unset => c.LbPolicy = "RING_HASH"

=============================================================================
