------------------------------ MODULE Collector ------------------------------
(***************************************************************************)
(* The Prometheus collector of xds/snapshotter_metrics.go, beside the      *)
(* snapshot caches it reads.  Collect runs in the goroutine of a scrape    *)
(* and holds no lock over its whole length: it copies the node ids, reads  *)
(* the two snapshots of one node after the other and in the end copies the *)
(* node ids again, while streams open and close and the controller         *)
(* publishes (the steps of SnapshotCache).                                 *)
(*                                                                         *)
(* A series is a resource reported for a node.  Its labels are read off    *)
(* the resource (UnmarshalResourceTo..., ExtractManagerFromListener), and  *)
(* what the snapshotter made itself can always be unmarshalled.            *)
(***************************************************************************)
EXTENDS SnapshotCache

ASSUME FamiliesAssumption == Families = {"services", "endpoints"}

VARIABLES
  scrape,    \* where the goroutine of Collect is
  reported,  \* the series sent so far
  changed,   \* the snapshots, <<n, f>>, replaced since Collect began (history)
  lacked     \* the nodes that had no services meanwhile (history)

collectorVars == <<scrape, reported, changed, lacked>>

Series == [node : CacheIDs, family : Families, resource : Resources]

(***************************************************************************)
(* "services" and "endpoints": the cache that is read next; todo: the      *)
(* nodes left, with the present one; "nodes": only the node ids are left.  *)
(***************************************************************************)
Scrape == [phase : {"idle", "services", "endpoints", "nodes"},
           todo : SUBSET CacheIDs, node : CacheIDs]
NoScrape == [phase |-> "idle", todo |-> {}, node |-> EmptyNodeID]

CollectorInit ==
  /\ CacheInit
  /\ scrape = NoScrape
  /\ reported = {}
  /\ changed = {}
  /\ lacked = {}

-----------------------------------------------------------------------------
(* ServicesSnapshot and EndpointsSnapshot do not return an error *)
HasSnapshot(n, f) == versions[n][f] # 0

WithoutServices == {n \in CacheIDs : ~HasSnapshot(n, "services")}

(* NodesMap, under nodesMu *)
NodesMap == nodes

SeriesOf(n, f) ==
  {[node |-> n, family |-> f, resource |-> r] : r \in contents[n][f]}

(* The empty node id comes first, the others in the order of a Go map *)
NextNodes(todo) == IF EmptyNodeID \in todo THEN {EmptyNodeID} ELSE todo

(* The phase after node n: the services of the next, if there is one *)
AfterNode(n) ==
  [scrape EXCEPT !.phase = IF scrape.todo = {n} THEN "nodes" ELSE "services",
                 !.todo = @ \ {n}, !.node = EmptyNodeID]

(* Collect begins with a copy of the node ids *)
StartCollect ==
  /\ scrape.phase = "idle"
  /\ scrape' = [phase |-> "services", todo |-> {EmptyNodeID} \cup NodesMap,
                node |-> EmptyNodeID]
  /\ lacked' = WithoutServices
  /\ UNCHANGED <<reported, changed>>

(* Mutant of CollectServices: a node without a snapshot ends the loop *)
CollectServicesStops(n) ==
  /\ scrape.phase = "services"
  /\ n \in NextNodes(scrape.todo)
  /\ reported' = reported \cup SeriesOf(n, "services")
  /\ scrape' = IF HasSnapshot(n, "services")
                THEN [scrape EXCEPT !.phase = "endpoints", !.node = n]
                ELSE [scrape EXCEPT !.phase = "nodes", !.todo = {}]
  /\ UNCHANGED <<changed, lacked>>

(***************************************************************************)
(* The services of a node: its listeners, routes and clusters, all of one  *)
(* snapshot.  Without one the node is skipped, its endpoints with it.      *)
(***************************************************************************)
CollectServices(n) ==
  /\ scrape.phase = "services"
  /\ n \in NextNodes(scrape.todo)
  /\ reported' = reported \cup SeriesOf(n, "services")
  /\ scrape' = IF HasSnapshot(n, "services")
                THEN [scrape EXCEPT !.phase = "endpoints", !.node = n]
                ELSE AfterNode(n)
  /\ UNCHANGED <<changed, lacked>>

(* Mutant of CollectEndpoints: the full snapshot is read for every node *)
CollectEndpointsOfAll ==
  /\ scrape.phase = "endpoints"
  /\ reported' = reported \cup
       {[s EXCEPT !.node = scrape.node] : s \in SeriesOf(EmptyNodeID, "endpoints")}
  /\ scrape' = AfterNode(scrape.node)
  /\ UNCHANGED <<changed, lacked>>

(* The endpoints of the same node, if it has any *)
CollectEndpoints ==
  /\ scrape.phase = "endpoints"
  /\ reported' = reported \cup SeriesOf(scrape.node, "endpoints")
  /\ scrape' = AfterNode(scrape.node)
  /\ UNCHANGED <<changed, lacked>>

(* collectNodeMetrics reports the node ids, read a second time: the end *)
CollectNodes ==
  /\ scrape.phase = "nodes"
  /\ scrape' = NoScrape
  /\ reported' = {}
  /\ changed' = {}
  /\ lacked' = {}

CollectorStep ==
  \/ StartCollect
  \/ \E n \in CacheIDs : CollectServices(n)
  \/ CollectEndpoints
  \/ CollectNodes

(* A step of the snapshotter, between two reads of Collect or outside it *)
SnapshotterStep ==
  /\ CacheNext
  /\ IF scrape.phase = "idle" THEN UNCHANGED <<changed, lacked>>
     ELSE /\ changed' = changed \cup {p \in CacheIDs \X Families :
                versions'[p[1]][p[2]] # versions[p[1]][p[2]]}
          /\ lacked' = lacked \cup WithoutServices'
  /\ UNCHANGED <<scrape, reported>>

CollectorNext ==
  \/ CollectorStep /\ UNCHANGED cacheVars
  \/ SnapshotterStep

allVars == <<cacheVars, collectorVars>>

CollectorSpec == CollectorInit /\ [][CollectorNext]_allVars

-----------------------------------------------------------------------------
(* Properties *)

(* Every variable of the collector has its type. *)
CollectorTypeOK ==
  /\ scrape \in Scrape
  /\ reported \subseteq Series
  /\ changed \subseteq CacheIDs \X Families
  /\ lacked \subseteq CacheIDs

ReportedOf(n, f) ==
  {s.resource : s \in {s \in reported : s.node = n /\ s.family = f}}

(***************************************************************************)
(* However the scrape interleaves with publications and streams, what it   *)
(* has reported of a node and a family is nothing, or the whole of the     *)
(* snapshot cached for that node, unless that snapshot was replaced since  *)
(* the scrape began: never a part of it, never what another node is served *)
(* (Collect).                                                              *)
(***************************************************************************)
ReportsOneSnapshot ==
  \A n \in CacheIDs, f \in Families :
    <<n, f>> \notin changed =>
      ReportedOf(n, f) \in {{}, contents[n][f]}

(***************************************************************************)
(* When a scrape ends, it has reported every snapshot that was cached      *)
(* unchanged from its beginning to its end, whatever happened to the other *)
(* nodes meanwhile; endpoints, provided that the node had services too: a  *)
(* node without a services snapshot is skipped before its endpoints.  The  *)
(* nodes of these snapshots are among the ones reported as registered.     *)
(***************************************************************************)
StableAtEnd ==
  \A n \in CacheIDs \ lacked, f \in Families :
    <<n, f>> \notin changed =>
      /\ ReportedOf(n, f) = contents[n][f]
      /\ n # EmptyNodeID => n \in NodesMap

StableIsReported == [][CollectNodes => StableAtEnd]_allVars

=============================================================================
