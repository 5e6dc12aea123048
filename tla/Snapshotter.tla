----------------------------- MODULE Snapshotter -----------------------------
(***************************************************************************)
(* The snapshotter of xds/snapshotter.go: the full snapshots that the      *)
(* controller publishes under the empty node id, the per-node snapshots    *)
(* cut from them for the streams of every xDS client, and the callbacks    *)
(* that the gRPC server runs when a stream is opened, sends a request or   *)
(* is closed.                                                              *)
(*                                                                         *)
(* An action is one critical section of nodesMu or snapNodesMu: what       *)
(* happens between two of them is local to a goroutine.  The handler of    *)
(* a request waits for two rate limiters and takes nodesMu three times     *)
(* (addOrUpdateNode, needToUpdateSnapshot, updateStreamNodeResources), and *)
(* a call of SnapServices or SnapEndpoints replaces the full snapshot      *)
(* before it takes nodesMu, so that other streams run in between.          *)
(*                                                                         *)
(* The services and the endpoints of a node go through two copies of the   *)
(* same code (cache, version counter, maps of names and of resources):     *)
(* the model indexes that state by the family, "services" or "endpoints".  *)
(***************************************************************************)
EXTENDS Naturals, Sequences, Functions

CONSTANTS
  NodeIDs,            \* ids of the clients that send one (node.id)
  Streams,            \* gRPC streams; a closed one stands for a fresh id
  Keys,               \* what a resource describes: service and port
  Contents,           \* what a resource says about its key
  Absent,             \* not in the store
  Dummy,              \* what a resource says in localhost mode
  Authorities,        \* authorities of the xdstp names: {} or a singleton
  ServiceTypes,       \* listener, route and cluster type URLs
  EndpointTypes,      \* endpoint type URL
  OtherTypes,         \* type URLs that mapTypeURL does not know
  RequestNames,       \* the resource_names lists that clients send
  LocalhostEndpoints, \* flag localhost-endpoints
  MaxSnaps,           \* bound: calls of SnapServices and of SnapEndpoints
  MaxNodeVersion      \* bound: snapshots of a node before it stops asking

EmptyNodeID == ""
NoAuthority == ""

(* The empty string where it stands for no type URL, or none that is known *)
NoType == "none"

Families == {"services", "endpoints"}
TypeURLs == ServiceTypes \cup EndpointTypes
Names == Keys \X (Authorities \cup {NoAuthority})

ASSUME TypesAssumption ==
  /\ ServiceTypes \cap EndpointTypes = {}
  /\ TypeURLs \cap OtherTypes = {}

ASSUME ValuesAssumption ==
  /\ Absent \notin Contents
  /\ EmptyNodeID \notin NodeIDs
  /\ NoAuthority \notin Authorities
  /\ LocalhostEndpoints \in BOOLEAN
  /\ RequestNames \subseteq Seq(Names)

ASSUME BoundsAssumption ==
  /\ MaxSnaps \in [Families -> Nat]
  /\ MaxNodeVersion \in Nat

Resource == [type : TypeURLs, name : Names, content : Contents \cup {Dummy}]

(***************************************************************************)
(* A snapshot in one of the two snapshot caches.  Versions count from 1:   *)
(* NoSnapshot stands for the error of GetSnapshot.                         *)
(***************************************************************************)
Snapshot == [version : Nat, resources : SUBSET Resource]
NoSnapshot == [version |-> 0, resources |-> {}]

Store == [Keys -> Contents \cup {Absent}]
EmptyStore == [k \in Keys |-> Absent]

(***************************************************************************)
(* The holder of snapNodesMu: it has replaced the full snapshot ("set"),   *)
(* then synced the linear caches ("synced"), and has yet to refresh the    *)
(* nodes.  prev (history) is what the full snapshot held before.           *)
(***************************************************************************)
SnapCall == [phase : {"idle", "set", "synced"}, family : Families,
             store : Store, prev : SUBSET Resource]
Idle == [phase |-> "idle", family |-> "services",
         store |-> EmptyStore, prev |-> {}]

Request == [type : TypeURLs \cup OtherTypes \cup {NoType}, names : Seq(Names)]
NoRequest == [type |-> NoType, names |-> <<>>]

VARIABLES
  streams,      \* s.streams: the streams it knows of
  nodes,        \* s.nodes: the ids it has an entry for
  nodeStreams,  \* nodeStreams[n]: the keys of the node's map resources
  names,        \* names[n][st][t]: servicesNames and endpointsNames
  res,          \* res[n][st][t]: services and endpoints
  version,      \* version[n][f]: serviceSnapVersion, endpointsSnapVersion
  nodeSnap,     \* nodeSnap[n][f]: the snapshot cached for the node
  full,         \* full[f]: the snapshot cached for the empty node id
  delta,        \* delta[f]: the linear caches that serve delta requests
  snap,         \* the call that holds snapNodesMu, if any
  pc,           \* pc[st]: where the goroutine of the stream is
  clientNode,   \* clientNode[st]: the node id the stream has sent
  req,          \* req[st]: the request being handled
  asked         \* asked[st][t]: the names last asked for (history)

nodeVars == <<nodes, nodeStreams, names, res, version, nodeSnap>>
cacheVars == <<full, delta, snap>>
streamVars == <<streams, pc, clientNode, req, asked>>
vars == <<nodeVars, cacheVars, streamVars>>

-----------------------------------------------------------------------------
(* Pure parts *)

mapTypeURL(t) ==
  CASE t \in ServiceTypes -> "services"
    [] t \in EndpointTypes -> "endpoints"
    [] OTHER -> NoType

TypesOf(f) == {t \in TypeURLs : mapTypeURL(t) = f}

(* Mutant of resourcesMatch: the names are not compared *)
resourcesMatchLength(a, b) == Len(a) = Len(b)

(* resourcesMatch(a, b): as many names, and each of b is one of a *)
resourcesMatch(a, b) ==
  /\ Len(a) = Len(b)
  /\ Range(b) \subseteq Range(a)

(***************************************************************************)
(* servicesToResources and endpointSlicesToClusterLoadAssignments, once    *)
(* with plain names and once for the authority, when there is one.         *)
(***************************************************************************)
ToResources(f, store, authorities) ==
  {[type |-> t, name |-> <<k, a>>, content |-> store[k]] :
     t \in TypesOf(f), k \in {k \in Keys : store[k] # Absent}, a \in authorities}

makeDummyResources(t, ns) ==
  {[type |-> t, name |-> x, content |-> Dummy] : x \in Range(ns)}

(* The resources of the full snapshot that exist under the given names *)
getResourcesFromCache(t, ns) ==
  {r \in full[mapTypeURL(t)].resources : r.type = t /\ r.name \in Range(ns)}

(* What updateNodeStream(Service|Endpoints)Resources copies to a stream *)
StreamResources(t, ns) ==
  IF LocalhostEndpoints THEN makeDummyResources(t, ns)
                        ELSE getResourcesFromCache(t, ns)

aggregateNodeResources(f, sts, rs) ==
  UNION {rs[st][t] : st \in sts, t \in TypesOf(f)}

SameName(r1, r2) == r1.type = r2.type /\ r1.name = r2.name
UniqueNames(rs) == \A r1, r2 \in rs : SameName(r1, r2) => r1 = r2

(***************************************************************************)
(* NewSnapshot indexes a list by name, and the last resource of a name     *)
(* wins.  The list follows the order of a Go map, so any of them may.      *)
(***************************************************************************)
NewSnapshotResources(rs) ==
  {R \in SUBSET rs :
     /\ \A r \in rs : \E r1 \in R : SameName(r, r1)
     /\ UniqueNames(R)}

NoNames == [t \in TypeURLs |-> <<>>]
NoResources == [t \in TypeURLs |-> {}]

-----------------------------------------------------------------------------
Init ==
  /\ streams = {}
  /\ nodes = {}
  /\ nodeStreams = [n \in NodeIDs |-> {}]
  /\ names = [n \in NodeIDs |-> [st \in Streams |-> NoNames]]
  /\ res = [n \in NodeIDs |-> [st \in Streams |-> NoResources]]
  /\ version = [n \in NodeIDs |-> [f \in Families |-> 0]]
  /\ nodeSnap = [n \in NodeIDs |-> [f \in Families |-> NoSnapshot]]
  /\ full = [f \in Families |-> NoSnapshot]
  /\ delta = [f \in Families |-> EmptyStore]
  /\ snap = Idle
  /\ pc = [st \in Streams |-> "closed"]
  /\ clientNode = [st \in Streams |-> EmptyNodeID]
  /\ req = [st \in Streams |-> NoRequest]
  /\ asked = [st \in Streams |-> NoNames]

-----------------------------------------------------------------------------
(* Publishing: SnapServices (f = "services"), SnapEndpoints ("endpoints") *)

(***************************************************************************)
(* The resources are made from the store of the caller; then snapNodesMu   *)
(* is taken, the version bumped and the full snapshot replaced.  In        *)
(* localhost mode main starts no controller, and nobody calls this.        *)
(***************************************************************************)
SetFullSnapshot(f, store) ==
  /\ ~LocalhostEndpoints
  /\ snap.phase = "idle"
  /\ full[f].version < MaxSnaps[f]
  /\ full' = [full EXCEPT ![f] =
       [version |-> full[f].version + 1,
        resources |-> ToResources(f, store, Authorities \cup {NoAuthority})]]
  /\ snap' = [phase |-> "set", family |-> f,
              store |-> store, prev |-> full[f].resources]
  /\ UNCHANGED <<nodeVars, delta, streamVars>>

(* Mutant of SyncLinearCaches: the endpoints cache is forgotten *)
SyncServicesOnly ==
  /\ snap.phase = "set"
  /\ delta' = IF snap.family = "services"
               THEN [delta EXCEPT !["services"] = snap.store] ELSE delta
  /\ snap' = [snap EXCEPT !.phase = "synced"]
  /\ UNCHANGED <<nodeVars, full, streamVars>>

(* SetResources of the linear caches of the family, plain names only *)
SyncLinearCaches ==
  /\ snap.phase = "set"
  /\ delta' = [delta EXCEPT ![snap.family] = snap.store]
  /\ snap' = [snap EXCEPT !.phase = "synced"]
  /\ UNCHANGED <<nodeVars, full, streamVars>>

(* Mutant of RefreshNodes: new versions, but of the old copies *)
RefreshNodesKeepsCopies ==
  LET f == snap.family
  IN  /\ snap.phase = "synced"
      /\ version' = [n \in NodeIDs |->
           IF n \in nodes THEN [version[n] EXCEPT ![f] = @ + 1] ELSE version[n]]
      /\ nodeSnap' = [n \in NodeIDs |->
           IF n \in nodes
           THEN [nodeSnap[n] EXCEPT ![f].version = version[n][f] + 1]
           ELSE nodeSnap[n]]
      /\ snap' = Idle
      /\ UNCHANGED <<nodes, nodeStreams, names, res, full, delta, streamVars>>

(***************************************************************************)
(* Under nodesMu: every stream of every node gets a fresh copy of the      *)
(* resources under its names, and every node a new snapshot.  All copies   *)
(* come from one full snapshot, so NewSnapshotResources has one element.   *)
(***************************************************************************)
RefreshNodes ==
  LET f == snap.family
      fresh == [n \in NodeIDs |-> [st \in Streams |-> [t \in TypeURLs |->
                  IF n \in nodes /\ st \in nodeStreams[n] /\ mapTypeURL(t) = f
                  THEN StreamResources(t, names[n][st][t])
                  ELSE res[n][st][t]]]]
  IN  /\ snap.phase = "synced"
      /\ res' = fresh
      /\ version' = [n \in NodeIDs |->
           IF n \in nodes THEN [version[n] EXCEPT ![f] = @ + 1] ELSE version[n]]
      /\ nodeSnap' = [n \in NodeIDs |->
           IF n \in nodes
           THEN [nodeSnap[n] EXCEPT ![f] =
                  [version |-> version[n][f] + 1,
                   resources |-> CHOOSE R \in NewSnapshotResources(
                     aggregateNodeResources(f, nodeStreams[n], fresh[n])) : TRUE]]
           ELSE nodeSnap[n]]
      /\ snap' = Idle
      /\ UNCHANGED <<nodes, nodeStreams, names, full, delta, streamVars>>

-----------------------------------------------------------------------------
(* The callbacks of a stream *)

(***************************************************************************)
(* OnStreamRequest holds streamsMu for reading from its start to its end,  *)
(* while it waits for the rate limiters too; OnStreamOpen and              *)
(* OnStreamClosed take it for writing.                                     *)
(***************************************************************************)
StreamsReaders == {st \in Streams : pc[st] \in {"waiting", "added", "updating"}}

OnStreamOpen(st) ==
  /\ pc[st] = "closed"
  /\ StreamsReaders = {}
  /\ streams' = streams \cup {st}
  /\ pc' = [pc EXCEPT ![st] = "open"]
  /\ UNCHANGED <<nodeVars, cacheVars, clientNode, req, asked>>

(* The bound on what clients ask for *)
BelowBound(n) == \A f \in Families : n # EmptyNodeID => version[n][f] < MaxNodeVersion

(***************************************************************************)
(* OnStreamRequest up to the rate limiters of the stream and of the        *)
(* server.  What the request says is of no matter before they admit it.    *)
(***************************************************************************)
OnStreamRequest(st) ==
  /\ pc[st] = "open"
  /\ BelowBound(clientNode[st])
  /\ pc' = [pc EXCEPT ![st] = IF st \in streams THEN "waiting" ELSE "failed"]
  /\ UNCHANGED <<nodeVars, cacheVars, streams, clientNode, req, asked>>

(***************************************************************************)
(* A client has one node id per stream, as the protocol asks for; a        *)
(* request may leave it out once it is sent, and the server passes the     *)
(* one it remembers to OnStreamRequest and OnStreamClosed.                 *)
(***************************************************************************)
MayCarry(st, n) ==
  /\ clientNode[st] \in {EmptyNodeID, n}
  /\ clientNode[st] # n => BelowBound(n)

(***************************************************************************)
(* waitForRequestLimit gives up after a second: OnStreamRequest returns an *)
(* error before it touches a node, and the server closes the stream.       *)
(***************************************************************************)
RejectRequest(st, n) ==
  /\ pc[st] = "waiting"
  /\ MayCarry(st, n)
  /\ pc' = [pc EXCEPT ![st] = "failed"]
  /\ clientNode' = [clientNode EXCEPT ![st] = n]
  /\ UNCHANGED <<nodeVars, cacheVars, streams, req, asked>>

(* The request of a client without a node id changes nothing *)
LegacyRequest(st) ==
  /\ pc[st] = "waiting"
  /\ MayCarry(st, EmptyNodeID)
  /\ pc' = [pc EXCEPT ![st] = "open"]
  /\ UNCHANGED <<nodeVars, cacheVars, streams, clientNode, req, asked>>

(***************************************************************************)
(* addOrUpdateNode.  A map entry that does not exist is kept as            *)
(* makeEmptyNodeResources makes it, with the version counters of a node    *)
(* that does not exist at zero.                                            *)
(***************************************************************************)
AddOrUpdateNode(st, n, t, ns) ==
  /\ pc[st] = "waiting"
  /\ MayCarry(st, n)
  /\ pc' = [pc EXCEPT ![st] = "added"]
  /\ clientNode' = [clientNode EXCEPT ![st] = n]
  /\ req' = [req EXCEPT ![st] = [type |-> t, names |-> ns]]
  /\ asked' = IF t \in TypeURLs THEN [asked EXCEPT ![st][t] = ns] ELSE asked
  /\ nodes' = nodes \cup {n}
  /\ nodeStreams' = [nodeStreams EXCEPT ![n] = @ \cup {st}]
  /\ UNCHANGED <<names, res, version, nodeSnap, cacheVars, streams>>

NeedToUpdateSnapshot(st) ==
  LET n == clientNode[st]
      t == req[st].type
  IN  /\ pc[st] = "added"
      /\ pc' = [pc EXCEPT ![st] =
           IF n \in nodes /\ st \notin nodeStreams[n] THEN "failed"
           ELSE IF /\ n \in nodes
                   /\ mapTypeURL(t) # NoType
                   /\ ~resourcesMatch(names[n][st][t], req[st].names)
                THEN "updating" ELSE "open"]
      /\ req' = IF pc'[st] = "updating" THEN req
                ELSE [req EXCEPT ![st] = NoRequest]
      /\ UNCHANGED <<nodeVars, cacheVars, streams, clientNode, asked>>

(* Mutant of NodeSnapshots: the version is increased twice *)
NodeSnapshotsSkipsVersion(n, f, sts, rs) ==
  {[version |-> version[n][f] + 2, resources |-> R] :
     R \in NewSnapshotResources(aggregateNodeResources(f, sts, rs))}

(***************************************************************************)
(* nodeServiceSnapshot or nodeEndpointsSnapshot: a new version of the      *)
(* node's snapshot of family f, from the copies rs of its streams sts.     *)
(***************************************************************************)
NodeSnapshots(n, f, sts, rs) ==
  {[version |-> version[n][f] + 1, resources |-> R] :
     R \in NewSnapshotResources(aggregateNodeResources(f, sts, rs))}

(* Mutant of UpdateStreamNodeResources: the names are not remembered *)
UpdateForgetsNames(st) ==
  LET n == clientNode[st]
      t == req[st].type
      f == mapTypeURL(t)
  IN  /\ pc[st] = "updating"
      /\ pc' = [pc EXCEPT ![st] = "open"]
      /\ req' = [req EXCEPT ![st] = NoRequest]
      /\ res' = [res EXCEPT ![n][st][t] = StreamResources(t, req[st].names)]
      /\ \E s \in NodeSnapshots(n, f, nodeStreams[n], res'[n]) :
           nodeSnap' = [nodeSnap EXCEPT ![n][f] = s]
      /\ version' = [version EXCEPT ![n][f] = @ + 1]
      /\ UNCHANGED <<names, nodes, nodeStreams, cacheVars, streams, clientNode, asked>>

(***************************************************************************)
(* updateStreamNodeResources: an error if the node, the stream or the full *)
(* snapshot is missing, after which the server closes the stream.          *)
(***************************************************************************)
UpdateStreamNodeResources(st) ==
  LET n == clientNode[st]
      t == req[st].type
      f == mapTypeURL(t)
      ok == /\ n \in nodes
            /\ st \in nodeStreams[n]
            /\ LocalhostEndpoints \/ full[f] # NoSnapshot
  IN  /\ pc[st] = "updating"
      /\ pc' = [pc EXCEPT ![st] = IF ok THEN "open" ELSE "failed"]
      /\ req' = [req EXCEPT ![st] = NoRequest]
      /\ IF ok
         THEN /\ names' = [names EXCEPT ![n][st][t] = req[st].names]
              /\ res' = [res EXCEPT ![n][st][t] = StreamResources(t, req[st].names)]
              /\ \E s \in NodeSnapshots(n, f, nodeStreams[n], res'[n]) :
                   nodeSnap' = [nodeSnap EXCEPT ![n][f] = s]
              /\ version' = [version EXCEPT ![n][f] = @ + 1]
         ELSE UNCHANGED <<names, res, nodeSnap, version>>
      /\ UNCHANGED <<nodes, nodeStreams, cacheVars, streams, clientNode, asked>>

(* Mutant of OnStreamClosed: deleteNodeStream is not called *)
OnStreamClosedKeepsEntry(st) ==
  /\ pc[st] \in {"open", "failed"}
  /\ StreamsReaders = {}
  /\ streams' = streams \ {st}
  /\ pc' = [pc EXCEPT ![st] = "closed"]
  /\ UNCHANGED <<nodeVars, cacheVars, clientNode, req, asked>>

(***************************************************************************)
(* OnStreamClosed: the client is gone, or the server ends the stream after *)
(* an error.  The stream is forgotten first, then its share of the node.   *)
(***************************************************************************)
OnStreamClosed(st) ==
  /\ pc[st] \in {"open", "failed"}
  /\ StreamsReaders = {}
  /\ streams' = streams \ {st}
  /\ pc' = [pc EXCEPT ![st] = "closing"]
  /\ UNCHANGED <<nodeVars, cacheVars, clientNode, req, asked>>

(* Mutant of DeleteNode: clearNodeCache is not called *)
DeleteNodeKeepsCache(n) ==
  /\ nodes' = nodes \ {n}
  /\ version' = [version EXCEPT ![n] = [f \in Families |-> 0]]
  /\ UNCHANGED nodeSnap

(* The last stream of a node: the node and its cached snapshots go too *)
DeleteNode(n) ==
  /\ nodes' = nodes \ {n}
  /\ nodeSnap' = [nodeSnap EXCEPT ![n] = [f \in Families |-> NoSnapshot]]
  /\ version' = [version EXCEPT ![n] = [f \in Families |-> 0]]

(* Mutant of SnapshotNode: the node goes with the first stream that closes *)
SnapshotNodeDeletes(n, sts) == DeleteNode(n)

(* Mutant of SnapshotNode: the resources of the closed stream stay *)
SnapshotNodeKeepsStream(n, sts) ==
  /\ version' = [version EXCEPT ![n] = [f \in Families |-> @[f] + 1]]
  /\ nodeSnap' = [nodeSnap EXCEPT ![n] =
       [f \in Families |-> [@[f] EXCEPT !.version = version[n][f] + 1]]]
  /\ UNCHANGED nodes

(* Otherwise the node's two snapshots are made again, without the stream *)
SnapshotNode(n, sts) ==
  /\ \E s \in NodeSnapshots(n, "services", sts, res[n]),
        e \in NodeSnapshots(n, "endpoints", sts, res[n]) :
       nodeSnap' = [nodeSnap EXCEPT ![n] = [services |-> s, endpoints |-> e]]
  /\ version' = [version EXCEPT ![n] = [f \in Families |-> @[f] + 1]]
  /\ UNCHANGED nodes

DeleteNodeStream(st) ==
  LET n == clientNode[st]
      left == nodeStreams[n] \ {st}
  IN  /\ pc[st] = "closing"
      /\ pc' = [pc EXCEPT ![st] = "closed"]
      /\ clientNode' = [clientNode EXCEPT ![st] = EmptyNodeID]
      /\ asked' = [asked EXCEPT ![st] = NoNames]
      /\ IF n \in nodes
         THEN /\ nodeStreams' = [nodeStreams EXCEPT ![n] = left]
              /\ names' = [names EXCEPT ![n][st] = NoNames]
              /\ res' = [res EXCEPT ![n][st] = NoResources]
              /\ IF left = {} THEN DeleteNode(n) ELSE SnapshotNode(n, left)
         ELSE UNCHANGED nodeVars
      /\ UNCHANGED <<cacheVars, streams, req>>

-----------------------------------------------------------------------------
Publish ==
  \/ \E f \in Families, store \in Store : SetFullSnapshot(f, store)
  \/ SyncLinearCaches
  \/ RefreshNodes

(* The limiters admit the request, or do not in time *)
LeaveWait(st) ==
  \/ \E n \in NodeIDs \cup {EmptyNodeID} : RejectRequest(st, n)
  \/ LegacyRequest(st)
  \/ \E n \in NodeIDs, t \in TypeURLs \cup OtherTypes, ns \in RequestNames :
       AddOrUpdateNode(st, n, t, ns)

StreamStep(st) ==
  \/ OnStreamOpen(st)
  \/ OnStreamRequest(st)
  \/ LeaveWait(st)
  \/ NeedToUpdateSnapshot(st)
  \/ UpdateStreamNodeResources(st)
  \/ OnStreamClosed(st)
  \/ DeleteNodeStream(st)

Next == Publish \/ \E st \in Streams : StreamStep(st)

Spec == Init /\ [][Next]_vars

-----------------------------------------------------------------------------
(* What every state satisfies; module SnapshotterProperties says the rest *)

(* Every variable has its type. *)
TypeOK ==
  /\ streams \subseteq Streams
  /\ nodes \subseteq NodeIDs
  /\ nodeStreams \in [NodeIDs -> SUBSET Streams]
  /\ names \in [NodeIDs -> [Streams -> [TypeURLs -> Seq(Names)]]]
  /\ res \in [NodeIDs -> [Streams -> [TypeURLs -> SUBSET Resource]]]
  /\ version \in [NodeIDs -> [Families -> Nat]]
  /\ nodeSnap \in [NodeIDs -> [Families -> Snapshot]]
  /\ full \in [Families -> Snapshot]
  /\ delta \in [Families -> Store]
  /\ snap \in SnapCall
  /\ pc \in [Streams -> {"closed", "open", "waiting", "added", "updating", "failed", "closing"}]
  /\ clientNode \in [Streams -> NodeIDs \cup {EmptyNodeID}]
  /\ req \in [Streams -> Request]
  /\ asked \in [Streams -> [TypeURLs -> Seq(Names)]]

(***************************************************************************)
(* Nothing outlives the streams it is for: an entry of a node belongs to a *)
(* stream that is not closed yet and that sent this node id, a node has at *)
(* least one entry, and a snapshot is cached only for a node that exists   *)
(* (deleteNodeStream, clearNodeCache).                                     *)
(***************************************************************************)
NothingLeaks ==
  /\ \A n \in NodeIDs : \A st \in nodeStreams[n] :
       pc[st] # "closed" /\ clientNode[st] = n
  /\ nodes = {n \in NodeIDs : nodeStreams[n] # {}}
  /\ \A n \in NodeIDs \ nodes : \A f \in Families : nodeSnap[n][f] = NoSnapshot

(* No call that publishes family f is between SetSnapshot and its end *)
Settled(f) == snap.phase = "idle" \/ snap.family # f

-----------------------------------------------------------------------------
(* The parts of the inductive invariant *)

(* A full snapshot has one resource of a name, as the store has one entry *)
FullUnique == \A f \in Families : UniqueNames(full[f].resources)

(* Only the types that mapTypeURL knows lead to an update *)
UpdatesAreTyped ==
  \A st \in Streams : pc[st] = "updating" => req[st].type \in TypeURLs

(* Between two streams of the same slot nothing of the first is left *)
ClosedIsBlank ==
  \A st \in Streams :
    /\ pc[st] = "closed" => clientNode[st] = EmptyNodeID
    /\ clientNode[st] = EmptyNodeID =>
         asked[st] = NoNames /\ pc[st] \notin {"added", "updating"}

(* An entry that does not exist is empty *)
AbsentIsEmpty ==
  \A n \in NodeIDs : \A st \in Streams \ nodeStreams[n] :
    names[n][st] = NoNames /\ res[n][st] = NoResources

(* A node's snapshot is always one that its streams' copies aggregate to *)
SnapshotIsAggregate ==
  \A n \in NodeIDs, f \in Families :
    nodeSnap[n][f].resources \in
      NewSnapshotResources(aggregateNodeResources(f, nodeStreams[n], res[n]))

(* Unless a publication is under way, the copies are those of the full snapshot *)
CopiesAreFresh ==
  \A n \in NodeIDs, t \in TypeURLs : \A st \in nodeStreams[n] :
    Settled(mapTypeURL(t)) => res[n][st][t] = StreamResources(t, names[n][st][t])

(***************************************************************************)
(* The names kept for a stream include those it last asked for, except     *)
(* those of the request that is being handled.                             *)
(***************************************************************************)
AskedIsKept ==
  \A st \in Streams :
    LET n == clientNode[st]
        handled(t) == pc[st] \in {"added", "updating"} /\ req[st].type = t
    IN  n # EmptyNodeID /\ pc[st] \in {"open", "waiting", "added", "updating"} =>
          /\ st \in nodeStreams[n]
          /\ \A t \in TypeURLs :
               IF handled(t) THEN asked[st][t] = req[st].names
               ELSE Range(asked[st][t]) \subseteq Range(names[n][st][t])

(* Every snapshot of a node carries the value of the node's counter *)
VersionIsCounter ==
  \A n \in NodeIDs, f \in Families : nodeSnap[n][f].version = version[n][f]

IInv ==
  /\ TypeOK
  /\ FullUnique
  /\ UpdatesAreTyped
  /\ NothingLeaks
  /\ ClosedIsBlank
  /\ AbsentIsEmpty
  /\ SnapshotIsAggregate
  /\ CopiesAreFresh
  /\ AskedIsKept
  /\ VersionIsCounter

=============================================================================
