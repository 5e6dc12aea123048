------------------------- MODULE SnapshotterProofs --------------------------
(************************************************************************)
(* Theorems about Snapshotter, for any sets of nodes, streams, keys and *)
(* contents, any requests and any bounds.                               *)
(************************************************************************)
EXTENDS SnapshotterInvariant, SnapshotterCache

(* Most leaves are first-order; those with arithmetic or nested EXCEPT cite SMT. *)
USE ZenonT(30), SMTT(30)

-----------------------------------------------------------------------------
(* What a copy may come from while a call is on its way *)
Published(f) == full[f].resources \cup (IF Settled(f) THEN {} ELSE snap.prev)

CopiesWerePublished ==
  \A n \in NodeIDs, t \in TypeURLs : \A st \in nodeStreams[n] : res[n][st][t] \subseteq Published(mapTypeURL(t))

(* Every step keeps the copies of streams within what was published last,   *)
(* or last but one while the refresh of the nodes is still to come.         *)
LEMMA CopiesWerePublishedKept ==
  ASSUME ~LocalhostEndpoints, IInv, IInv', CopiesWerePublished, [Next]_vars
  PROVE  CopiesWerePublished'
<1>0. /\ nodeStreams \in [NodeIDs -> SUBSET Streams]
      /\ res \in [NodeIDs -> [Streams -> [TypeURLs -> SUBSET Resource]]]
  BY DEF IInv, TypeOK
<1>1. \A t \in TypeURLs : \A ns : StreamResources(t, ns) \subseteq full[mapTypeURL(t)].resources
  BY DEF StreamResources, getResourcesFromCache
<1>2. ASSUME NEW f \in Families, NEW store \in Store, SetFullSnapshot(f, store)
      PROVE  CopiesWerePublished'
  <2>1. /\ snap.phase = "idle" /\ snap'.prev = full[f].resources /\ snap'.phase = "set" /\ snap'.family = f
        /\ \A g \in Families \ {f} : full'[g] = full[g]
        /\ UNCHANGED nodeVars
    BY <1>2 DEF SetFullSnapshot, IInv, TypeOK
  <2>2. \A g \in Families : full[g].resources \subseteq Published(g)' /\ Settled(g)
    BY <2>1 DEF Published, Settled
  <2>3. ASSUME NEW n \in NodeIDs, NEW t \in TypeURLs, NEW st \in nodeStreams[n]
        PROVE  res[n][st][t] \subseteq Published(mapTypeURL(t))'
    BY <1>1, <2>2, MapTypeURLFact, SMTT(30) DEF IInv, CopiesAreFresh
  <2>. QED  BY <2>1, <2>3 DEF CopiesWerePublished, nodeVars
<1>3. CASE RefreshNodes
  <2>1. snap'.phase = "idle" /\ \A t \in TypeURLs : \A ns : StreamResources(t, ns)' \subseteq full'[mapTypeURL(t)].resources
    BY <1>3 DEF RefreshNodes, Idle, StreamResources, getResourcesFromCache
  <2>2. ASSUME NEW n \in NodeIDs, NEW t \in TypeURLs, NEW st \in nodeStreams'[n]
        PROVE  res'[n][st][t] \subseteq Published(mapTypeURL(t))'
    <3>1. res'[n][st][t] = StreamResources(t, names[n][st][t])'
      BY <2>1 DEF IInv, CopiesAreFresh, Settled
    <3>. QED  BY <1>3, <2>1, <3>1 DEF Published, StreamResources, getResourcesFromCache
  <2>. QED  BY <2>2 DEF CopiesWerePublished
<1>4. ASSUME \A f \in Families : Published(f)' = Published(f) /\ full'[f] = full[f],
             \A n \in NodeIDs, t \in TypeURLs : \A st \in nodeStreams'[n] :
               \/ res'[n][st][t] \subseteq full[mapTypeURL(t)].resources
               \/ st \in nodeStreams[n] /\ res'[n][st][t] = res[n][st][t]
      PROVE  CopiesWerePublished'
  <2>1. \A f \in Families : full[f].resources \subseteq Published(f)
    BY DEF Published
  <2>. QED  BY <1>4, <2>1, MapTypeURLFact DEF CopiesWerePublished
<1>5. UNCHANGED <<full, snap>> => \A f \in Families : Published(f)' = Published(f) /\ full'[f] = full[f]
  BY DEF Published, Settled
<1>6. CASE SyncLinearCaches
  <2>1. \A f \in Families : Published(f)' = Published(f) /\ full'[f] = full[f]
    BY <1>6 DEF SyncLinearCaches, Published, Settled, IInv, TypeOK, SnapCall
  <2>. QED  BY <1>4, <1>6, <2>1 DEF SyncLinearCaches, nodeVars
<1>7. CASE UNCHANGED <<nodeVars, full, snap>>
  BY <1>4, <1>5, <1>7 DEF nodeVars
<1>8. ASSUME NEW st \in Streams, NEW n \in NodeIDs, NEW t, NEW ns, AddOrUpdateNode(st, n, t, ns)
      PROVE  CopiesWerePublished'
  <2>1. UNCHANGED <<res, full, snap>> /\ nodeStreams' = [nodeStreams EXCEPT ![n] = @ \cup {st}]
    BY <1>8 DEF AddOrUpdateNode, cacheVars
  <2>2. ASSUME NEW m \in NodeIDs, NEW u \in TypeURLs, NEW q \in nodeStreams'[m], q \notin nodeStreams[m]
        PROVE  res[m][q][u] = {}
    BY <2>1, <2>2, SMTT(30) DEF IInv, TypeOK, AbsentIsEmpty, NoResources
  <2>. QED  BY <1>4, <1>5, <2>1, <2>2
<1>9. ASSUME NEW st \in Streams, UpdateStreamNodeResources(st)  PROVE CopiesWerePublished'
  <2>1. UNCHANGED <<nodeStreams, full, snap>>
    BY <1>9 DEF UpdateStreamNodeResources, cacheVars
  <2>2. \/ res' = res
        \/ res' = [res EXCEPT ![clientNode[st]][st][req[st].type] = StreamResources(req[st].type, req[st].names)]
    BY <1>9 DEF UpdateStreamNodeResources
  <2>3. ASSUME NEW m \in NodeIDs, NEW u \in TypeURLs, NEW q \in nodeStreams[m]
        PROVE  res'[m][q][u] \subseteq full[mapTypeURL(u)].resources \/ res'[m][q][u] = res[m][q][u]
    <3>1. q \in Streams
      BY <1>0
    <3>2. ASSUME NEW x, NEW k, NEW t, res' = [res EXCEPT ![k][st][t] = x]
          PROVE  res'[m][q][u] = res[m][q][u] \/ (u = t /\ res'[m][q][u] = x)
      <4>1. CASE k = m /\ st = q /\ t = u
        BY <1>0, <3>1, <3>2, <4>1
      <4>2. CASE ~(k = m /\ st = q /\ t = u)
        BY <1>0, <3>1, <3>2, <4>2, SMTT(30)
      <4>. QED  BY <4>1, <4>2
    <3>3. CASE res' = res
      BY <3>3
    <3>4. CASE res' = [res EXCEPT ![clientNode[st]][st][req[st].type] = StreamResources(req[st].type, req[st].names)]
      <4>1. \/ res'[m][q][u] = res[m][q][u]
            \/ u = req[st].type /\ res'[m][q][u] = StreamResources(req[st].type, req[st].names)
        BY <3>2, <3>4
      <4>. QED  BY <1>1, <4>1
    <3>. QED  BY <2>2, <3>3, <3>4
  <2>. QED  BY <1>4, <1>5, <2>1, <2>3
<1>10. ASSUME NEW st \in Streams, DeleteNodeStream(st)  PROVE CopiesWerePublished'
  <2>. DEFINE n == clientNode[st]
  <2>1. UNCHANGED <<full, snap>>
    BY <1>10 DEF DeleteNodeStream, cacheVars
  <2>2. \/ UNCHANGED <<nodeStreams, res>>
        \/ /\ nodeStreams' = [nodeStreams EXCEPT ![n] = nodeStreams[n] \ {st}]
           /\ res' = [res EXCEPT ![n][st] = NoResources]
    BY <1>10 DEF DeleteNodeStream, nodeVars
  <2>3. ASSUME NEW m \in NodeIDs, NEW u \in TypeURLs, NEW q \in nodeStreams'[m]
        PROVE  q \in nodeStreams[m] /\ res'[m][q][u] = res[m][q][u]
    <3>1. q \in nodeStreams[m] /\ (UNCHANGED res \/ (res' = [res EXCEPT ![n][st] = NoResources] /\ ~(m = n /\ q = st)))
      BY <1>0, <2>2, SMTT(30)
    <3>2. q \in Streams
      BY <1>0, <3>1
    <3>. QED  BY <1>0, <3>1, <3>2, SMTT(30)
  <2>. QED  BY <1>4, <1>5, <2>1, <2>3, SMTT(30)
<1>11. ASSUME NEW st \in Streams,
              \/ OnStreamOpen(st) \/ OnStreamRequest(st) \/ LegacyRequest(st) \/ OnStreamClosed(st)
              \/ NeedToUpdateSnapshot(st) \/ \E n : RejectRequest(st, n)
       PROVE  CopiesWerePublished'
  BY <1>7, <1>11 DEF OnStreamOpen, OnStreamRequest, LegacyRequest, OnStreamClosed, NeedToUpdateSnapshot,
                     RejectRequest, cacheVars
<1>. QED
  BY <1>2, <1>3, <1>6, <1>7, <1>8, <1>9, <1>10, <1>11 DEF Next, Publish, StreamStep, LeaveWait, vars, cacheVars

-----------------------------------------------------------------------------
(* The theorems *)

(***************************************************************************)
(* No entry, node or cached snapshot outlives the streams it is for        *)
(* (deleteNodeStream), for any number of nodes and streams.                *)
(***************************************************************************)
THEOREM NoLeak == Spec => []NothingLeaks
<1>1. IInv => NothingLeaks
  BY DEF IInv
<1>. QED  BY <1>1, Invariance, PTL

(***************************************************************************)
(* A request handler finds its node and its entry again each time it takes *)
(* nodesMu (OnStreamRequest), whatever other streams do in between.        *)
(***************************************************************************)
THEOREM HandlerFindsEntry == Spec => []EntrySurvivesHandler
<1>1. IInv => EntrySurvivesHandler
  <2>. SUFFICES ASSUME IInv, NEW st \in Streams, pc[st] \in {"added", "updating"}
                PROVE  clientNode[st] \in nodes /\ st \in nodeStreams[clientNode[st]]
    BY DEF EntrySurvivesHandler
  <2>1. clientNode[st] # EmptyNodeID /\ clientNode[st] \in NodeIDs
    BY DEF IInv, ClosedIsBlank, TypeOK
  <2>. QED  BY <2>1 DEF IInv, AskedIsKept, NothingLeaks
<1>. QED  BY <1>1, Invariance, PTL

(* Unless a publication is under way, a node serves its streams' copies. *)
LEMMA SettledAggregate ==
  ASSUME IInv, NEW n \in NodeIDs, NEW f \in Families, Settled(f)
  PROVE  /\ nodeSnap[n][f].resources = aggregateNodeResources(f, nodeStreams[n], res[n])
         /\ \A st \in nodeStreams[n], t \in TypesOf(f) :
              res[n][st][t] = StreamResources(t, names[n][st][t])
<1>1. \A st \in nodeStreams[n], t \in TypesOf(f) :
        res[n][st][t] = StreamResources(t, names[n][st][t])
  BY DEF IInv, CopiesAreFresh, TypesOf
<1>2. nodeStreams[n] \in SUBSET Streams
  BY DEF IInv, TypeOK
<1>3. UniqueNames(aggregateNodeResources(f, nodeStreams[n], res[n]))
  BY <1>1, <1>2, AggregateUnique DEF IInv
<1>4. nodeSnap[n][f].resources \in
        NewSnapshotResources(aggregateNodeResources(f, nodeStreams[n], res[n]))
  BY DEF IInv, SnapshotIsAggregate
<1>. QED  BY <1>1, <1>3, <1>4, NewSnapshotResourcesUnique

(***************************************************************************)
(* A publication reaches every node before SnapServices or SnapEndpoints   *)
(* returns: whenever no call for a family is under way, each node has the  *)
(* full snapshot's resources under the names kept for its streams, though  *)
(* streams open, ask and close between its two critical sections.          *)
(***************************************************************************)
THEOREM NodesAreUpToDate == Spec => [](\A f \in Families : Settled(f) => UpToDate(f))
<1>1. IInv => \A f \in Families : Settled(f) => UpToDate(f)
  <2>. SUFFICES ASSUME IInv, NEW f \in Families, Settled(f), NEW n \in nodes
                PROVE  nodeSnap[n][f].resources =
                         UNION {StreamResources(t, names[n][st][t]) : st \in nodeStreams[n], t \in TypesOf(f)}
    BY SMTT(30) DEF UpToDate
  <2>1. n \in NodeIDs
    BY DEF IInv, TypeOK
  <2>2. /\ nodeSnap[n][f].resources = aggregateNodeResources(f, nodeStreams[n], res[n])
        /\ \A st \in nodeStreams[n], t \in TypesOf(f) : res[n][st][t] = StreamResources(t, names[n][st][t])
    BY <2>1, SettledAggregate
  <2>. QED  BY <2>2, SMTT(30) DEF aggregateNodeResources
<1>. QED  BY <1>1, Invariance, PTL

(***************************************************************************)
(* Whatever streams open, ask, change their mind and close, and however    *)
(* often the controller publishes: a stream whose requests are handled     *)
(* is served the full snapshot's resources under the names it asked for.   *)
(***************************************************************************)
THEOREM Served == Spec => []ServesWhatWasAsked
<1>1. IInv => ServesWhatWasAsked
  <2>. SUFFICES ASSUME IInv, NEW st \in Streams, NEW t \in TypeURLs,
                       pc[st] \in {"open", "waiting"}, clientNode[st] # EmptyNodeID, Settled(mapTypeURL(t))
                PROVE  {r \in nodeSnap[clientNode[st]][mapTypeURL(t)].resources :
                          r.type = t /\ r.name \in Range(asked[st][t])}
                         = StreamResources(t, asked[st][t])
    BY DEF ServesWhatWasAsked
  <2>. DEFINE n == clientNode[st]
              f == mapTypeURL(t)
              agg == aggregateNodeResources(f, nodeStreams[n], res[n])
  <2>1. n \in NodeIDs /\ f \in Families /\ t \in TypesOf(f)
    BY MapTypeURLFact DEF IInv, TypeOK
  <2>2. st \in nodeStreams[n] /\ Range(asked[st][t]) \subseteq Range(names[n][st][t])
    BY DEF IInv, AskedIsKept
  <2>3. nodeSnap[n][f].resources = agg
    BY <2>1, SettledAggregate
  <2>4. \A q \in nodeStreams[n], u \in TypesOf(f) :
          res[n][q][u] = StreamResources(u, names[n][q][u])
    BY <2>1, SettledAggregate
  <2>5. StreamResources(t, asked[st][t]) \subseteq res[n][st][t]
    <3>1. res[n][st][t] = StreamResources(t, names[n][st][t])
      BY <2>1, <2>2, <2>4
    <3>2. CASE LocalhostEndpoints
      BY <2>2, <3>1, <3>2 DEF StreamResources, makeDummyResources
    <3>3. CASE ~LocalhostEndpoints
      BY <2>2, <3>1, <3>3 DEF StreamResources, getResourcesFromCache
    <3>. QED  BY <3>2, <3>3
  <2>6. res[n][st][t] \subseteq agg
    BY <2>1, <2>2, SMTT(30) DEF aggregateNodeResources
  <2>7. ASSUME NEW r \in StreamResources(t, asked[st][t])
        PROVE  r.type = t /\ r.name \in Range(asked[st][t])
    BY SMTT(30) DEF StreamResources, makeDummyResources, getResourcesFromCache
  <2>8. ASSUME NEW r \in agg, r.type = t, r.name \in Range(asked[st][t])
        PROVE  r \in StreamResources(t, asked[st][t])
    <3>1. PICK q \in nodeStreams[n], u \in TypesOf(f) : r \in StreamResources(u, names[n][q][u])
      BY <2>4, SMTT(30) DEF aggregateNodeResources
    <3>2. CASE LocalhostEndpoints
      BY <2>8, <3>1, <3>2, SMTT(30) DEF StreamResources, makeDummyResources
    <3>3. CASE ~LocalhostEndpoints
      BY <2>8, <3>1, <3>3 DEF StreamResources, getResourcesFromCache, TypesOf
    <3>. QED  BY <3>2, <3>3
  <2>. QED  BY <2>3, <2>5, <2>6, <2>7, <2>8
<1>. QED  BY <1>1, Invariance, PTL

-----------------------------------------------------------------------------
(* Publications on their way *)

(* The store that the resources of a full snapshot were made from *)
StoreOf(f) == IF snap.phase = "set" /\ snap.family = f THEN snap.store ELSE delta[f]

FullFromStore ==
  \A f \in Families : full[f].resources = ToResources(f, StoreOf(f), Authorities \cup {NoAuthority})

(* Only SetFullSnapshot and SyncLinearCaches change the two caches, in turns. *)
LEMMA FullFromStoreKept == IInv /\ FullFromStore /\ [Next]_vars => FullFromStore'
<1>. SUFFICES ASSUME IInv, FullFromStore, [Next]_vars  PROVE FullFromStore'
  OBVIOUS
<1>1. full \in [Families -> Snapshot] /\ delta \in [Families -> Store] /\ snap \in SnapCall
  BY DEF IInv, TypeOK
<1>2. ASSUME NEW f \in Families, NEW store \in Store, SetFullSnapshot(f, store)
      PROVE  FullFromStore'
  <2>1. /\ full'[f].resources = ToResources(f, store, Authorities \cup {NoAuthority})
        /\ \A g \in Families \ {f} : full'[g] = full[g]
    BY <1>1, <1>2 DEF SetFullSnapshot
  <2>2. StoreOf(f)' = store /\ \A g \in Families \ {f} : StoreOf(g)' = StoreOf(g)
    BY <1>2 DEF SetFullSnapshot, StoreOf
  <2>. QED  BY <2>1, <2>2 DEF FullFromStore
<1>3. CASE SyncLinearCaches
  <2>1. full' = full /\ \A f \in Families : StoreOf(f)' = StoreOf(f)
    BY <1>1, <1>3 DEF SyncLinearCaches, StoreOf, SnapCall
  <2>. QED  BY <2>1 DEF FullFromStore
<1>4. CASE RefreshNodes \/ UNCHANGED cacheVars
  <2>1. full' = full /\ \A f \in Families : StoreOf(f)' = StoreOf(f)
    BY <1>4, SMTT(30) DEF RefreshNodes, cacheVars, StoreOf, Idle
  <2>. QED  BY <2>1 DEF FullFromStore
<1>5. ASSUME NEW st \in Streams, StreamStep(st)  PROVE UNCHANGED cacheVars
  BY <1>5 DEF StreamStep, LeaveWait, OnStreamOpen, OnStreamRequest, LegacyRequest, RejectRequest,
     AddOrUpdateNode, NeedToUpdateSnapshot,
     UpdateStreamNodeResources, OnStreamClosed, DeleteNodeStream
<1>. QED  BY <1>2, <1>3, <1>4, <1>5 DEF Next, Publish, vars

(***************************************************************************)
(* Between the calls that publish, clients of both protocols are served    *)
(* the same resources: the linear caches follow the full snapshots         *)
(* (SnapServices, SnapEndpoints).                                          *)
(***************************************************************************)
THEOREM DeltaFollows == Spec => []DeltaAgrees
<1>1. Init => FullFromStore
  BY SMTT(30) DEF Init, FullFromStore, StoreOf, ToResources, NoSnapshot, EmptyStore, Idle
<1>2. FullFromStore => DeltaAgrees
  <2>. SUFFICES ASSUME FullFromStore, NEW f \in Families, ~(snap.phase = "set" /\ snap.family = f)
                PROVE  ToResources(f, delta[f], {NoAuthority})
                         = {r \in full[f].resources : r.name[2] = NoAuthority}
    BY DEF DeltaAgrees
  <2>1. full[f].resources = ToResources(f, delta[f], Authorities \cup {NoAuthority})
    BY DEF FullFromStore, StoreOf
  <2>. QED  BY <2>1, SMTT(30) DEF ToResources
<1>. QED  BY <1>1, <1>2, FullFromStoreKept, Invariance, PTL DEF Spec

(***************************************************************************)
(* While SnapServices or SnapEndpoints is on its way to the nodes, a node  *)
(* is served new resources or the ones just replaced, nothing older, and   *)
(* of each name one.                                                       *)
(***************************************************************************)
THEOREM OneBehind == Spec => []AtMostOneBehind
<1>. DEFINE Inv == LocalhostEndpoints \/ CopiesWerePublished
<1>1. Init => Inv
  BY DEF Init, CopiesWerePublished
<1>2. IInv /\ IInv' /\ Inv /\ [Next]_vars => Inv'
  BY CopiesWerePublishedKept
<1>3. IInv /\ Inv => AtMostOneBehind
  <2>. SUFFICES ASSUME IInv, CopiesWerePublished, NEW n \in NodeIDs, NEW f \in Families
                PROVE  nodeSnap[n][f].resources \subseteq Published(f) /\ UniqueNames(nodeSnap[n][f].resources)
    BY DEF AtMostOneBehind, Published
  <2>1. nodeSnap[n][f].resources \in NewSnapshotResources(aggregateNodeResources(f, nodeStreams[n], res[n]))
    BY DEF IInv, SnapshotIsAggregate
  <2>2. aggregateNodeResources(f, nodeStreams[n], res[n]) \subseteq Published(f)
    BY SMTT(30) DEF aggregateNodeResources, TypesOf, CopiesWerePublished
  <2>. QED  BY <2>1, <2>2 DEF NewSnapshotResources
<1>. QED  BY <1>1, <1>2, <1>3, Invariance, PTL DEF Spec

-----------------------------------------------------------------------------
(* The snapshotter implements SnapshotCache *)

(* What the cache holds for an id is a snapshot. *)
LEMMA SnapshotOfType ==
  ASSUME IInv, NEW n \in NodeIDs \cup {EmptyNodeID}, NEW f \in Families
  PROVE  /\ SnapshotOf(n, f).version \in Nat
         /\ SnapshotOf(n, f).resources \in SUBSET Resource
<1>1. full[f] \in Snapshot
  BY DEF IInv, TypeOK
<1>2. n # EmptyNodeID => nodeSnap[n][f] \in Snapshot
  BY DEF IInv, TypeOK
<1>. QED  BY <1>1, <1>2 DEF SnapshotOf, Snapshot

(***************************************************************************)
(* A step that gives the ids N new snapshots of the families F, under the  *)
(* next version, and leaves the others alone is a SetSnapshots.            *)
(***************************************************************************)
LEMMA SetSnapshotsFact ==
  ASSUME IInv, IInv', NEW N, NEW F, UNCHANGED nodes,
         \A n \in NodeIDs \cup {EmptyNodeID}, f \in Families :
           IF n \in N /\ f \in F
           THEN SnapshotOf(n, f)'.version = SnapshotOf(n, f).version + 1
           ELSE SnapshotOf(n, f)' = SnapshotOf(n, f)
  PROVE  Cache!SetSnapshots(N, F)
<1>1. \A n \in NodeIDs \cup {EmptyNodeID}, f \in Families :
        /\ SnapshotOf(n, f)'.version \in Nat
        /\ SnapshotOf(n, f)'.resources \in SUBSET Resource
  <2>. TAKE n \in NodeIDs \cup {EmptyNodeID}, f \in Families
  <2>1. full'[f] \in Snapshot
    BY DEF IInv, TypeOK
  <2>2. n # EmptyNodeID => nodeSnap'[n][f] \in Snapshot
    BY SMTT(30) DEF IInv, TypeOK
  <2>. QED  BY <2>1, <2>2 DEF SnapshotOf, Snapshot
<1>2. VersionsOf' = [n \in Cache!CacheIDs |-> [f \in Families |->
        IF n \in N /\ f \in F THEN VersionsOf[n][f] + 1 ELSE VersionsOf[n][f]]]
  BY DEF VersionsOf, Cache!CacheIDs
<1>3. ContentsOf' \in [Cache!CacheIDs -> [Families -> SUBSET Resource]]
  BY <1>1 DEF ContentsOf, Cache!CacheIDs
<1>4. \A n \in Cache!CacheIDs, f \in Families :
        /\ VersionsOf'[n][f] \in Nat
        /\ (n \in N /\ f \in F) \/ ContentsOf'[n][f] = ContentsOf[n][f]
  BY <1>1 DEF VersionsOf, ContentsOf, Cache!CacheIDs
<1>. QED  BY <1>2, <1>3, <1>4 DEF Cache!SetSnapshots

(* A step that changes neither nodes nor snapshots is invisible. *)
LEMMA CacheUnchanged ==
  ASSUME UNCHANGED <<nodes, nodeSnap, full>>
  PROVE  UNCHANGED Cache!cacheVars
BY DEF Cache!cacheVars, VersionsOf, ContentsOf, SnapshotOf

-----------------------------------------------------------------------------
(* The actions *)

(* Replacing the full snapshot is PublishFull. *)
LEMMA SetFullSnapshotCache ==
  ASSUME IInv, IInv', NEW f \in Families, NEW store \in Store, SetFullSnapshot(f, store)
  PROVE  Cache!PublishFull(f)
<1>1. UNCHANGED <<nodes, nodeSnap>>
  BY DEF SetFullSnapshot, nodeVars
<1>2. /\ full'[f].version = full[f].version + 1
      /\ \A g \in Families : g # f => full'[g] = full[g]
  BY DEF SetFullSnapshot, IInv, TypeOK
<1>3. \A n \in NodeIDs \cup {EmptyNodeID}, g \in Families :
        IF n \in {EmptyNodeID} /\ g \in {f}
        THEN SnapshotOf(n, g)'.version = SnapshotOf(n, g).version + 1
        ELSE SnapshotOf(n, g)' = SnapshotOf(n, g)
  BY <1>1, <1>2 DEF SnapshotOf
<1>. QED  BY <1>1, <1>3, SetSnapshotsFact DEF Cache!PublishFull

(* Refreshing the nodes is PublishNodes of the family. *)
LEMMA RefreshNodesCache ==
  ASSUME IInv, IInv', RefreshNodes
  PROVE  Cache!PublishNodes(snap.family)
<1>1. UNCHANGED <<nodes, full>> /\ snap.family \in Families
  BY DEF RefreshNodes, IInv, TypeOK, SnapCall
<1>2. ASSUME NEW n \in NodeIDs, NEW g \in Families
      PROVE  IF n \in nodes /\ g \in {snap.family}
             THEN nodeSnap'[n][g].version = nodeSnap[n][g].version + 1
             ELSE nodeSnap'[n][g] = nodeSnap[n][g]
  <2>1. CASE n \in nodes /\ g = snap.family
    <3>1. version'[n][g] = version[n][g] + 1
      BY <1>1, <2>1 DEF RefreshNodes, IInv, TypeOK
    <3>2. nodeSnap[n][g].version = version[n][g] /\ nodeSnap'[n][g].version = version'[n][g]
      BY DEF IInv, VersionIsCounter
    <3>. QED  BY <2>1, <3>1, <3>2
  <2>2. CASE ~(n \in nodes /\ g = snap.family)
    <3>1. nodeSnap[n] \in [Families -> Snapshot]
      BY DEF IInv, TypeOK
    <3>2. nodeSnap'[n] = nodeSnap[n] \/ \E v : nodeSnap'[n] = [nodeSnap[n] EXCEPT ![snap.family] = v]
      BY DEF RefreshNodes
    <3>3. n \notin nodes => nodeSnap'[n] = nodeSnap[n]
      BY DEF RefreshNodes
    <3>. QED  BY <2>2, <3>1, <3>2, <3>3
  <2>. QED  BY <2>1, <2>2
<1>3. \A n \in NodeIDs \cup {EmptyNodeID}, g \in Families :
        IF n \in nodes /\ g \in {snap.family}
        THEN SnapshotOf(n, g)'.version = SnapshotOf(n, g).version + 1
        ELSE SnapshotOf(n, g)' = SnapshotOf(n, g)
  <2>1. EmptyNodeID \notin nodes
    BY ValuesAssumption DEF IInv, TypeOK
  <2>. QED  BY <1>1, <1>2, <2>1 DEF SnapshotOf
<1>. QED  BY <1>1, <1>3, SetSnapshotsFact DEF Cache!PublishNodes

(* Entering a stream under its node is Register. *)
LEMMA AddOrUpdateNodeCache ==
  ASSUME NEW st \in Streams, NEW n \in NodeIDs, NEW t, NEW ns, AddOrUpdateNode(st, n, t, ns)
  PROVE  Cache!Register(n)
BY DEF AddOrUpdateNode, cacheVars, Cache!Register, VersionsOf, ContentsOf, SnapshotOf

(***************************************************************************)
(* A step that gives one node new snapshots of the families F, counted by  *)
(* its version counters, and leaves the full snapshots and the other nodes *)
(* alone is a SetSnapshots.                                                *)
(***************************************************************************)
LEMMA OneNodeFact ==
  ASSUME IInv, IInv', NEW n \in NodeIDs, NEW F \in SUBSET Families,
         UNCHANGED <<nodes, full>>,
         \A m \in NodeIDs, f \in Families :
           IF m = n /\ f \in F THEN version'[m][f] = version[m][f] + 1
                               ELSE nodeSnap'[m][f] = nodeSnap[m][f]
  PROVE  Cache!SetSnapshots({n}, F)
<1>1. \A m \in NodeIDs, f \in Families :
        /\ nodeSnap[m][f].version = version[m][f]
        /\ nodeSnap'[m][f].version = version'[m][f]
  BY DEF IInv, VersionIsCounter
<1>2. EmptyNodeID \notin {n}
  BY ValuesAssumption
<1>3. \A m \in NodeIDs \cup {EmptyNodeID}, f \in Families :
        IF m \in {n} /\ f \in F
        THEN SnapshotOf(m, f)'.version = SnapshotOf(m, f).version + 1
        ELSE SnapshotOf(m, f)' = SnapshotOf(m, f)
  BY <1>1, <1>2 DEF SnapshotOf
<1>. QED  BY <1>3, SetSnapshotsFact

(* A request that changes its entry is Update; one that fails is nothing. *)
LEMMA UpdateStreamNodeResourcesCache ==
  ASSUME IInv, IInv', NEW st \in Streams, UpdateStreamNodeResources(st)
  PROVE  \/ \E n \in NodeIDs, f \in Families : Cache!Update(n, f)
         \/ UNCHANGED Cache!cacheVars
<1>. DEFINE n == clientNode[st]
            f == mapTypeURL(req[st].type)
            ok == /\ n \in nodes
                  /\ st \in nodeStreams[n]
                  /\ LocalhostEndpoints \/ full[f] # NoSnapshot
<1>1. f \in Families /\ UNCHANGED <<nodes, full>>
  BY MapTypeURLFact DEF UpdateStreamNodeResources, IInv, UpdatesAreTyped, cacheVars
<1>2. CASE ok
  <2>1. n \in NodeIDs
    BY <1>2 DEF IInv, TypeOK
  <2>2. /\ \E s : nodeSnap' = [nodeSnap EXCEPT ![n][f] = s]
        /\ version' = [version EXCEPT ![n][f] = @ + 1]
    BY <1>2 DEF UpdateStreamNodeResources
  <2>3. \A m \in NodeIDs : version[m] \in [Families -> Nat] /\ nodeSnap[m] \in [Families -> Snapshot]
    BY DEF IInv, TypeOK
  <2>4. version \in [NodeIDs -> [Families -> Nat]] /\ nodeSnap \in [NodeIDs -> [Families -> Snapshot]]
    BY DEF IInv, TypeOK
  <2>5. \A m \in NodeIDs, g \in Families :
          IF m = n /\ g \in {f} THEN version'[m][g] = version[m][g] + 1
                                ELSE nodeSnap'[m][g] = nodeSnap[m][g]
    BY <1>1, <2>1, <2>2, <2>3, <2>4, SMTT(30)
  <2>6. Cache!SetSnapshots({n}, {f})
    BY <1>1, <2>1, <2>5, OneNodeFact, SMTT(30)
  <2>. QED  BY <1>1, <1>2, <2>1, <2>6 DEF Cache!Update
<1>3. CASE ~ok
  <2>1. UNCHANGED nodeSnap
    BY <1>3 DEF UpdateStreamNodeResources
  <2>. QED  BY <1>1, <2>1, CacheUnchanged
<1>. QED  BY <1>2, <1>3

(***************************************************************************)
(* Taking a stream off its node is Forget if it is the last, CloseStream   *)
(* if it is not, and nothing if the node is not there.                     *)
(***************************************************************************)
LEMMA DeleteNodeStreamCache ==
  ASSUME IInv, IInv', NEW st \in Streams, DeleteNodeStream(st)
  PROVE  \/ \E n \in NodeIDs : Cache!CloseStream(n) \/ Cache!Forget(n)
         \/ UNCHANGED Cache!cacheVars
<1>. DEFINE n == clientNode[st]
            left == nodeStreams[n] \ {st}
<1>1. UNCHANGED full
  BY DEF DeleteNodeStream, cacheVars
<1>2. CASE n \notin nodes
  BY <1>1, <1>2, CacheUnchanged DEF DeleteNodeStream, nodeVars
<1>3. CASE n \in nodes
  <2>1. n \in NodeIDs /\ n # EmptyNodeID
    BY <1>3, ValuesAssumption DEF IInv, TypeOK
  <2>2. IF left = {} THEN DeleteNode(n) ELSE SnapshotNode(n, left)
    BY <1>3 DEF DeleteNodeStream
  <2>3. version \in [NodeIDs -> [Families -> Nat]] /\ nodeSnap \in [NodeIDs -> [Families -> Snapshot]]
    BY DEF IInv, TypeOK
  <2>4. CASE left = {}
    <3>1. /\ nodes' = nodes \ {n}
          /\ nodeSnap' = [nodeSnap EXCEPT ![n] = [f \in Families |-> NoSnapshot]]
      BY <2>2, <2>4 DEF DeleteNode
    <3>2. VersionsOf' = [VersionsOf EXCEPT ![n] = [f \in Families |-> 0]]
      BY <1>1, <2>1, <2>3, <3>1 DEF VersionsOf, SnapshotOf, NoSnapshot
    <3>3. ContentsOf' = [ContentsOf EXCEPT ![n] = [f \in Families |-> {}]]
      BY <1>1, <2>1, <2>3, <3>1 DEF ContentsOf, SnapshotOf, NoSnapshot
    <3>. QED  BY <2>1, <3>1, <3>2, <3>3 DEF Cache!Forget
  <2>5. CASE left # {}
    <3>1. /\ \E v : nodeSnap' = [nodeSnap EXCEPT ![n] = v]
          /\ version' = [version EXCEPT ![n] = [f \in Families |-> @[f] + 1]]
          /\ UNCHANGED nodes
      BY <2>2, <2>5 DEF SnapshotNode
    <3>2. \A m \in NodeIDs, g \in Families :
            IF m = n /\ g \in Families THEN version'[m][g] = version[m][g] + 1
                                       ELSE nodeSnap'[m][g] = nodeSnap[m][g]
      BY <2>1, <2>3, <3>1
    <3>3. Cache!SetSnapshots({n}, Families)
      BY <1>1, <2>1, <3>1, <3>2, OneNodeFact
    <3>. QED  BY <1>3, <2>1, <3>3 DEF Cache!CloseStream
  <2>. QED  BY <2>4, <2>5
<1>. QED  BY <1>2, <1>3

-----------------------------------------------------------------------------
(* Every step of the snapshotter is a step of the cache or invisible. *)
LEMMA StepImplementsCache ==
  IInv /\ IInv' /\ [Next]_vars => [Cache!CacheNext]_(Cache!cacheVars)
<1>. SUFFICES ASSUME IInv, IInv', [Next]_vars
              PROVE  Cache!CacheNext \/ UNCHANGED Cache!cacheVars
  OBVIOUS
<1>1. CASE Publish
  <2>1. ASSUME NEW f \in Families, NEW store \in Store, SetFullSnapshot(f, store)
        PROVE  Cache!CacheNext
    BY <2>1, SetFullSnapshotCache DEF Cache!CacheNext
  <2>2. CASE SyncLinearCaches
    BY <2>2, CacheUnchanged DEF SyncLinearCaches, nodeVars
  <2>3. CASE RefreshNodes
    <3>1. snap.family \in Families
      BY DEF IInv, TypeOK, SnapCall
    <3>. QED  BY <2>3, <3>1, RefreshNodesCache DEF Cache!CacheNext
  <2>. QED  BY <1>1, <2>1, <2>2, <2>3 DEF Publish
<1>2. ASSUME NEW st \in Streams, StreamStep(st)
      PROVE  Cache!CacheNext \/ UNCHANGED Cache!cacheVars
  <2>1. CASE \/ OnStreamOpen(st) \/ OnStreamRequest(st) \/ LegacyRequest(st) \/ OnStreamClosed(st)
             \/ NeedToUpdateSnapshot(st) \/ \E n : RejectRequest(st, n)
    BY <2>1, CacheUnchanged
       DEF OnStreamOpen, OnStreamRequest, LegacyRequest, OnStreamClosed, NeedToUpdateSnapshot, RejectRequest,
           nodeVars, cacheVars
  <2>2. ASSUME NEW n \in NodeIDs, NEW t, NEW ns, AddOrUpdateNode(st, n, t, ns)
        PROVE  Cache!CacheNext
    BY <2>2, AddOrUpdateNodeCache DEF Cache!CacheNext
  <2>3. CASE UpdateStreamNodeResources(st)
    BY <2>3, UpdateStreamNodeResourcesCache DEF Cache!CacheNext
  <2>4. CASE DeleteNodeStream(st)
    BY <2>4, DeleteNodeStreamCache DEF Cache!CacheNext
  <2>. QED  BY <1>2, <2>1, <2>2, <2>3, <2>4 DEF StreamStep, LeaveWait
<1>3. CASE UNCHANGED vars
  BY <1>3, CacheUnchanged DEF vars, nodeVars, cacheVars
<1>. QED  BY <1>1, <1>2, <1>3 DEF Next

(***************************************************************************)
(* The snapshotter implements the snapshot cache that its readers are      *)
(* promised: to the gRPC server and to the metrics collector the handlers  *)
(* and publications, in any interleaving, look like atomic steps that give *)
(* an id the next version, and that forget a node with its last stream.    *)
(***************************************************************************)
THEOREM CacheImplemented == Spec => ImplementsCache
<1>1. Init => Cache!CacheInit
  <2>. SUFFICES ASSUME Init  PROVE Cache!CacheInit
    OBVIOUS
  <2>1. \A n \in Cache!CacheIDs, f \in Families : SnapshotOf(n, f) = [version |-> 0, resources |-> {}]
    BY DEF Init, Cache!CacheIDs, SnapshotOf, NoSnapshot
  <2>2. \A n \in Cache!CacheIDs, f \in Families :
          SnapshotOf(n, f).version = 0 /\ SnapshotOf(n, f).resources = {}
    BY <2>1, SMTT(30)
  <2>. QED  BY <2>2 DEF Init, Cache!CacheInit, Cache!CacheIDs, VersionsOf, ContentsOf
<1>. QED
  BY <1>1, Invariance, StepImplementsCache, PTL DEF Spec, ImplementsCache, Cache!CacheSpec

(***************************************************************************)
(* A snapshot that a client has acknowledged never changes under the same  *)
(* version: each of nodeServiceSnapshot, nodeEndpointsSnapshot,            *)
(* SnapServices and SnapEndpoints counts up before it sets a snapshot.     *)
(* It is so of SnapshotCache, which the snapshotter implements.            *)
(***************************************************************************)
THEOREM Versions == Spec => NewContentNewVersion
<1>1. ASSUME IInv, IInv', [Next]_vars  PROVE VersionsGrow
  <2>. DEFINE Grows(n, f) ==
         \/ VersionsOf'[n][f] = VersionsOf[n][f] + 1
         \/ VersionsOf'[n][f] = VersionsOf[n][f] /\ ContentsOf'[n][f] = ContentsOf[n][f]
       Cleared(n, f) == n # EmptyNodeID /\ VersionsOf'[n][f] = 0 /\ ContentsOf'[n][f] = {}
  <2>1. \A n \in Cache!CacheIDs, f \in Families : Grows(n, f) \/ Cleared(n, f)
    <3>1. CASE UNCHANGED <<VersionsOf, ContentsOf>>
      BY <3>1
    <3>2. ASSUME NEW N, NEW F, Cache!SetSnapshots(N, F)
          PROVE  \A n \in Cache!CacheIDs, f \in Families : Grows(n, f)
      BY <3>2 DEF Cache!SetSnapshots
    <3>3. ASSUME NEW m \in NodeIDs, Cache!Forget(m)
          PROVE  \A n \in Cache!CacheIDs, f \in Families : Grows(n, f) \/ Cleared(n, f)
      <4>. TAKE n \in Cache!CacheIDs, f \in Families
      <4>1. /\ VersionsOf' = [VersionsOf EXCEPT ![m] = [g \in Families |-> 0]]
            /\ ContentsOf' = [ContentsOf EXCEPT ![m] = [g \in Families |-> {}]]
        BY <3>3 DEF Cache!Forget
      <4>2. DOMAIN VersionsOf = Cache!CacheIDs /\ DOMAIN ContentsOf = Cache!CacheIDs
        BY DEF VersionsOf, ContentsOf, Cache!CacheIDs
      <4>3. CASE n = m
        <5>1. VersionsOf'[n] = [g \in Families |-> 0] /\ ContentsOf'[n] = [g \in Families |-> {}]
          BY <4>1, <4>2, <4>3
        <5>. QED  BY <4>3, <5>1, ValuesAssumption
      <4>4. CASE n # m
        BY <4>1, <4>2, <4>4
      <4>. QED  BY <4>3, <4>4
    <3>4. Cache!CacheNext \/ UNCHANGED Cache!cacheVars
      BY <1>1, StepImplementsCache
    <3>5. CASE UNCHANGED Cache!cacheVars
      BY <3>1, <3>5 DEF Cache!cacheVars
    <3>6. CASE \E f \in Families : Cache!PublishFull(f) \/ Cache!PublishNodes(f)
      BY <3>2, <3>6 DEF Cache!PublishFull, Cache!PublishNodes
    <3>7. ASSUME NEW m \in NodeIDs,
                 Cache!Register(m) \/ (\E f \in Families : Cache!Update(m, f)) \/ Cache!CloseStream(m)
          PROVE  \A n \in Cache!CacheIDs, f \in Families : Grows(n, f) \/ Cleared(n, f)
      BY <3>1, <3>2, <3>7 DEF Cache!Register, Cache!Update, Cache!CloseStream
    <3>. QED  BY <3>3, <3>4, <3>5, <3>6, <3>7 DEF Cache!CacheNext
  <2>2. /\ \A n \in NodeIDs, f \in Families : nodeSnap[n][f] \in Snapshot /\ nodeSnap'[n][f] \in Snapshot
        /\ \A f \in Families : full[f] \in Snapshot /\ full'[f] \in Snapshot
    BY <1>1, SMTT(30) DEF IInv, TypeOK
  <2>3. ASSUME NEW s \in Snapshot, NEW t \in Snapshot
        PROVE  /\ t.version = s.version /\ t.resources = s.resources => t = s
               /\ t.version = 0 /\ t.resources = {} => t = NoSnapshot
               /\ t.version = s.version + 1 => t.version > s.version
    BY SMTT(30) DEF Snapshot, NoSnapshot
  <2>4. \A f \in Families : full'[f] = full[f] \/ full'[f].version > full[f].version
    <3>. TAKE f \in Families
    <3>1. /\ VersionsOf[EmptyNodeID][f] = full[f].version /\ VersionsOf'[EmptyNodeID][f] = full'[f].version
          /\ ContentsOf[EmptyNodeID][f] = full[f].resources /\ ContentsOf'[EmptyNodeID][f] = full'[f].resources
      BY DEF VersionsOf, ContentsOf, SnapshotOf
    <3>2. Grows(EmptyNodeID, f)
      BY <2>1 DEF Cache!CacheIDs
    <3>. QED  BY <2>2, <2>3, <3>1, <3>2
  <2>5. \A n \in NodeIDs, f \in Families :
          nodeSnap'[n][f] \in {nodeSnap[n][f], NoSnapshot} \/ nodeSnap'[n][f].version > nodeSnap[n][f].version
    <3>. TAKE n \in NodeIDs, f \in Families
    <3>1. /\ VersionsOf[n][f] = nodeSnap[n][f].version /\ VersionsOf'[n][f] = nodeSnap'[n][f].version
          /\ ContentsOf[n][f] = nodeSnap[n][f].resources /\ ContentsOf'[n][f] = nodeSnap'[n][f].resources
      BY ValuesAssumption DEF VersionsOf, ContentsOf, SnapshotOf
    <3>2. Grows(n, f) \/ Cleared(n, f)
      BY <2>1 DEF Cache!CacheIDs
    <3>. QED  BY <2>2, <2>3, <3>1, <3>2
  <2>. QED  BY <2>4, <2>5 DEF VersionsGrow
<1>. QED  BY <1>1, Invariance, PTL DEF Spec, NewContentNewVersion

=============================================================================
