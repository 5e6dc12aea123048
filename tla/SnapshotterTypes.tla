-------------------------- MODULE SnapshotterTypes --------------------------
(*****************************************************************************)
(* Type correctness of Snapshotter, for any sets of nodes, streams, keys and *)
(* contents, any requests and any bounds, and facts about its pure parts.    *)
(* Then the inductive invariant IInv: the initial states and publications.   *)
(*****************************************************************************)
EXTENDS Snapshotter, TLAPS

(* Most leaves are first-order; those with arithmetic or nested EXCEPT cite SMT. *)
USE ZenonT(30), SMTT(30)

-----------------------------------------------------------------------------
(* Facts about the pure parts *)

(* Every type URL that is served belongs to one of the two families. *)
LEMMA MapTypeURLFact ==
  ASSUME NEW t \in TypeURLs
  PROVE  mapTypeURL(t) \in Families /\ t \in TypesOf(mapTypeURL(t))
BY DEF mapTypeURL, TypeURLs, Families, TypesOf

(* The empty list of names is a list of names and names nothing. *)
LEMMA NoNamesFact == NoNames \in [TypeURLs -> Seq(Names)]
BY SMTT(30) DEF NoNames

(* The elements of a list of names are names. *)
LEMMA RangeFact ==
  ASSUME NEW ns \in Seq(Names)
  PROVE  Range(ns) \subseteq Names
BY SMTT(30) DEF Range

(***************************************************************************)
(* What is made from a store: well-typed resources, no two of one name.    *)
(***************************************************************************)
LEMMA ToResourcesType ==
  ASSUME NEW f \in Families, NEW store \in Store,
         NEW A \in SUBSET (Authorities \cup {NoAuthority})
  PROVE  ToResources(f, store, A) \in SUBSET Resource
<1>1. SUFFICES ASSUME NEW t \in TypesOf(f),
                      NEW k \in {k \in Keys : store[k] # Absent}, NEW a \in A
               PROVE  [type |-> t, name |-> <<k, a>>, content |-> store[k]] \in Resource
  BY SMTT(30) DEF ToResources
<1>2. t \in TypeURLs /\ <<k, a>> \in Names /\ store[k] \in Contents
  BY DEF TypesOf, Names, Store
<1>. QED  BY <1>2 DEF Resource

(* No two resources made of a store have the same type and name. *)
LEMMA ToResourcesUnique ==
  ASSUME NEW f \in Families, NEW store \in Store,
         NEW A \in SUBSET (Authorities \cup {NoAuthority})
  PROVE  UniqueNames(ToResources(f, store, A))
BY SMTT(30) DEF ToResources, UniqueNames, SameName

(***************************************************************************)
(* The copies of a stream are well typed, have the type they are copied    *)
(* for, and come from the full snapshot or are dummies.                    *)
(***************************************************************************)
LEMMA StreamResourcesType ==
  ASSUME NEW t \in TypeURLs, NEW ns \in Seq(Names), full \in [Families -> Snapshot]
  PROVE  StreamResources(t, ns) \in SUBSET Resource
<1>1. mapTypeURL(t) \in Families
  BY MapTypeURLFact
<1>2. full[mapTypeURL(t)].resources \in SUBSET Resource
  BY <1>1 DEF Snapshot
<1>3. getResourcesFromCache(t, ns) \in SUBSET Resource
  BY <1>2 DEF getResourcesFromCache
<1>4. makeDummyResources(t, ns) \in SUBSET Resource
  BY RangeFact, SMTT(30) DEF makeDummyResources, Resource
<1>. QED  BY <1>3, <1>4 DEF StreamResources

(* A snapshot made from a list has only resources of the list ... *)
LEMMA NewSnapshotResourcesSubset ==
  ASSUME NEW rs, NEW R \in NewSnapshotResources(rs)
  PROVE  R \subseteq rs
BY DEF NewSnapshotResources

(* ... and is the list itself when no two of its resources share a name. *)
LEMMA NewSnapshotResourcesUnique ==
  ASSUME NEW rs, UniqueNames(rs)
  PROVE  /\ rs \in NewSnapshotResources(rs)
         /\ \A R \in NewSnapshotResources(rs) : R = rs
<1>1. rs \in NewSnapshotResources(rs)
  BY DEF NewSnapshotResources, UniqueNames, SameName
<1>2. ASSUME NEW R \in NewSnapshotResources(rs)  PROVE R = rs
  <2>1. R \subseteq rs
    BY DEF NewSnapshotResources
  <2>2. ASSUME NEW r \in rs  PROVE r \in R
    <3>1. PICK r1 \in R : SameName(r, r1)
      BY DEF NewSnapshotResources
    <3>. QED  BY <2>1, <3>1 DEF UniqueNames
  <2>. QED  BY <2>1, <2>2
<1>. QED  BY <1>1, <1>2

(* The union of well-typed copies is a set of resources. *)
LEMMA AggregateType ==
  ASSUME NEW f \in Families, NEW sts \in SUBSET Streams,
         NEW rs \in [Streams -> [TypeURLs -> SUBSET Resource]]
  PROVE  aggregateNodeResources(f, sts, rs) \in SUBSET Resource
BY SMTT(30) DEF aggregateNodeResources, TypesOf

(* The two families are what the code makes of the three or four type URLs. *)
LEMMA FamiliesFact == "services" \in Families /\ "endpoints" \in Families
BY DEF Families

(* A snapshot made for a node has the next version and the merged list. *)
LEMMA NodeSnapshotsFact ==
  ASSUME NEW n, NEW f, NEW sts, NEW rs, NEW s \in NodeSnapshots(n, f, sts, rs)
  PROVE  /\ s.version = version[n][f] + 1
         /\ s.resources \in NewSnapshotResources(aggregateNodeResources(f, sts, rs))
BY SMTT(30) DEF NodeSnapshots

(* A new snapshot of a node is a snapshot. *)
LEMMA NodeSnapshotsType ==
  ASSUME NEW n \in NodeIDs, NEW f \in Families, NEW sts \in SUBSET Streams,
         NEW rs \in [Streams -> [TypeURLs -> SUBSET Resource]],
         version \in [NodeIDs -> [Families -> Nat]],
         NEW s \in NodeSnapshots(n, f, sts, rs)
  PROVE  s \in Snapshot
<1>1. PICK R \in NewSnapshotResources(aggregateNodeResources(f, sts, rs)) :
        s = [version |-> version[n][f] + 1, resources |-> R]
  BY DEF NodeSnapshots
<1>2. R \in SUBSET Resource
  BY AggregateType, NewSnapshotResourcesSubset
<1>3. version[n][f] + 1 \in Nat
  BY SMTT(30)
<1>. QED  BY <1>1, <1>2, <1>3 DEF Snapshot

(* Copies that one full snapshot was read for do not disagree on a name. *)
LEMMA AggregateUnique ==
  ASSUME NEW f \in Families, NEW sts \in SUBSET Streams, NEW rs, NEW ns,
         FullUnique,
         \A st \in sts, t \in TypesOf(f) : rs[st][t] = StreamResources(t, ns[st][t])
  PROVE  UniqueNames(aggregateNodeResources(f, sts, rs))
<1>1. CASE LocalhostEndpoints
  BY <1>1, SMTT(30) DEF UniqueNames, aggregateNodeResources, StreamResources, makeDummyResources, SameName
<1>2. CASE ~LocalhostEndpoints
  <2>1. aggregateNodeResources(f, sts, rs) \subseteq full[f].resources
    BY <1>2, SMTT(30) DEF aggregateNodeResources, StreamResources, getResourcesFromCache, TypesOf
  <2>. QED  BY <2>1 DEF FullUnique, UniqueNames
<1>. QED  BY <1>1, <1>2

-----------------------------------------------------------------------------
(* Type correctness *)

TypeInv == TypeOK /\ FullUnique /\ UpdatesAreTyped

(* Nothing is cached, known or under way when the program starts. *)
LEMMA InitType == Init => TypeInv
<1>. SUFFICES ASSUME Init  PROVE TypeInv
  OBVIOUS
<1>1. NoSnapshot \in Snapshot /\ Idle \in SnapCall /\ NoRequest \in Request
  BY FamiliesFact, SMTT(30) DEF NoSnapshot, Snapshot, Idle, SnapCall, EmptyStore, Store, NoRequest, Request
<1>2. NoResources \in [TypeURLs -> SUBSET Resource] /\ EmptyStore \in Store
  BY DEF NoResources, EmptyStore, Store
<1>3. TypeOK
  BY <1>1, <1>2, NoNamesFact DEF Init, TypeOK
<1>4. FullUnique
  BY DEF Init, FullUnique, NoSnapshot, UniqueNames
<1>5. UpdatesAreTyped
  BY DEF Init, UpdatesAreTyped
<1>. QED  BY <1>3, <1>4, <1>5 DEF TypeInv

(* A new full snapshot is well typed and has one resource of a name. *)
LEMMA SetFullSnapshotType ==
  ASSUME TypeInv, NEW f \in Families, NEW store \in Store, SetFullSnapshot(f, store)
  PROVE  TypeInv'
<1>. DEFINE A == Authorities \cup {NoAuthority}
<1>. DEFINE R == ToResources(f, store, A)
<1>1. R \in SUBSET Resource /\ UniqueNames(R)
  BY ToResourcesType, ToResourcesUnique
<1>2. full[f].version + 1 \in Nat /\ full[f].resources \in SUBSET Resource
  BY SMTT(30) DEF TypeInv, TypeOK, Snapshot
<1>. HIDE DEF R
<1>3. full' = [full EXCEPT ![f] = [version |-> full[f].version + 1, resources |-> R]]
  BY DEF SetFullSnapshot, R
<1>4. full' \in [Families -> Snapshot]
  BY <1>1, <1>2, <1>3 DEF TypeInv, TypeOK, Snapshot
<1>5. snap' \in SnapCall
  BY <1>2 DEF SetFullSnapshot, SnapCall
<1>6. FullUnique'
  BY <1>1, <1>3, SMTT(30) DEF TypeInv, TypeOK, FullUnique, UniqueNames, SameName
<1>7. TypeOK'
  BY <1>4, <1>5 DEF SetFullSnapshot, TypeInv, TypeOK, nodeVars, streamVars
<1>8. UpdatesAreTyped'
  BY DEF SetFullSnapshot, TypeInv, UpdatesAreTyped, streamVars
<1>. QED  BY <1>6, <1>7, <1>8 DEF TypeInv

(* Syncing the linear caches keeps the types. *)
LEMMA SyncLinearCachesType ==
  ASSUME TypeInv, SyncLinearCaches
  PROVE  TypeInv'
<1>1. snap \in SnapCall /\ delta \in [Families -> Store]
  BY DEF TypeInv, TypeOK
<1>2. snap' \in SnapCall /\ delta' \in [Families -> Store]
  BY <1>1 DEF SyncLinearCaches, SnapCall
<1>. QED
  BY <1>2 DEF SyncLinearCaches, TypeInv, TypeOK, FullUnique, UpdatesAreTyped, nodeVars, streamVars

(* The copies that RefreshNodes takes, and what it makes of them. *)
Fresh ==
  [n \in NodeIDs |-> [st \in Streams |-> [t \in TypeURLs |->
     IF n \in nodes /\ st \in nodeStreams[n] /\ mapTypeURL(t) = snap.family
     THEN StreamResources(t, names[n][st][t])
     ELSE res[n][st][t]]]]
FreshAggregate(n) == aggregateNodeResources(snap.family, nodeStreams[n], Fresh[n])

(* The copies that a publication takes have their types. *)
LEMMA FreshType ==
  ASSUME TypeInv
  PROVE  Fresh \in [NodeIDs -> [Streams -> [TypeURLs -> SUBSET Resource]]]
<1>1. ASSUME NEW n \in NodeIDs, NEW st \in Streams, NEW t \in TypeURLs
      PROVE  /\ StreamResources(t, names[n][st][t]) \in SUBSET Resource
             /\ res[n][st][t] \in SUBSET Resource
  <2>1. names[n][st][t] \in Seq(Names) /\ res[n][st][t] \in SUBSET Resource
    BY SMTT(30) DEF TypeInv, TypeOK
  <2>2. full \in [Families -> Snapshot]
    BY DEF TypeInv, TypeOK
  <2>. QED  BY <2>1, <2>2, StreamResourcesType
<1>. QED  BY <1>1 DEF Fresh

(* RefreshNodes has one way to make a node's snapshot from the fresh copies. *)
LEMMA FreshFact ==
  ASSUME TypeInv, NEW n \in nodes
  PROVE  /\ FreshAggregate(n) \in SUBSET Resource
         /\ UniqueNames(FreshAggregate(n))
         /\ FreshAggregate(n) \in NewSnapshotResources(FreshAggregate(n))
         /\ (CHOOSE R \in NewSnapshotResources(FreshAggregate(n)) : TRUE) = FreshAggregate(n)
<1>1. snap.family \in Families /\ n \in NodeIDs /\ nodeStreams[n] \in SUBSET Streams
  BY DEF TypeInv, TypeOK, SnapCall
<1>2. Fresh \in [NodeIDs -> [Streams -> [TypeURLs -> SUBSET Resource]]]
  BY FreshType
<1>3. FreshAggregate(n) \in SUBSET Resource
  BY <1>1, <1>2, AggregateType DEF FreshAggregate
<1>4. \A st \in nodeStreams[n], t \in TypesOf(snap.family) :
        Fresh[n][st][t] = StreamResources(t, names[n][st][t])
  BY <1>1 DEF Fresh, TypesOf
<1>5. UniqueNames(FreshAggregate(n))
  BY <1>1, <1>4, AggregateUnique DEF FreshAggregate, TypeInv
<1>. QED  BY <1>3, <1>5, NewSnapshotResourcesUnique

(* Refreshing the nodes keeps the types. *)
LEMMA RefreshNodesType ==
  ASSUME TypeInv, RefreshNodes
  PROVE  TypeInv'
<1>1. snap.family \in Families
  BY DEF TypeInv, TypeOK, SnapCall
<1>2. res' = Fresh
  BY DEF RefreshNodes, Fresh
<1>3. Fresh \in [NodeIDs -> [Streams -> [TypeURLs -> SUBSET Resource]]]
  BY FreshType
<1>4. version' \in [NodeIDs -> [Families -> Nat]]
  BY <1>1, SMTT(30) DEF RefreshNodes, TypeInv, TypeOK
<1>5. nodeSnap' = [n \in NodeIDs |->
         IF n \in nodes
         THEN [nodeSnap[n] EXCEPT ![snap.family] =
                 [version |-> version[n][snap.family] + 1, resources |-> FreshAggregate(n)]]
         ELSE nodeSnap[n]]
  BY FreshFact DEF RefreshNodes, Fresh, FreshAggregate
<1>6. ASSUME NEW n \in nodes
      PROVE  [version |-> version[n][snap.family] + 1, resources |-> FreshAggregate(n)] \in Snapshot
  <2>1. version[n][snap.family] + 1 \in Nat
    BY <1>1, SMTT(30) DEF TypeInv, TypeOK
  <2>2. FreshAggregate(n) \in SUBSET Resource
    BY FreshFact
  <2>. QED  BY <2>1, <2>2 DEF Snapshot
<1>7. nodeSnap' \in [NodeIDs -> [Families -> Snapshot]]
  BY <1>1, <1>5, <1>6 DEF TypeInv, TypeOK
<1>8. snap' \in SnapCall
  BY FamiliesFact DEF RefreshNodes, Idle, SnapCall, EmptyStore, Store
<1>. QED
  BY <1>2, <1>3, <1>4, <1>7, <1>8
  DEF RefreshNodes, TypeInv, TypeOK, FullUnique, UpdatesAreTyped, streamVars

(* The callbacks that only move a stream on keep the types. *)
LEMMA OnStreamOpenType ==
  ASSUME TypeInv, NEW st \in Streams, OnStreamOpen(st)
  PROVE  TypeInv'
BY DEF OnStreamOpen, TypeInv, TypeOK, FullUnique, UpdatesAreTyped, nodeVars, cacheVars

(* A request that waits, or comes without a node id, changes no cache. *)
LEMMA OnStreamRequestType ==
  ASSUME TypeInv, NEW st \in Streams, OnStreamRequest(st) \/ LegacyRequest(st)
  PROVE  TypeInv'
BY DEF OnStreamRequest, LegacyRequest, TypeInv, TypeOK, FullUnique, UpdatesAreTyped, nodeVars, cacheVars

(* A request that is turned down changes no cache. *)
LEMMA RejectRequestType ==
  ASSUME TypeInv, NEW st \in Streams, NEW n \in NodeIDs \cup {EmptyNodeID}, RejectRequest(st, n)
  PROVE  TypeInv'
BY DEF RejectRequest, TypeInv, TypeOK, FullUnique, UpdatesAreTyped, nodeVars, cacheVars

(* The callback of a closed stream only begins to delete its entry. *)
LEMMA OnStreamClosedType ==
  ASSUME TypeInv, NEW st \in Streams, OnStreamClosed(st)
  PROVE  TypeInv'
BY DEF OnStreamClosed, TypeInv, TypeOK, FullUnique, UpdatesAreTyped, nodeVars, cacheVars

(* Entering a stream under its node keeps the types. *)
LEMMA AddOrUpdateNodeType ==
  ASSUME TypeInv, NEW st \in Streams, NEW n \in NodeIDs,
         NEW t \in TypeURLs \cup OtherTypes, NEW ns \in RequestNames,
         AddOrUpdateNode(st, n, t, ns)
  PROVE  TypeInv'
<1>1. ns \in Seq(Names)
  BY ValuesAssumption
<1>2. [type |-> t, names |-> ns] \in Request
  BY <1>1 DEF Request
<1>3. req' \in [Streams -> Request] /\ asked' \in [Streams -> [TypeURLs -> Seq(Names)]]
  BY <1>1, <1>2 DEF AddOrUpdateNode, TypeInv, TypeOK
<1>4. nodeStreams' \in [NodeIDs -> SUBSET Streams] /\ nodes' \subseteq NodeIDs
  BY DEF AddOrUpdateNode, TypeInv, TypeOK
<1>5. /\ pc' \in [Streams -> {"closed", "open", "waiting", "added", "updating", "failed", "closing"}]
      /\ clientNode' \in [Streams -> NodeIDs \cup {EmptyNodeID}]
  BY DEF AddOrUpdateNode, TypeInv, TypeOK
<1>. QED
  BY <1>3, <1>4, <1>5 DEF AddOrUpdateNode, TypeInv, TypeOK, FullUnique, UpdatesAreTyped, cacheVars

(* Deciding whether to update keeps the types. *)
LEMMA NeedToUpdateSnapshotType ==
  ASSUME TypeInv, NEW st \in Streams, NeedToUpdateSnapshot(st)
  PROVE  TypeInv'
<1>1. NoRequest \in Request
  BY SMTT(30) DEF NoRequest, Request
<1>2. req' \in [Streams -> Request]
  BY <1>1 DEF NeedToUpdateSnapshot, TypeInv, TypeOK
<1>3. \E p \in {"open", "failed", "updating"} : pc' = [pc EXCEPT ![st] = p]
  <2>1. CASE clientNode[st] \notin nodes
    BY <2>1 DEF NeedToUpdateSnapshot
  <2>2. CASE clientNode[st] \in nodes /\ st \notin nodeStreams[clientNode[st]]
    BY <2>2 DEF NeedToUpdateSnapshot
  <2>3. CASE clientNode[st] \in nodes /\ st \in nodeStreams[clientNode[st]]
    BY <2>3 DEF NeedToUpdateSnapshot
  <2>. QED  BY <2>1, <2>2, <2>3
<1>4. pc' \in [Streams -> {"closed", "open", "waiting", "added", "updating", "failed", "closing"}]
  BY <1>3 DEF TypeInv, TypeOK
<1>5. pc'[st] = "updating" => req'[st].type \in TypeURLs
  <2>1. SUFFICES ASSUME pc'[st] = "updating"  PROVE req[st].type \in TypeURLs
    BY DEF NeedToUpdateSnapshot
  <2>2. mapTypeURL(req[st].type) # NoType
    <3>1. CASE clientNode[st] \notin nodes
      BY <2>1, <3>1 DEF NeedToUpdateSnapshot, TypeInv, TypeOK
    <3>2. CASE clientNode[st] \in nodes /\ st \notin nodeStreams[clientNode[st]]
      BY <2>1, <3>2 DEF NeedToUpdateSnapshot, TypeInv, TypeOK
    <3>3. CASE clientNode[st] \in nodes /\ st \in nodeStreams[clientNode[st]]
      BY <2>1, <3>3 DEF NeedToUpdateSnapshot, TypeInv, TypeOK
    <3>. QED  BY <3>1, <3>2, <3>3
  <2>. QED  BY <2>2 DEF mapTypeURL, TypeURLs
<1>6. UpdatesAreTyped'
  BY <1>3, <1>5 DEF NeedToUpdateSnapshot, TypeInv, TypeOK, UpdatesAreTyped
<1>. QED
  BY <1>2, <1>4, <1>6 DEF NeedToUpdateSnapshot, TypeInv, TypeOK, FullUnique, nodeVars, cacheVars

(* The full snapshot or the dummies give a stream well-typed copies. *)
LEMMA UpdateStreamNodeResourcesType ==
  ASSUME TypeInv, NEW st \in Streams, UpdateStreamNodeResources(st)
  PROVE  TypeInv'
<1>. DEFINE n == clientNode[st]
            t == req[st].type
            f == mapTypeURL(t)
            ok == /\ n \in nodes
                  /\ st \in nodeStreams[n]
                  /\ LocalhostEndpoints \/ full[f] # NoSnapshot
<1>1. t \in TypeURLs /\ f \in Families
  <2>1. pc[st] = "updating" /\ UpdatesAreTyped
    BY DEF UpdateStreamNodeResources, TypeInv
  <2>2. t \in TypeURLs
    BY <2>1 DEF UpdatesAreTyped
  <2>. QED  BY <2>2, MapTypeURLFact
<1>2. req[st].names \in Seq(Names) /\ NoRequest \in Request
  <2>1. req[st] \in Request
    BY DEF TypeInv, TypeOK
  <2>2. req[st].names \in Seq(Names)
    BY <2>1 DEF Request
  <2>3. NoRequest \in Request
    BY SMTT(30) DEF Request, NoRequest
  <2>. QED  BY <2>2, <2>3
<1>3. req' \in [Streams -> Request]
  <2>1. req' = [req EXCEPT ![st] = NoRequest]
    BY DEF UpdateStreamNodeResources
  <2>. QED  BY <1>2, <2>1 DEF TypeInv, TypeOK
<1>4. \E p \in {"open", "failed"} : pc' = [pc EXCEPT ![st] = p]
  BY DEF UpdateStreamNodeResources
<1>5. pc' \in [Streams -> {"closed", "open", "waiting", "added", "updating", "failed", "closing"}]
  BY <1>4 DEF TypeInv, TypeOK
<1>6. UpdatesAreTyped'
  <2>1. req' = [req EXCEPT ![st] = NoRequest]
    BY DEF UpdateStreamNodeResources
  <2>. QED  BY <1>4, <2>1 DEF TypeInv, TypeOK, UpdatesAreTyped
<1>7. UNCHANGED <<nodes, nodeStreams, full, delta, snap, streams, clientNode, asked>>
  BY DEF UpdateStreamNodeResources, cacheVars
<1>8. /\ names' \in [NodeIDs -> [Streams -> [TypeURLs -> Seq(Names)]]]
      /\ res' \in [NodeIDs -> [Streams -> [TypeURLs -> SUBSET Resource]]]
      /\ version' \in [NodeIDs -> [Families -> Nat]]
      /\ nodeSnap' \in [NodeIDs -> [Families -> Snapshot]]
  <2>1. CASE ok
    <3>1. n \in NodeIDs /\ nodeStreams[n] \in SUBSET Streams
      BY <2>1 DEF TypeInv, TypeOK
    <3>2. StreamResources(t, req[st].names) \in SUBSET Resource
      BY <1>1, <1>2, StreamResourcesType DEF TypeInv, TypeOK
    <3>3. names' = [names EXCEPT ![n][st][t] = req[st].names]
      BY <2>1 DEF UpdateStreamNodeResources
    <3>4. res' = [res EXCEPT ![n][st][t] = StreamResources(t, req[st].names)]
      BY <2>1 DEF UpdateStreamNodeResources
    <3>5. version' = [version EXCEPT ![n][f] = @ + 1]
      BY <2>1 DEF UpdateStreamNodeResources
    <3>6. PICK s \in NodeSnapshots(n, f, nodeStreams[n], res'[n]) :
            nodeSnap' = [nodeSnap EXCEPT ![n][f] = s]
      BY <2>1 DEF UpdateStreamNodeResources
    <3>7. res' \in [NodeIDs -> [Streams -> [TypeURLs -> SUBSET Resource]]]
      BY <1>1, <3>1, <3>2, <3>4, SMTT(30) DEF TypeInv, TypeOK
    <3>8. s \in Snapshot
      <4>1. res'[n] \in [Streams -> [TypeURLs -> SUBSET Resource]]
        BY <3>1, <3>7
      <4>2. version \in [NodeIDs -> [Families -> Nat]]
        BY DEF TypeInv, TypeOK
      <4>. QED  BY <1>1, <3>1, <3>6, <4>1, <4>2, NodeSnapshotsType
    <3>9. names' \in [NodeIDs -> [Streams -> [TypeURLs -> Seq(Names)]]]
      BY <1>1, <1>2, <3>1, <3>3 DEF TypeInv, TypeOK
    <3>10. version' \in [NodeIDs -> [Families -> Nat]]
      BY <1>1, <3>1, <3>5, SMTT(30) DEF TypeInv, TypeOK
    <3>11. nodeSnap' \in [NodeIDs -> [Families -> Snapshot]]
      BY <1>1, <3>1, <3>6, <3>8 DEF TypeInv, TypeOK
    <3>. QED  BY <3>7, <3>9, <3>10, <3>11
  <2>2. CASE ~ok
    <3>1. UNCHANGED <<names, res, version, nodeSnap>>
      BY <2>2 DEF UpdateStreamNodeResources, nodeVars
    <3>. QED  BY <3>1 DEF TypeInv, TypeOK
  <2>. QED  BY <2>1, <2>2
<1>. QED
  BY <1>3, <1>5, <1>6, <1>7, <1>8 DEF TypeInv, TypeOK, FullUnique

(* Taking a stream off its node keeps the types. *)
LEMMA DeleteNodeStreamType ==
  ASSUME TypeInv, NEW st \in Streams, DeleteNodeStream(st)
  PROVE  TypeInv'
<1>. DEFINE n == clientNode[st]
            left == nodeStreams[n] \ {st}
<1>1. /\ pc' = [pc EXCEPT ![st] = "closed"]
      /\ clientNode' = [clientNode EXCEPT ![st] = EmptyNodeID]
      /\ asked' = [asked EXCEPT ![st] = NoNames]
      /\ UNCHANGED <<full, delta, snap, streams, req>>
  BY DEF DeleteNodeStream, cacheVars
<1>2. /\ pc' \in [Streams -> {"closed", "open", "waiting", "added", "updating", "failed", "closing"}]
      /\ clientNode' \in [Streams -> NodeIDs \cup {EmptyNodeID}]
      /\ asked' \in [Streams -> [TypeURLs -> Seq(Names)]]
  BY <1>1, NoNamesFact DEF TypeInv, TypeOK
<1>3. UpdatesAreTyped'
  BY <1>1 DEF TypeInv, TypeOK, UpdatesAreTyped
<1>4. /\ nodes' \subseteq NodeIDs
      /\ nodeStreams' \in [NodeIDs -> SUBSET Streams]
      /\ names' \in [NodeIDs -> [Streams -> [TypeURLs -> Seq(Names)]]]
      /\ res' \in [NodeIDs -> [Streams -> [TypeURLs -> SUBSET Resource]]]
      /\ version' \in [NodeIDs -> [Families -> Nat]]
      /\ nodeSnap' \in [NodeIDs -> [Families -> Snapshot]]
  <2>1. CASE n \notin nodes
    BY <2>1 DEF DeleteNodeStream, nodeVars, TypeInv, TypeOK
  <2>2. CASE n \in nodes
    <3>1. n \in NodeIDs /\ left \in SUBSET Streams
      BY <2>2 DEF TypeInv, TypeOK
    <3>2. /\ nodeStreams' = [nodeStreams EXCEPT ![n] = left]
          /\ names' = [names EXCEPT ![n][st] = NoNames]
          /\ res' = [res EXCEPT ![n][st] = NoResources]
          /\ IF left = {} THEN DeleteNode(n) ELSE SnapshotNode(n, left)
      BY <2>2 DEF DeleteNodeStream
    <3>3. nodeStreams' \in [NodeIDs -> SUBSET Streams]
      BY <3>1, <3>2 DEF TypeInv, TypeOK
    <3>4. names' \in [NodeIDs -> [Streams -> [TypeURLs -> Seq(Names)]]]
      BY <3>1, <3>2, NoNamesFact DEF TypeInv, TypeOK
    <3>5. res' \in [NodeIDs -> [Streams -> [TypeURLs -> SUBSET Resource]]]
      BY <3>1, <3>2 DEF TypeInv, TypeOK, NoResources
    <3>6. /\ nodes' \subseteq NodeIDs
          /\ version' \in [NodeIDs -> [Families -> Nat]]
          /\ nodeSnap' \in [NodeIDs -> [Families -> Snapshot]]
      <4>1. CASE left = {}
        <5>1. NoSnapshot \in Snapshot
          BY DEF NoSnapshot, Snapshot
        <5>2. DeleteNode(n)
          BY <3>2, <4>1
        <5>3. [f \in Families |-> NoSnapshot] \in [Families -> Snapshot]
          BY <5>1
        <5>4. nodeSnap' \in [NodeIDs -> [Families -> Snapshot]]
          BY <3>1, <5>2, <5>3 DEF DeleteNode, TypeInv, TypeOK
        <5>5. version' \in [NodeIDs -> [Families -> Nat]]
          BY <3>1, <5>2 DEF DeleteNode, TypeInv, TypeOK
        <5>. QED  BY <5>2, <5>4, <5>5 DEF DeleteNode, TypeInv, TypeOK
      <4>2. CASE left # {}
        <5>1. PICK s \in NodeSnapshots(n, "services", left, res[n]),
                   e \in NodeSnapshots(n, "endpoints", left, res[n]) :
                nodeSnap' = [nodeSnap EXCEPT ![n] = [services |-> s, endpoints |-> e]]
          BY <3>2, <4>2 DEF SnapshotNode
        <5>2. /\ res[n] \in [Streams -> [TypeURLs -> SUBSET Resource]]
              /\ version \in [NodeIDs -> [Families -> Nat]]
          BY <3>1 DEF TypeInv, TypeOK
        <5>3. s \in Snapshot /\ e \in Snapshot
          BY <3>1, <5>1, <5>2, FamiliesFact, NodeSnapshotsType
        <5>4. [services |-> s, endpoints |-> e] \in [Families -> Snapshot]
          BY <5>3, SMTT(30) DEF Families
        <5>5. nodeSnap' \in [NodeIDs -> [Families -> Snapshot]]
          BY <3>1, <5>1, <5>4 DEF TypeInv, TypeOK
        <5>6. nodes' = nodes /\ version' = [version EXCEPT ![n] = [f \in Families |-> @[f] + 1]]
          BY <3>2, <4>2 DEF SnapshotNode
        <5>7. version' \in [NodeIDs -> [Families -> Nat]]
          BY <3>1, <5>2, <5>6, SMTT(30)
        <5>. QED  BY <5>5, <5>6, <5>7 DEF TypeInv, TypeOK
      <4>. QED  BY <4>1, <4>2
    <3>. QED  BY <3>3, <3>4, <3>5, <3>6
  <2>. QED  BY <2>1, <2>2
<1>. QED
  BY <1>1, <1>2, <1>3, <1>4 DEF TypeInv, TypeOK, FullUnique

(* Every step keeps the types. *)
LEMMA NextType == TypeInv /\ [Next]_vars => TypeInv'
<1>. SUFFICES ASSUME TypeInv, [Next]_vars  PROVE TypeInv'
  OBVIOUS
<1>1. CASE Publish
  BY <1>1, SetFullSnapshotType, SyncLinearCachesType, RefreshNodesType DEF Publish
<1>2. ASSUME NEW st \in Streams, StreamStep(st)  PROVE TypeInv'
  BY <1>2, OnStreamOpenType, OnStreamRequestType, RejectRequestType, AddOrUpdateNodeType,
     NeedToUpdateSnapshotType, UpdateStreamNodeResourcesType,
     OnStreamClosedType, DeleteNodeStreamType DEF StreamStep, LeaveWait
<1>3. CASE UNCHANGED vars
  BY <1>3 DEF vars, nodeVars, cacheVars, streamVars, TypeInv, TypeOK,
              FullUnique, UpdatesAreTyped
<1>. QED  BY <1>1, <1>2, <1>3 DEF Next

(***************************************************************************)
(* Type correctness of the snapshotter, for any constants.  RefreshNodes   *)
(* picks a snapshot for every node: that there is one to pick rests on the *)
(* full snapshots having one resource of a name (FullUnique).              *)
(***************************************************************************)
THEOREM TypeCorrect == Spec => []TypeOK
<1>1. Spec => []TypeInv
  BY InitType, NextType, PTL DEF Spec
<1>2. TypeInv => TypeOK
  BY DEF TypeInv
<1>. QED  BY <1>1, <1>2, PTL

-----------------------------------------------------------------------------
(* The inductive invariant, one action at a time *)

(* What IInv says of streams and entries, and of snapshots. *)
StreamInv == NothingLeaks /\ ClosedIsBlank /\ AskedIsKept
SnapInv == AbsentIsEmpty /\ SnapshotIsAggregate /\ CopiesAreFresh /\ VersionIsCounter

(* The invariant in the parts that are proved one by one. *)
LEMMA IInvParts == IInv <=> TypeInv /\ StreamInv /\ SnapInv
BY DEF IInv, TypeInv, StreamInv, SnapInv

(* A Snapshotter that has just started has no streams and no resources. *)
LEMMA InitInv == Init => StreamInv /\ SnapInv
<1>. SUFFICES ASSUME Init  PROVE StreamInv /\ SnapInv
  OBVIOUS
<1>1. NothingLeaks
  BY DEF Init, NothingLeaks
<1>2. ClosedIsBlank
  BY DEF Init, ClosedIsBlank
<1>3. AskedIsKept
  BY DEF Init, AskedIsKept
<1>4. AbsentIsEmpty
  BY DEF Init, AbsentIsEmpty
<1>5. SnapshotIsAggregate
  <2>. SUFFICES ASSUME NEW n \in NodeIDs, NEW f \in Families
                PROVE  nodeSnap[n][f].resources \in
                         NewSnapshotResources(aggregateNodeResources(f, nodeStreams[n], res[n]))
    BY DEF SnapshotIsAggregate
  <2>1. nodeSnap[n][f].resources = {} /\ nodeStreams[n] = {}
    BY DEF Init, NoSnapshot
  <2>2. aggregateNodeResources(f, {}, res[n]) = {}
    BY SMTT(30) DEF aggregateNodeResources
  <2>. QED  BY <2>1, <2>2, NewSnapshotResourcesUnique DEF UniqueNames
<1>6. CopiesAreFresh
  BY DEF Init, CopiesAreFresh
<1>7. VersionIsCounter
  BY DEF Init, VersionIsCounter, NoSnapshot
<1>. QED  BY <1>1, <1>2, <1>3, <1>4, <1>5, <1>6, <1>7 DEF StreamInv, SnapInv

(* A step that leaves nodes and caches alone keeps what is said of them. *)
LEMMA SnapInvUnchanged ==
  ASSUME SnapInv, UNCHANGED <<nodeVars, full, snap>>
  PROVE  SnapInv'
<1>1. CopiesAreFresh'
  <2>. SUFFICES ASSUME NEW n \in NodeIDs, NEW t \in TypeURLs, NEW st \in nodeStreams[n],
                       Settled(mapTypeURL(t))
                PROVE  res[n][st][t] = StreamResources(t, names[n][st][t])'
    BY DEF CopiesAreFresh, nodeVars, Settled
  <2>1. StreamResources(t, names[n][st][t])' = StreamResources(t, names[n][st][t])
    BY DEF StreamResources, getResourcesFromCache, nodeVars
  <2>. QED  BY <2>1 DEF SnapInv, CopiesAreFresh
<1>2. AbsentIsEmpty' /\ SnapshotIsAggregate' /\ VersionIsCounter'
  BY DEF SnapInv, nodeVars, AbsentIsEmpty, SnapshotIsAggregate, VersionIsCounter
<1>. QED  BY <1>1, <1>2 DEF SnapInv

(* A step that leaves nodes and streams alone keeps what is said of them. *)
LEMMA StreamInvUnchanged ==
  ASSUME StreamInv, UNCHANGED <<nodes, nodeStreams, names, streamVars>>,
         \A n \in NodeIDs \ nodes : nodeSnap'[n] = nodeSnap[n]
  PROVE  StreamInv'
<1>1. NothingLeaks'
  BY SMTT(30) DEF StreamInv, streamVars, NothingLeaks
<1>2. ClosedIsBlank' /\ AskedIsKept'
  BY DEF StreamInv, streamVars, ClosedIsBlank, AskedIsKept
<1>. QED  BY <1>1, <1>2 DEF StreamInv

(***************************************************************************)
(* A new full snapshot makes the copies of its family stale, but that      *)
(* family is not settled any more; the copies of the other one stay fresh. *)
(***************************************************************************)
LEMMA SetFullSnapshotInv ==
  ASSUME IInv, NEW f \in Families, NEW store \in Store, SetFullSnapshot(f, store)
  PROVE  StreamInv' /\ SnapInv'
<1>1. StreamInv'
  BY StreamInvUnchanged, IInvParts DEF SetFullSnapshot, nodeVars
<1>2. CopiesAreFresh'
  <2>. SUFFICES ASSUME NEW n \in NodeIDs, NEW t \in TypeURLs, NEW st \in nodeStreams[n],
                       Settled(mapTypeURL(t))'
                PROVE  res[n][st][t] = StreamResources(t, names[n][st][t])'
    BY DEF CopiesAreFresh, SetFullSnapshot, nodeVars
  <2>1. mapTypeURL(t) # f /\ Settled(mapTypeURL(t))
    BY DEF SetFullSnapshot, Settled
  <2>2. full'[mapTypeURL(t)] = full[mapTypeURL(t)]
    BY <2>1, MapTypeURLFact DEF SetFullSnapshot, IInv, TypeOK
  <2>3. StreamResources(t, names[n][st][t])' = StreamResources(t, names[n][st][t])
    BY <2>2 DEF StreamResources, getResourcesFromCache, SetFullSnapshot, nodeVars
  <2>. QED  BY <2>1, <2>3 DEF IInv, CopiesAreFresh
<1>3. AbsentIsEmpty' /\ SnapshotIsAggregate' /\ VersionIsCounter'
  BY DEF IInv, SetFullSnapshot, nodeVars, AbsentIsEmpty, SnapshotIsAggregate, VersionIsCounter
<1>. QED  BY <1>1, <1>2, <1>3 DEF SnapInv

(* The linear caches are no concern of the nodes. *)
LEMMA SyncLinearCachesInv ==
  ASSUME IInv, SyncLinearCaches
  PROVE  StreamInv' /\ SnapInv'
<1>1. StreamInv'
  BY StreamInvUnchanged, IInvParts DEF SyncLinearCaches, nodeVars
<1>2. snap'.phase # "idle" /\ snap'.family = snap.family /\ snap.phase # "idle"
  BY DEF SyncLinearCaches, IInv, TypeOK, SnapCall
<1>3. \A f \in Families : Settled(f)' = Settled(f)
  BY <1>2 DEF Settled
<1>4. CopiesAreFresh'
  <2>. SUFFICES ASSUME NEW n \in NodeIDs, NEW t \in TypeURLs, NEW st \in nodeStreams[n],
                       Settled(mapTypeURL(t))
                PROVE  res[n][st][t] = StreamResources(t, names[n][st][t])'
    BY <1>3, MapTypeURLFact DEF CopiesAreFresh, SyncLinearCaches, nodeVars
  <2>1. StreamResources(t, names[n][st][t])' = StreamResources(t, names[n][st][t])
    BY DEF StreamResources, getResourcesFromCache, SyncLinearCaches, nodeVars
  <2>. QED  BY <2>1 DEF IInv, CopiesAreFresh
<1>5. AbsentIsEmpty' /\ SnapshotIsAggregate' /\ VersionIsCounter'
  BY DEF IInv, SyncLinearCaches, nodeVars, AbsentIsEmpty, SnapshotIsAggregate, VersionIsCounter
<1>. QED  BY <1>1, <1>4, <1>5 DEF SnapInv

(***************************************************************************)
(* RefreshNodes: the copies of its family become fresh and the snapshots   *)
(* of all nodes are made of them; the other family is left alone.          *)
(***************************************************************************)
LEMMA RefreshNodesInv ==
  ASSUME IInv, RefreshNodes
  PROVE  StreamInv' /\ SnapInv'
<1>. DEFINE g == snap.family
<1>1. TypeInv /\ g \in Families /\ nodes \subseteq NodeIDs
  BY IInvParts DEF TypeInv, TypeOK, SnapCall
<1>2. /\ res' = Fresh
      /\ UNCHANGED <<nodes, nodeStreams, names, full, streamVars>>
      /\ snap' = Idle
  BY DEF RefreshNodes, Fresh
<1>3. nodeSnap' = [n \in NodeIDs |->
         IF n \in nodes
         THEN [nodeSnap[n] EXCEPT ![g] =
                 [version |-> version[n][g] + 1, resources |-> FreshAggregate(n)]]
         ELSE nodeSnap[n]]
  BY <1>1, FreshFact DEF RefreshNodes, Fresh, FreshAggregate
<1>4. StreamInv'
  BY <1>2, <1>3, StreamInvUnchanged, IInvParts
<1>5. AbsentIsEmpty'
  <2>. SUFFICES ASSUME NEW n \in NodeIDs, NEW st \in Streams \ nodeStreams[n]
                PROVE  names[n][st] = NoNames /\ Fresh[n][st] = NoResources
    BY <1>2 DEF AbsentIsEmpty
  <2>1. names[n][st] = NoNames /\ res[n][st] = NoResources
    BY DEF IInv, AbsentIsEmpty
  <2>2. Fresh[n][st] = [t \in TypeURLs |-> res[n][st][t]]
    BY DEF Fresh
  <2>. QED  BY <2>1, <2>2 DEF NoResources
<1>6. SnapshotIsAggregate'
  <2>. SUFFICES ASSUME NEW n \in NodeIDs, NEW f \in Families
                PROVE  nodeSnap'[n][f].resources \in
                         NewSnapshotResources(aggregateNodeResources(f, nodeStreams[n], Fresh[n]))
    BY <1>2 DEF SnapshotIsAggregate
  <2>1. CASE n \in nodes /\ f = g
    <3>1. nodeSnap'[n][f].resources = FreshAggregate(n)
      BY <1>1, <1>3, <2>1 DEF TypeInv, TypeOK
    <3>. QED  BY <1>1, <2>1, <3>1, FreshFact DEF FreshAggregate
  <2>2. CASE n \notin nodes \/ f # g
    <3>1. nodeSnap'[n][f] = nodeSnap[n][f]
      BY <1>1, <1>3, <2>2 DEF TypeInv, TypeOK
    <3>2. n \notin nodes => nodeStreams[n] = {}
      BY DEF IInv, NothingLeaks
    <3>3. ASSUME NEW st \in nodeStreams[n], NEW t \in TypesOf(f)
          PROVE  Fresh[n][st][t] = res[n][st][t]
      BY <1>1, <2>2, <3>2 DEF Fresh, TypesOf, TypeInv, TypeOK
    <3>4. aggregateNodeResources(f, nodeStreams[n], Fresh[n])
            = aggregateNodeResources(f, nodeStreams[n], res[n])
      BY <3>3, SMTT(30) DEF aggregateNodeResources
    <3>. QED  BY <3>1, <3>4 DEF IInv, SnapshotIsAggregate
  <2>. QED  BY <2>1, <2>2
<1>7. CopiesAreFresh'
  <2>. SUFFICES ASSUME NEW n \in NodeIDs, NEW t \in TypeURLs, NEW st \in nodeStreams[n]
                PROVE  Fresh[n][st][t] = StreamResources(t, names[n][st][t])'
    BY <1>2 DEF CopiesAreFresh
  <2>1. StreamResources(t, names[n][st][t])' = StreamResources(t, names[n][st][t])
    BY <1>2 DEF StreamResources, getResourcesFromCache
  <2>2. n \in nodes /\ st \in Streams
    BY <1>1 DEF IInv, NothingLeaks, TypeInv, TypeOK
  <2>3. CASE mapTypeURL(t) = g
    BY <2>1, <2>2, <2>3 DEF Fresh
  <2>4. CASE mapTypeURL(t) # g
    <3>1. res[n][st][t] = StreamResources(t, names[n][st][t])
      BY <2>4 DEF IInv, CopiesAreFresh, Settled
    <3>. QED  BY <2>1, <2>2, <2>4, <3>1 DEF Fresh
  <2>. QED  BY <2>3, <2>4
<1>8. VersionIsCounter'
  <2>. SUFFICES ASSUME NEW n \in NodeIDs, NEW f \in Families
                PROVE  nodeSnap'[n][f].version = version'[n][f]
    BY DEF VersionIsCounter
  <2>1. version' = [m \in NodeIDs |->
           IF m \in nodes THEN [version[m] EXCEPT ![g] = @ + 1] ELSE version[m]]
    BY DEF RefreshNodes
  <2>2. nodeSnap[n][f].version = version[n][f]
    BY DEF IInv, VersionIsCounter
  <2>. QED  BY <1>1, <1>3, <2>1, <2>2 DEF TypeInv, TypeOK
<1>. QED  BY <1>4, <1>5, <1>6, <1>7, <1>8 DEF SnapInv

=============================================================================
