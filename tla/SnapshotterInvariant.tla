------------------------ MODULE SnapshotterInvariant ------------------------
(*****************************************************************************)
(* The inductive invariant IInv of Snapshotter: the callbacks of streams and *)
(* the theorem that it always holds.                                         *)
(*****************************************************************************)
EXTENDS SnapshotterTypes

(* Most leaves are first-order; those with arithmetic or nested EXCEPT cite SMT. *)
USE ZenonT(30), SMTT(30)

-----------------------------------------------------------------------------
(* The callbacks that leave the entries of nodes alone *)

(* A fresh stream has sent nothing and has no entry. *)
LEMMA OnStreamOpenInv ==
  ASSUME IInv, NEW st \in Streams, OnStreamOpen(st)
  PROVE  StreamInv' /\ SnapInv'
<1>1. SnapInv'
  BY SnapInvUnchanged, IInvParts DEF OnStreamOpen, cacheVars
<1>2. /\ pc[st] = "closed" /\ pc' = [pc EXCEPT ![st] = "open"]
      /\ UNCHANGED <<nodeVars, clientNode, req, asked>>
  BY DEF OnStreamOpen
<1>3. clientNode[st] = EmptyNodeID
  BY <1>2 DEF IInv, ClosedIsBlank
<1>4. NothingLeaks'
  BY <1>2, <1>3 DEF IInv, TypeOK, NothingLeaks, nodeVars
<1>5. ClosedIsBlank'
  BY <1>2, <1>3 DEF IInv, TypeOK, ClosedIsBlank
<1>6. AskedIsKept'
  BY <1>2, <1>3 DEF IInv, TypeOK, AskedIsKept, nodeVars
<1>. QED  BY <1>1, <1>4, <1>5, <1>6 DEF StreamInv

(* While a request waits, or if it comes without a node id, nothing changes for the stream. *)
LEMMA OnStreamRequestInv ==
  ASSUME IInv, NEW st \in Streams, OnStreamRequest(st) \/ LegacyRequest(st)
  PROVE  StreamInv' /\ SnapInv'
<1>1. SnapInv'
  BY SnapInvUnchanged, IInvParts DEF OnStreamRequest, LegacyRequest, cacheVars
<1>2. /\ pc[st] \in {"open", "waiting"} /\ UNCHANGED <<nodeVars, clientNode, req, asked>>
      /\ pc'[st] \in {"open", "waiting", "failed"} /\ \A q \in Streams \ {st} : pc'[q] = pc[q]
  BY DEF OnStreamRequest, LegacyRequest, IInv, TypeOK
<1>3. NothingLeaks'
  BY <1>2, SMTT(30) DEF IInv, TypeOK, NothingLeaks, nodeVars
<1>4. ClosedIsBlank'
  BY <1>2, SMTT(30) DEF IInv, ClosedIsBlank
<1>5. AskedIsKept'
  <2>. SUFFICES ASSUME NEW q \in Streams,
                       clientNode[q] # EmptyNodeID, pc'[q] \in {"open", "waiting", "added", "updating"}
                PROVE  /\ q \in nodeStreams[clientNode[q]]
                       /\ \A u \in TypeURLs :
                            IF pc'[q] \in {"added", "updating"} /\ req[q].type = u
                            THEN asked[q][u] = req[q].names
                            ELSE Range(asked[q][u]) \subseteq Range(names[clientNode[q]][q][u])
    BY <1>2 DEF AskedIsKept, nodeVars
  <2>1. pc[q] = pc'[q] \/ (pc[q] \in {"open", "waiting"} /\ pc'[q] \in {"open", "waiting"})
    BY <1>2
  <2>. QED  BY <2>1, SMTT(30) DEF IInv, AskedIsKept
<1>. QED  BY <1>1, <1>3, <1>4, <1>5 DEF StreamInv

(* A rejected request leaves the nodes alone; the stream is about to close. *)
LEMMA RejectRequestInv ==
  ASSUME IInv, NEW st \in Streams, NEW n \in NodeIDs \cup {EmptyNodeID}, RejectRequest(st, n)
  PROVE  StreamInv' /\ SnapInv'
<1>1. SnapInv'
  BY SnapInvUnchanged, IInvParts DEF RejectRequest, cacheVars
<1>2. /\ pc[st] = "waiting" /\ pc' = [pc EXCEPT ![st] = "failed"]
      /\ clientNode[st] \in {EmptyNodeID, n}
      /\ clientNode' = [clientNode EXCEPT ![st] = n]
      /\ UNCHANGED <<nodeVars, req, asked>>
  BY DEF RejectRequest, MayCarry
<1>3. EmptyNodeID \notin NodeIDs
  BY ValuesAssumption
<1>4. NothingLeaks'
  BY <1>2, <1>3, SMTT(30) DEF IInv, TypeOK, NothingLeaks, nodeVars
<1>5. ClosedIsBlank'
  BY <1>2, <1>3 DEF IInv, TypeOK, ClosedIsBlank
<1>6. AskedIsKept'
  BY <1>2 DEF IInv, TypeOK, AskedIsKept, nodeVars
<1>. QED  BY <1>1, <1>4, <1>5, <1>6 DEF StreamInv

(* Closing begins with the map of streams; the node's entry is still there. *)
LEMMA OnStreamClosedInv ==
  ASSUME IInv, NEW st \in Streams, OnStreamClosed(st)
  PROVE  StreamInv' /\ SnapInv'
<1>1. SnapInv'
  BY SnapInvUnchanged, IInvParts DEF OnStreamClosed, cacheVars
<1>2. /\ pc' = [pc EXCEPT ![st] = "closing"]
      /\ UNCHANGED <<nodeVars, clientNode, req, asked>>
  BY DEF OnStreamClosed
<1>3. NothingLeaks'
  BY <1>2 DEF IInv, TypeOK, NothingLeaks, nodeVars
<1>4. ClosedIsBlank'
  BY <1>2 DEF IInv, TypeOK, ClosedIsBlank
<1>5. AskedIsKept'
  BY <1>2 DEF IInv, TypeOK, AskedIsKept, nodeVars
<1>. QED  BY <1>1, <1>3, <1>4, <1>5 DEF StreamInv

(***************************************************************************)
(* When the names do not differ, those kept include those asked for: every *)
(* name of the request was found among them.                               *)
(***************************************************************************)
LEMMA NeedToUpdateSnapshotInv ==
  ASSUME IInv, NEW st \in Streams, NeedToUpdateSnapshot(st)
  PROVE  StreamInv' /\ SnapInv'
<1>. DEFINE n == clientNode[st]
            t == req[st].type
<1>1. SnapInv'
  <2>1. UNCHANGED <<nodeVars, full, snap>>
    BY DEF NeedToUpdateSnapshot, cacheVars
  <2>. QED  BY <2>1, SnapInvUnchanged, IInvParts
<1>1a. /\ pc \in [Streams -> {"closed", "open", "waiting", "added", "updating", "failed", "closing"}]
       /\ req \in [Streams -> Request]
  BY DEF IInv, TypeOK
<1>2. /\ pc[st] = "added" /\ UNCHANGED <<nodeVars, clientNode, asked>>
      /\ \A s \in Streams \ {st} : pc'[s] = pc[s] /\ req'[s] = req[s]
      /\ pc'[st] = "updating" => req' = req
  <2>1. /\ pc[st] = "added" /\ UNCHANGED <<nodeVars, clientNode, asked>>
        /\ req' = IF pc'[st] = "updating" THEN req ELSE [req EXCEPT ![st] = NoRequest]
    BY DEF NeedToUpdateSnapshot
  <2>2. PICK x : pc' = [pc EXCEPT ![st] = x]
    BY DEF NeedToUpdateSnapshot
  <2>. QED  BY <1>1a, <2>1, <2>2
<1>3. n # EmptyNodeID /\ n \in NodeIDs
  BY <1>2 DEF IInv, ClosedIsBlank, TypeOK
<1>4. CASE t \in TypeURLs
  <2>1. st \in nodeStreams[n] /\ asked[st][t] = req[st].names
    BY <1>2, <1>3, <1>4 DEF IInv, AskedIsKept
  <2>2. n \in nodes
    BY <1>3, <2>1 DEF IInv, NothingLeaks
  <2>3. mapTypeURL(t) # NoType
    BY <1>4, MapTypeURLFact DEF Families, NoType
  <2>4. \/ pc'[st] = "updating"
        \/ pc'[st] = "open" /\ Range(asked[st][t]) \subseteq Range(names[n][st][t])
    <3>1. pc'[st] = IF resourcesMatch(names[n][st][t], req[st].names) THEN "open" ELSE "updating"
      <4>1. pc'[st] = IF n \in nodes /\ st \notin nodeStreams[n] THEN "failed"
                      ELSE IF /\ n \in nodes
                              /\ mapTypeURL(t) # NoType
                              /\ ~resourcesMatch(names[n][st][t], req[st].names)
                           THEN "updating" ELSE "open"
        BY <1>1a DEF NeedToUpdateSnapshot
      <4>. QED  BY <2>1, <2>2, <2>3, <4>1
    <3>. QED  BY <2>1, <3>1 DEF resourcesMatch
  <2>5. NothingLeaks'
    <3>1. \A q \in Streams : pc[q] # "closed" => pc'[q] # "closed"
      BY <1>2, <2>4
    <3>2. nodeStreams \in [NodeIDs -> SUBSET Streams]
      BY DEF IInv, TypeOK
    <3>. QED  BY <1>2, <3>1, <3>2 DEF IInv, NothingLeaks, nodeVars
  <2>6. ClosedIsBlank'
    BY <1>2, <1>3, <2>4 DEF IInv, ClosedIsBlank
  <2>7. AskedIsKept'
    <3>. SUFFICES ASSUME NEW q \in Streams,
                         clientNode[q] # EmptyNodeID, pc'[q] \in {"open", "waiting", "added", "updating"}
                  PROVE  /\ q \in nodeStreams[clientNode[q]]
                         /\ \A u \in TypeURLs :
                              IF pc'[q] \in {"added", "updating"} /\ req'[q].type = u
                              THEN asked[q][u] = req'[q].names
                              ELSE Range(asked[q][u]) \subseteq Range(names[clientNode[q]][q][u])
      BY <1>2 DEF AskedIsKept, nodeVars
    <3>1. /\ pc[q] \in {"open", "waiting", "added", "updating"} => q \in nodeStreams[clientNode[q]]
          /\ pc[q] \in {"open", "waiting", "added", "updating"} => \A u \in TypeURLs :
               IF pc[q] \in {"added", "updating"} /\ req[q].type = u
               THEN asked[q][u] = req[q].names
               ELSE Range(asked[q][u]) \subseteq Range(names[clientNode[q]][q][u])
      BY DEF IInv, AskedIsKept
    <3>2. CASE q # st
      BY <1>2, <3>1, <3>2
    <3>3. CASE q = st /\ pc'[st] = "updating"
      BY <1>2, <3>1, <3>3
    <3>4. CASE q = st /\ pc'[st] = "open" /\ Range(asked[st][t]) \subseteq Range(names[n][st][t])
      <4>1. \A u \in TypeURLs \ {t} : Range(asked[st][u]) \subseteq Range(names[n][st][u])
        BY <1>2, <3>1, <3>4
      <4>. QED  BY <2>1, <3>4, <4>1
    <3>. QED  BY <2>4, <3>2, <3>3, <3>4
  <2>. QED  BY <1>1, <2>5, <2>6, <2>7 DEF StreamInv
<1>5. CASE t \notin TypeURLs
  <2>1. mapTypeURL(t) = NoType
    BY <1>5 DEF mapTypeURL, TypeURLs
  <2>2. pc'[st] \in {"open", "failed"}
    <3>1. CASE n \notin nodes
      BY <3>1 DEF NeedToUpdateSnapshot, IInv, TypeOK
    <3>2. CASE n \in nodes /\ st \notin nodeStreams[n]
      BY <3>2 DEF NeedToUpdateSnapshot, IInv, TypeOK
    <3>3. CASE n \in nodes /\ st \in nodeStreams[n]
      BY <2>1, <3>3 DEF NeedToUpdateSnapshot, IInv, TypeOK
    <3>. QED  BY <3>1, <3>2, <3>3
  <2>3. NothingLeaks'
    BY <1>2, <2>2, SMTT(30) DEF IInv, TypeOK, NothingLeaks, nodeVars
  <2>4. ClosedIsBlank'
    BY <1>2, <1>3, <2>2 DEF IInv, ClosedIsBlank
  <2>5. AskedIsKept'
    BY <1>2, <1>3, <1>5, <2>2, SMTT(30) DEF IInv, AskedIsKept, nodeVars
  <2>. QED  BY <1>1, <2>3, <2>4, <2>5 DEF StreamInv
<1>. QED  BY <1>4, <1>5

-----------------------------------------------------------------------------
(* The operations on the entry of a stream under its node *)

(***************************************************************************)
(* A new entry is empty: it adds nothing to the node's aggregate, and the  *)
(* copies of no names are fresh.                                           *)
(***************************************************************************)
LEMMA AddOrUpdateNodeInv ==
  ASSUME IInv, NEW st \in Streams, NEW n \in NodeIDs,
         NEW t \in TypeURLs \cup OtherTypes, NEW ns \in RequestNames,
         AddOrUpdateNode(st, n, t, ns)
  PROVE  StreamInv' /\ SnapInv'
<1>1. /\ pc[st] = "waiting" /\ pc' = [pc EXCEPT ![st] = "added"]
      /\ clientNode[st] \in {EmptyNodeID, n}
      /\ clientNode' = [clientNode EXCEPT ![st] = n]
      /\ req' = [req EXCEPT ![st] = [type |-> t, names |-> ns]]
      /\ asked' = IF t \in TypeURLs THEN [asked EXCEPT ![st][t] = ns] ELSE asked
      /\ nodes' = nodes \cup {n}
      /\ nodeStreams' = [nodeStreams EXCEPT ![n] = @ \cup {st}]
      /\ UNCHANGED <<names, res, version, nodeSnap, full, delta, snap>>
  BY DEF AddOrUpdateNode, MayCarry, cacheVars
<1>2. EmptyNodeID \notin NodeIDs /\ n # EmptyNodeID
  BY ValuesAssumption
<1>3. nodeStreams \in [NodeIDs -> SUBSET Streams] /\ nodes \subseteq NodeIDs
  BY DEF IInv, TypeOK
<1>4. NothingLeaks'
  <2>1. \A m \in NodeIDs : \A s \in nodeStreams'[m] : pc'[s] # "closed" /\ clientNode'[s] = m
    BY <1>1, <1>2, <1>3, SMTT(30) DEF IInv, TypeOK, NothingLeaks
  <2>2. nodes' = {m \in NodeIDs : nodeStreams'[m] # {}}
    BY <1>1, <1>3 DEF IInv, NothingLeaks
  <2>3. \A m \in NodeIDs \ nodes' : \A f \in Families : nodeSnap'[m][f] = NoSnapshot
    BY <1>1 DEF IInv, NothingLeaks
  <2>. QED  BY <2>1, <2>2, <2>3 DEF NothingLeaks
<1>5. ClosedIsBlank'
  BY <1>1, <1>2 DEF IInv, TypeOK, ClosedIsBlank
<1>6. AskedIsKept'
  <2>. SUFFICES ASSUME NEW s \in Streams,
                       clientNode'[s] # EmptyNodeID, pc'[s] \in {"open", "waiting", "added", "updating"}
                PROVE  /\ s \in nodeStreams'[clientNode'[s]]
                       /\ \A u \in TypeURLs :
                            IF pc'[s] \in {"added", "updating"} /\ req'[s].type = u
                            THEN asked'[s][u] = req'[s].names
                            ELSE Range(asked'[s][u]) \subseteq Range(names[clientNode'[s]][s][u])
    BY <1>1 DEF AskedIsKept
  <2>1. CASE s # st
    <3>1. /\ pc'[s] = pc[s] /\ clientNode'[s] = clientNode[s] /\ req'[s] = req[s]
          /\ asked'[s] = asked[s] /\ clientNode[s] \in NodeIDs
      BY <1>1, <2>1 DEF IInv, TypeOK
    <3>2. nodeStreams[clientNode[s]] \subseteq nodeStreams'[clientNode[s]]
      BY <1>1, <1>3, <3>1
    <3>. QED  BY <3>1, <3>2 DEF IInv, AskedIsKept
  <2>2. CASE s = st
    <3>1. /\ pc'[s] = "added" /\ clientNode'[s] = n /\ req'[s] = [type |-> t, names |-> ns]
          /\ s \in nodeStreams'[n]
      BY <1>1, <1>3, <2>2 DEF IInv, TypeOK
    <3>. SUFFICES ASSUME NEW u \in TypeURLs
                  PROVE  IF u = t THEN asked'[s][u] = ns
                         ELSE Range(asked'[s][u]) \subseteq Range(names[n][s][u])
      BY <3>1, SMTT(30)
    <3>2. CASE u = t
      BY <1>1, <2>2, <3>1, <3>2 DEF IInv, TypeOK
    <3>3. CASE u # t
      <4>1. asked'[s][u] = asked[s][u]
        BY <1>1, <2>2, <3>3 DEF IInv, TypeOK
      <4>2. Range(asked[s][u]) \subseteq Range(names[n][s][u])
        <5>1. CASE clientNode[s] = EmptyNodeID
          <6>1. asked[s][u] = <<>>
            BY <5>1 DEF IInv, ClosedIsBlank, NoNames
          <6>. QED  BY <6>1, SMTT(30) DEF Range
        <5>2. CASE clientNode[s] = n
          BY <1>1, <1>2, <2>2, <5>2 DEF IInv, AskedIsKept
        <5>. QED  BY <1>1, <2>2, <5>1, <5>2
      <4>. QED  BY <3>1, <3>3, <4>1, <4>2
    <3>. QED  BY <3>2, <3>3
  <2>. QED  BY <2>1, <2>2
<1>7. AbsentIsEmpty'
  BY <1>1, <1>3 DEF IInv, AbsentIsEmpty
<1>8. SnapshotIsAggregate'
  <2>. SUFFICES ASSUME NEW m \in NodeIDs, NEW f \in Families
                PROVE  nodeSnap[m][f].resources \in
                         NewSnapshotResources(aggregateNodeResources(f, nodeStreams'[m], res[m]))
    BY <1>1 DEF SnapshotIsAggregate
  <2>1. \A s \in nodeStreams'[m] \ nodeStreams[m] : s \in Streams /\ res[m][s] = NoResources
    BY <1>1, <1>3 DEF IInv, AbsentIsEmpty
  <2>2. nodeStreams[m] \subseteq nodeStreams'[m]
    BY <1>1, <1>3
  <2>3. \A s \in nodeStreams'[m] \ nodeStreams[m], u \in TypesOf(f) : res[m][s][u] = {}
    BY <2>1 DEF NoResources, TypesOf
  <2>4. aggregateNodeResources(f, nodeStreams'[m], res[m])
          = aggregateNodeResources(f, nodeStreams[m], res[m])
    BY <2>2, <2>3, SMTT(30) DEF aggregateNodeResources
  <2>. QED  BY <2>4 DEF IInv, SnapshotIsAggregate
<1>9. CopiesAreFresh'
  <2>. SUFFICES ASSUME NEW m \in NodeIDs, NEW u \in TypeURLs, NEW s \in nodeStreams'[m],
                       Settled(mapTypeURL(u))
                PROVE  res[m][s][u] = StreamResources(u, names[m][s][u])'
    BY <1>1 DEF CopiesAreFresh, Settled
  <2>1. StreamResources(u, names[m][s][u])' = StreamResources(u, names[m][s][u])
    BY <1>1 DEF StreamResources, getResourcesFromCache
  <2>2. CASE s \in nodeStreams[m]
    BY <2>1, <2>2 DEF IInv, CopiesAreFresh
  <2>3. CASE s \notin nodeStreams[m]
    <3>1. names[m][s][u] = <<>> /\ res[m][s][u] = {}
      BY <1>1, <1>3, <2>3, SMTT(30) DEF IInv, AbsentIsEmpty, NoNames, NoResources
    <3>2. StreamResources(u, <<>>) = {}
      BY SMTT(30) DEF StreamResources, makeDummyResources, getResourcesFromCache, Range
    <3>. QED  BY <2>1, <3>1, <3>2
  <2>. QED  BY <2>2, <2>3
<1>10. VersionIsCounter'
  BY <1>1 DEF IInv, VersionIsCounter
<1>. QED  BY <1>4, <1>5, <1>6, <1>7, <1>8, <1>9, <1>10 DEF StreamInv, SnapInv

(***************************************************************************)
(* A stream's new names come with fresh copies, and the node with a new    *)
(* snapshot of that family.                                                *)
(***************************************************************************)
LEMMA UpdateStreamNodeResourcesInv ==
  ASSUME IInv, NEW st \in Streams, UpdateStreamNodeResources(st)
  PROVE  StreamInv' /\ SnapInv'
<1>. DEFINE n == clientNode[st]
            t == req[st].type
            f == mapTypeURL(t)
            ok == /\ n \in nodes
                  /\ st \in nodeStreams[n]
                  /\ LocalhostEndpoints \/ full[f] # NoSnapshot
<1>1. /\ pc[st] = "updating" /\ pc' = [pc EXCEPT ![st] = IF ok THEN "open" ELSE "failed"]
      /\ req' = [req EXCEPT ![st] = NoRequest]
      /\ UNCHANGED <<nodes, nodeStreams, full, delta, snap, streams, clientNode, asked>>
  BY DEF UpdateStreamNodeResources, cacheVars
<1>2. t \in TypeURLs /\ f \in Families /\ t \in TypesOf(f)
  BY <1>1, MapTypeURLFact DEF IInv, UpdatesAreTyped
<1>3. n # EmptyNodeID /\ n \in NodeIDs
  BY <1>1 DEF IInv, ClosedIsBlank, TypeOK
<1>4. ClosedIsBlank'
  BY <1>1, <1>3 DEF IInv, TypeOK, ClosedIsBlank
<1>5. CASE ~ok
  <2>1. pc' = [pc EXCEPT ![st] = "failed"] /\ UNCHANGED <<nodeVars, full, snap>>
    BY <1>5 DEF UpdateStreamNodeResources, nodeVars, cacheVars
  <2>2. SnapInv'
    BY <2>1, SnapInvUnchanged, IInvParts
  <2>3. NothingLeaks'
    BY <1>1, <2>1, SMTT(30) DEF IInv, TypeOK, NothingLeaks, nodeVars
  <2>4. AskedIsKept'
    <3>. SUFFICES ASSUME NEW q \in Streams,
                         clientNode[q] # EmptyNodeID, pc'[q] \in {"open", "waiting", "added", "updating"}
                  PROVE  /\ q \in nodeStreams[clientNode[q]]
                         /\ \A u \in TypeURLs :
                              IF pc'[q] \in {"added", "updating"} /\ req'[q].type = u
                              THEN asked[q][u] = req'[q].names
                              ELSE Range(asked[q][u]) \subseteq Range(names[clientNode[q]][q][u])
      BY <1>1, <2>1 DEF AskedIsKept, nodeVars
    <3>1. pc'[q] = pc[q] /\ req'[q] = req[q]
      BY <1>1, <2>1 DEF IInv, TypeOK
    <3>. QED  BY <3>1 DEF IInv, AskedIsKept
  <2>. QED  BY <1>4, <2>2, <2>3, <2>4 DEF StreamInv
<1>6. CASE ok
  <2>1. /\ pc' = [pc EXCEPT ![st] = "open"]
        /\ names' = [names EXCEPT ![n][st][t] = req[st].names]
        /\ res' = [res EXCEPT ![n][st][t] = StreamResources(t, req[st].names)]
        /\ version' = [version EXCEPT ![n][f] = @ + 1]
    BY <1>6 DEF UpdateStreamNodeResources
  <2>2. PICK s \in NodeSnapshots(n, f, nodeStreams[n], res'[n]) :
          nodeSnap' = [nodeSnap EXCEPT ![n][f] = s]
    BY <1>6 DEF UpdateStreamNodeResources
  <2>3. /\ s.version = version[n][f] + 1
        /\ s.resources \in
             NewSnapshotResources(aggregateNodeResources(f, nodeStreams[n], res'[n]))
    BY <2>2, NodeSnapshotsFact
  <2>4. /\ names \in [NodeIDs -> [Streams -> [TypeURLs -> Seq(Names)]]]
        /\ res \in [NodeIDs -> [Streams -> [TypeURLs -> SUBSET Resource]]]
        /\ version \in [NodeIDs -> [Families -> Nat]]
        /\ nodeSnap \in [NodeIDs -> [Families -> Snapshot]]
        /\ nodeStreams \in [NodeIDs -> SUBSET Streams]
        /\ pc \in [Streams -> {"closed", "open", "waiting", "added", "updating", "failed", "closing"}]
        /\ req \in [Streams -> Request]
    BY DEF IInv, TypeOK
  <2>4a. /\ names'[n][st][t] = req[st].names
         /\ \A m \in NodeIDs, q \in Streams, u \in TypeURLs :
              m # n \/ q # st \/ u # t => names'[m][q][u] = names[m][q][u]
         /\ \A m \in NodeIDs, q \in Streams : m # n \/ q # st => names'[m][q] = names[m][q]
    <3>1. names \in [NodeIDs -> [Streams -> [TypeURLs -> Seq(Names)]]] /\ n \in NodeIDs /\ t \in TypeURLs
      BY <1>2, <1>3, <2>4
    <3>2. names' = [names EXCEPT ![n][st][t] = req[st].names]
      BY <2>1
    <3>. HIDE DEF n, t
    <3>. QED  BY <3>1, <3>2, SMTT(30)
  <2>4b. /\ res'[n][st][t] = StreamResources(t, req[st].names)
         /\ \A m \in NodeIDs, q \in Streams, u \in TypeURLs :
              m # n \/ q # st \/ u # t => res'[m][q][u] = res[m][q][u]
         /\ \A m \in NodeIDs, q \in Streams : m # n \/ q # st => res'[m][q] = res[m][q]
    <3>1. res \in [NodeIDs -> [Streams -> [TypeURLs -> SUBSET Resource]]] /\ n \in NodeIDs /\ t \in TypeURLs
      BY <1>2, <1>3, <2>4
    <3>2. res' = [res EXCEPT ![n][st][t] = StreamResources(t, req[st].names)]
      BY <2>1
    <3>. HIDE DEF n, t
    <3>. QED  BY <3>1, <3>2, SMTT(30)
  <2>4c. pc'[st] = "open" /\ \A q \in Streams \ {st} : pc'[q] = pc[q] /\ req'[q] = req[q]
    <3>1. pc' = [pc EXCEPT ![st] = "open"] /\ req' = [req EXCEPT ![st] = NoRequest]
      BY <1>1, <2>1
    <3>. QED  BY <2>4, <3>1
  <2>5. NothingLeaks'
    <3>1. \A m \in NodeIDs \ nodes : nodeSnap'[m] = nodeSnap[m]
      BY <1>6, <2>2, <2>4
    <3>2. \A q \in Streams : pc[q] # "closed" => pc'[q] # "closed"
      BY <2>4, <2>4c
    <3>3. UNCHANGED <<nodes, nodeStreams, clientNode>>
      BY <1>1
    <3>. QED  BY <2>4, <3>1, <3>2, <3>3, SMTT(30) DEF IInv, NothingLeaks
  <2>6. AskedIsKept'
    <3>1. asked[st][t] = req[st].names
      BY <1>1, <1>2, <1>3 DEF IInv, AskedIsKept
    <3>2. \A u \in TypeURLs \ {t} : Range(asked[st][u]) \subseteq Range(names[n][st][u])
      BY <1>1, <1>3 DEF IInv, AskedIsKept
    <3>. SUFFICES ASSUME NEW q \in Streams,
                         clientNode[q] # EmptyNodeID, pc'[q] \in {"open", "waiting", "added", "updating"}
                  PROVE  /\ q \in nodeStreams[clientNode[q]]
                         /\ \A u \in TypeURLs :
                              IF pc'[q] \in {"added", "updating"} /\ req'[q].type = u
                              THEN asked[q][u] = req'[q].names
                              ELSE Range(asked[q][u]) \subseteq Range(names'[clientNode[q]][q][u])
      BY <1>1 DEF AskedIsKept
    <3>5. CASE q = st
      <4>1. pc'[q] = "open"
        BY <2>4c, <3>5
      <4>2. asked[st][t] = names'[n][st][t]
        BY <2>4a, <3>1
      <4>3. \A u \in TypeURLs \ {t} : names'[n][st][u] = names[n][st][u]
        BY <1>3, <2>4a
      <4>4. \A u \in TypeURLs : Range(asked[st][u]) \subseteq Range(names'[n][st][u])
        BY <3>2, <4>2, <4>3
      <4>. QED  BY <1>6, <3>5, <4>1, <4>4
    <3>6. CASE q # st
      <4>1. pc'[q] = pc[q] /\ req'[q] = req[q] /\ clientNode[q] \in NodeIDs
        <5>1. clientNode[q] \in NodeIDs \cup {EmptyNodeID}
          BY DEF IInv, TypeOK
        <5>. QED  BY <2>4c, <3>6, <5>1
      <4>2. \A u \in TypeURLs : names'[clientNode[q]][q][u] = names[clientNode[q]][q][u]
        BY <2>4a, <3>6, <4>1
      <4>. QED  BY <4>1, <4>2 DEF IInv, AskedIsKept
    <3>. QED  BY <3>5, <3>6
  <2>7. AbsentIsEmpty'
    <3>. SUFFICES ASSUME NEW m \in NodeIDs, NEW q \in Streams \ nodeStreams[m]
                  PROVE  names'[m][q] = NoNames /\ res'[m][q] = NoResources
      BY <1>1 DEF AbsentIsEmpty
    <3>1. names'[m][q] = names[m][q] /\ res'[m][q] = res[m][q]
      BY <1>6, <2>4a, <2>4b
    <3>. QED  BY <3>1 DEF IInv, AbsentIsEmpty
  <2>8. SnapshotIsAggregate'
    <3>. SUFFICES ASSUME NEW m \in NodeIDs, NEW g \in Families
                  PROVE  nodeSnap'[m][g].resources \in
                           NewSnapshotResources(aggregateNodeResources(g, nodeStreams[m], res'[m]))
      BY <1>1 DEF SnapshotIsAggregate
    <3>1. CASE m = n /\ g = f
      BY <1>2, <1>3, <2>2, <2>3, <2>4, <3>1
    <3>2. CASE m # n \/ g # f
      <4>1. nodeSnap'[m][g] = nodeSnap[m][g]
        BY <1>2, <1>3, <2>2, <2>4, <3>2
      <4>2. \A q \in nodeStreams[m], u \in TypesOf(g) : res'[m][q][u] = res[m][q][u]
        <5>. SUFFICES ASSUME NEW q \in nodeStreams[m], NEW u \in TypesOf(g)
                      PROVE  res'[m][q][u] = res[m][q][u]
          OBVIOUS
        <5>1. q \in Streams /\ u \in TypeURLs /\ (m # n \/ u # t)
          BY <2>4, <3>2 DEF TypesOf
        <5>. QED  BY <2>4b, <5>1
      <4>3. aggregateNodeResources(g, nodeStreams[m], res'[m])
              = aggregateNodeResources(g, nodeStreams[m], res[m])
        BY <4>2, SMTT(30) DEF aggregateNodeResources
      <4>. QED  BY <4>1, <4>3 DEF IInv, SnapshotIsAggregate
    <3>. QED  BY <3>1, <3>2
  <2>9. CopiesAreFresh'
    <3>. SUFFICES ASSUME NEW m \in NodeIDs, NEW u \in TypeURLs, NEW q \in nodeStreams[m],
                         Settled(mapTypeURL(u))
                  PROVE  res'[m][q][u] = StreamResources(u, names[m][q][u])'
      BY <1>1 DEF CopiesAreFresh, Settled
    <3>1. StreamResources(u, names[m][q][u])' = StreamResources(u, names'[m][q][u])
      BY <1>1 DEF StreamResources, getResourcesFromCache
    <3>2. q \in Streams
      BY <2>4
    <3>3. CASE m = n /\ q = st /\ u = t
      BY <2>4a, <2>4b, <3>1, <3>3
    <3>4. CASE ~(m = n /\ q = st /\ u = t)
      <4>1. res'[m][q][u] = res[m][q][u] /\ names'[m][q][u] = names[m][q][u]
        BY <2>4a, <2>4b, <3>2, <3>4
      <4>. QED  BY <3>1, <4>1 DEF IInv, CopiesAreFresh
    <3>. QED  BY <3>3, <3>4
  <2>10. VersionIsCounter'
    <3>1. n \in NodeIDs /\ f \in Families
      BY <1>2, <1>3
    <3>2. version' = [version EXCEPT ![n][f] = @ + 1]
      BY <2>1
    <3>3. VersionIsCounter
      BY DEF IInv
    <3>. HIDE DEF n, f
    <3>. QED  BY <2>2, <2>3, <2>4, <3>1, <3>2, <3>3 DEF VersionIsCounter
  <2>. QED  BY <1>4, <2>5, <2>6, <2>7, <2>8, <2>9, <2>10 DEF StreamInv, SnapInv
<1>. QED  BY <1>5, <1>6

(***************************************************************************)
(* A closed stream takes its entry with it; the last one takes the node    *)
(* and its snapshots, and otherwise both snapshots are made again.         *)
(***************************************************************************)
LEMMA DeleteNodeStreamInv ==
  ASSUME IInv, NEW st \in Streams, DeleteNodeStream(st)
  PROVE  StreamInv' /\ SnapInv'
<1>. DEFINE n == clientNode[st]
            left == nodeStreams[n] \ {st}
<1>1. /\ pc[st] = "closing" /\ pc' = [pc EXCEPT ![st] = "closed"]
      /\ clientNode' = [clientNode EXCEPT ![st] = EmptyNodeID]
      /\ asked' = [asked EXCEPT ![st] = NoNames]
      /\ UNCHANGED <<full, delta, snap, streams, req>>
  BY DEF DeleteNodeStream, cacheVars
<1>2. /\ names \in [NodeIDs -> [Streams -> [TypeURLs -> Seq(Names)]]]
      /\ res \in [NodeIDs -> [Streams -> [TypeURLs -> SUBSET Resource]]]
      /\ version \in [NodeIDs -> [Families -> Nat]]
      /\ nodeSnap \in [NodeIDs -> [Families -> Snapshot]]
      /\ nodeStreams \in [NodeIDs -> SUBSET Streams]
      /\ nodes \subseteq NodeIDs
  BY DEF IInv, TypeOK
<1>3. ClosedIsBlank'
  BY <1>1 DEF IInv, TypeOK, ClosedIsBlank
<1>4. CASE n \notin nodes
  <2>1. UNCHANGED <<nodeVars, full, snap>>
    BY <1>1, <1>4 DEF DeleteNodeStream
  <2>2. SnapInv'
    BY <2>1, SnapInvUnchanged, IInvParts
  <2>3. \A m \in NodeIDs : st \notin nodeStreams[m]
    BY <1>4 DEF IInv, NothingLeaks
  <2>4. NothingLeaks'
    BY <1>1, <1>2, <2>1, <2>3, SMTT(30) DEF IInv, TypeOK, NothingLeaks, nodeVars
  <2>5. AskedIsKept'
    BY <1>1, <2>1 DEF IInv, TypeOK, AskedIsKept, nodeVars
  <2>. QED  BY <1>3, <2>2, <2>4, <2>5 DEF StreamInv
<1>5. CASE n \in nodes
  <2>1. /\ nodeStreams' = [nodeStreams EXCEPT ![n] = left]
        /\ names' = [names EXCEPT ![n][st] = NoNames]
        /\ res' = [res EXCEPT ![n][st] = NoResources]
        /\ IF left = {} THEN DeleteNode(n) ELSE SnapshotNode(n, left)
    BY <1>5 DEF DeleteNodeStream
  <2>2. n \in NodeIDs
    BY <1>2, <1>5
  <2>3. \A m \in NodeIDs \ {n} :
          /\ nodeStreams'[m] = nodeStreams[m] /\ names'[m] = names[m] /\ res'[m] = res[m]
          /\ nodeSnap'[m] = nodeSnap[m] /\ version'[m] = version[m]
          /\ m \in nodes' <=> m \in nodes
    <3>1. CASE left = {}
      BY <1>2, <2>1, <2>2, <3>1 DEF DeleteNode
    <3>2. CASE left # {}
      <4>1. /\ nodes' = nodes
            /\ version' = [version EXCEPT ![n] = [f \in Families |-> @[f] + 1]]
        BY <2>1, <3>2 DEF SnapshotNode
      <4>2. PICK x : nodeSnap' = [nodeSnap EXCEPT ![n] = x]
        BY <2>1, <3>2 DEF SnapshotNode
      <4>. QED  BY <1>2, <2>1, <2>2, <4>1, <4>2
    <3>. QED  BY <3>1, <3>2
  <2>4. nodeStreams'[n] = left
    BY <1>2, <2>1, <2>2
  <2>5. \A q \in Streams \ {st} : names'[n][q] = names[n][q] /\ res'[n][q] = res[n][q]
    BY <1>2, <2>1, <2>2
  <2>6. names'[n][st] = NoNames /\ res'[n][st] = NoResources
    BY <1>2, <2>1, <2>2
  <2>7. \A m \in NodeIDs : st \notin nodeStreams'[m]
    BY <2>3, <2>4 DEF IInv, NothingLeaks
  <2>7a. \A m \in NodeIDs : \A q \in nodeStreams'[m] :
           /\ q # st /\ q \in nodeStreams[m] /\ q \in Streams
           /\ res'[m][q] = res[m][q] /\ names'[m][q] = names[m][q]
    <3>. SUFFICES ASSUME NEW m \in NodeIDs, NEW q \in nodeStreams'[m]
                  PROVE  /\ q # st /\ q \in nodeStreams[m] /\ q \in Streams
                         /\ res'[m][q] = res[m][q] /\ names'[m][q] = names[m][q]
      OBVIOUS
    <3>1. q # st /\ q \in nodeStreams[m]
      BY <2>3, <2>4, <2>7
    <3>2. q \in Streams
      BY <1>2, <3>1
    <3>. QED  BY <2>3, <2>5, <3>1, <3>2
  <2>8. \A f \in Families :
          /\ nodeSnap'[n][f].version = version'[n][f]
          /\ nodeSnap'[n][f].resources \in
               NewSnapshotResources(aggregateNodeResources(f, left, res[n]))
          /\ left = {} => nodeSnap'[n][f] = NoSnapshot
    <3>. SUFFICES ASSUME NEW f \in Families
                  PROVE  /\ nodeSnap'[n][f].version = version'[n][f]
                         /\ nodeSnap'[n][f].resources \in
                              NewSnapshotResources(aggregateNodeResources(f, left, res[n]))
                         /\ left = {} => nodeSnap'[n][f] = NoSnapshot
      OBVIOUS
    <3>1. CASE left = {}
      <4>1. nodeSnap'[n][f] = NoSnapshot /\ version'[n][f] = 0
        BY <1>2, <2>1, <2>2, <3>1, SMTT(30) DEF DeleteNode
      <4>2. aggregateNodeResources(f, {}, res[n]) = {}
        BY SMTT(30) DEF aggregateNodeResources
      <4>3. {} \in NewSnapshotResources({})
        BY NewSnapshotResourcesUnique DEF UniqueNames
      <4>4. NoSnapshot.version = 0 /\ NoSnapshot.resources = {}
        BY DEF NoSnapshot
      <4>. QED  BY <3>1, <4>1, <4>2, <4>3, <4>4
    <3>2. CASE left # {}
      <4>1. SnapshotNode(n, left)
        BY <2>1, <3>2
      <4>2. PICK s \in NodeSnapshots(n, "services", left, res[n]),
                 e \in NodeSnapshots(n, "endpoints", left, res[n]) :
              nodeSnap' = [nodeSnap EXCEPT ![n] = [services |-> s, endpoints |-> e]]
        BY <4>1 DEF SnapshotNode
      <4>3. version'[n][f] = version[n][f] + 1
        BY <1>2, <2>2, <4>1 DEF SnapshotNode
      <4>4. nodeSnap'[n][f] \in NodeSnapshots(n, f, left, res[n])
        BY <1>2, <2>2, <4>2, SMTT(30) DEF Families
      <4>5. /\ nodeSnap'[n][f].version = version[n][f] + 1
            /\ nodeSnap'[n][f].resources \in
                 NewSnapshotResources(aggregateNodeResources(f, left, res[n]))
        BY <4>4, NodeSnapshotsFact
      <4>. QED  BY <3>2, <4>3, <4>5
    <3>. QED  BY <3>1, <3>2
  <2>9. NothingLeaks'
    <3>1. \A m \in NodeIDs : \A q \in nodeStreams'[m] : pc'[q] # "closed" /\ clientNode'[q] = m
      <4>. SUFFICES ASSUME NEW m \in NodeIDs, NEW q \in nodeStreams'[m]
                    PROVE  pc'[q] # "closed" /\ clientNode'[q] = m
        OBVIOUS
      <4>1. q # st /\ q \in nodeStreams[m] /\ q \in Streams
        BY <2>7a
      <4>2. pc'[q] = pc[q] /\ clientNode'[q] = clientNode[q]
        BY <1>1, <4>1 DEF IInv, TypeOK
      <4>. QED  BY <4>1, <4>2 DEF IInv, NothingLeaks
    <3>2. n \in nodes' <=> left # {}
      BY <1>5, <2>1 DEF DeleteNode, SnapshotNode
    <3>3. nodes' \subseteq NodeIDs
      BY <1>2, <2>1 DEF DeleteNode, SnapshotNode
    <3>4. nodes' = {m \in NodeIDs : nodeStreams'[m] # {}}
      <4>1. nodes = {m \in NodeIDs : nodeStreams[m] # {}}
        BY DEF IInv, NothingLeaks
      <4>. HIDE DEF n, left
      <4>. QED  BY <2>2, <2>3, <2>4, <3>2, <3>3, <4>1
    <3>5. \A m \in NodeIDs \ nodes' : \A f \in Families : nodeSnap'[m][f] = NoSnapshot
      BY <2>3, <2>8, <3>2, SMTT(30) DEF IInv, NothingLeaks
    <3>. QED  BY <3>1, <3>4, <3>5 DEF NothingLeaks
  <2>10. AskedIsKept'
    <3>. SUFFICES ASSUME NEW q \in Streams,
                         clientNode'[q] # EmptyNodeID, pc'[q] \in {"open", "waiting", "added", "updating"}
                  PROVE  /\ q \in nodeStreams'[clientNode'[q]]
                         /\ \A u \in TypeURLs :
                              IF pc'[q] \in {"added", "updating"} /\ req'[q].type = u
                              THEN asked'[q][u] = req'[q].names
                              ELSE Range(asked'[q][u]) \subseteq Range(names'[clientNode'[q]][q][u])
      BY DEF AskedIsKept
    <3>1. q # st
      BY <1>1 DEF IInv, TypeOK
    <3>2. /\ pc'[q] = pc[q] /\ clientNode'[q] = clientNode[q] /\ asked'[q] = asked[q]
          /\ req' = req /\ clientNode[q] \in NodeIDs
      BY <1>1, <3>1 DEF IInv, TypeOK
    <3>3. names'[clientNode[q]][q] = names[clientNode[q]][q]
      BY <2>3, <2>5, <3>1, <3>2
    <3>4. q \in nodeStreams[clientNode[q]] => q \in nodeStreams'[clientNode[q]]
      BY <2>3, <2>4, <3>1, <3>2
    <3>. QED  BY <3>2, <3>3, <3>4 DEF IInv, AskedIsKept
  <2>11. AbsentIsEmpty'
    <3>. SUFFICES ASSUME NEW m \in NodeIDs, NEW q \in Streams \ nodeStreams'[m]
                  PROVE  names'[m][q] = NoNames /\ res'[m][q] = NoResources
      BY DEF AbsentIsEmpty
    <3>1. CASE m # n
      <4>1. q \in Streams \ nodeStreams[m] /\ names'[m] = names[m] /\ res'[m] = res[m]
        BY <2>3, <3>1
      <4>. QED  BY <4>1 DEF IInv, AbsentIsEmpty
    <3>2. CASE m = n /\ q # st
      BY <2>4, <2>5, <3>2 DEF IInv, AbsentIsEmpty
    <3>3. CASE m = n /\ q = st
      BY <2>6, <3>3
    <3>. QED  BY <3>1, <3>2, <3>3
  <2>12. SnapshotIsAggregate'
    <3>. SUFFICES ASSUME NEW m \in NodeIDs, NEW f \in Families
                  PROVE  nodeSnap'[m][f].resources \in
                           NewSnapshotResources(aggregateNodeResources(f, nodeStreams'[m], res'[m]))
      BY DEF SnapshotIsAggregate
    <3>1. CASE m # n
      BY <2>3, <3>1 DEF IInv, SnapshotIsAggregate
    <3>2. CASE m = n
      <4>1. \A q \in left : res'[n][q] = res[n][q]
        BY <1>2, <2>2, <2>5
      <4>2. aggregateNodeResources(f, left, res'[n]) = aggregateNodeResources(f, left, res[n])
        BY <4>1, SMTT(30) DEF aggregateNodeResources
      <4>. QED  BY <2>4, <2>8, <3>2, <4>2
    <3>. QED  BY <3>1, <3>2
  <2>13. CopiesAreFresh'
    <3>. SUFFICES ASSUME NEW m \in NodeIDs, NEW u \in TypeURLs, NEW q \in nodeStreams'[m],
                         Settled(mapTypeURL(u))
                  PROVE  res'[m][q][u] = StreamResources(u, names[m][q][u])'
      BY <1>1 DEF CopiesAreFresh, Settled
    <3>1. StreamResources(u, names[m][q][u])' = StreamResources(u, names'[m][q][u])
      BY <1>1 DEF StreamResources, getResourcesFromCache
    <3>2. /\ q \in nodeStreams[m]
          /\ res'[m][q] = res[m][q] /\ names'[m][q] = names[m][q]
      BY <2>7a
    <3>. QED  BY <3>1, <3>2 DEF IInv, CopiesAreFresh
  <2>14. VersionIsCounter'
    <3>. SUFFICES ASSUME NEW m \in NodeIDs, NEW f \in Families
                  PROVE  nodeSnap'[m][f].version = version'[m][f]
      BY DEF VersionIsCounter
    <3>1. CASE m # n
      BY <2>3, <3>1 DEF IInv, VersionIsCounter
    <3>2. CASE m = n
      BY <2>8, <3>2
    <3>. QED  BY <3>1, <3>2
  <2>. QED  BY <1>3, <2>9, <2>10, <2>11, <2>12, <2>13, <2>14 DEF StreamInv, SnapInv
<1>. QED  BY <1>4, <1>5

-----------------------------------------------------------------------------
(* The invariant *)

(* Every step keeps the invariant. *)
LEMMA NextInv == IInv /\ [Next]_vars => IInv'
<1>. SUFFICES ASSUME IInv, [Next]_vars  PROVE IInv'
  OBVIOUS
<1>1. TypeInv'
  BY NextType, IInvParts
<1>2. CASE Publish
  <2>1. StreamInv' /\ SnapInv'
    BY <1>2, SetFullSnapshotInv, SyncLinearCachesInv, RefreshNodesInv DEF Publish
  <2>. QED  BY <1>1, <2>1 DEF IInv, TypeInv, StreamInv, SnapInv
<1>3. ASSUME NEW st \in Streams, StreamStep(st)  PROVE IInv'
  <2>1. StreamInv' /\ SnapInv'
    BY <1>3, OnStreamOpenInv, OnStreamRequestInv, RejectRequestInv, AddOrUpdateNodeInv,
       NeedToUpdateSnapshotInv, UpdateStreamNodeResourcesInv,
       OnStreamClosedInv, DeleteNodeStreamInv DEF StreamStep, LeaveWait
  <2>. QED  BY <1>1, <2>1 DEF IInv, TypeInv, StreamInv, SnapInv
<1>4. CASE UNCHANGED vars
  <2>1. StreamInv'
    BY <1>4, StreamInvUnchanged, IInvParts DEF vars, nodeVars
  <2>2. SnapInv'
    BY <1>4, SnapInvUnchanged, IInvParts DEF vars, cacheVars
  <2>. QED  BY <1>1, <2>1, <2>2 DEF IInv, TypeInv, StreamInv, SnapInv
<1>. QED  BY <1>2, <1>3, <1>4 DEF Next

(* IInv holds in every state of the snapshotter. *)
THEOREM Invariance == Spec => []IInv
<1>1. Init => IInv
  BY InitType, InitInv DEF IInv, TypeInv, StreamInv, SnapInv
<1>. QED  BY <1>1, NextInv, PTL DEF Spec

=============================================================================
