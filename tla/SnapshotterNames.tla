-------------------------- MODULE SnapshotterNames --------------------------
(*****************************************************************************)
(* What Snapshotter keeps and serves for clients that do not repeat a name   *)
(* in a request, for any sets of nodes, streams, keys and contents, any such *)
(* requests and any bounds.                                                  *)
(*****************************************************************************)
EXTENDS SnapshotterInvariant, SnapshotterProperties, FiniteSetTheorems

(* Most leaves are first-order; those with arithmetic or nested EXCEPT cite SMT. *)
USE ZenonT(30), SMTT(30)

-----------------------------------------------------------------------------
(* Clients that do not repeat a name *)

(* No list of resource_names has a name twice *)
DistinctNames == \A ns \in RequestNames : IsInjective(ns)

(***************************************************************************)
(* resourcesMatch is right about requests that do not repeat a name: as    *)
(* many names as are kept, each of them kept, are the names that are kept. *)
(***************************************************************************)
LEMMA MatchFact ==
  ASSUME NEW a \in Seq(Names), NEW b \in Seq(Names), IsInjective(b), resourcesMatch(a, b)
  PROVE  Range(a) = Range(b)
<1>. DEFINE n == Len(a)
<1>1. n \in Nat /\ n = Len(b) /\ DOMAIN a = 1..n /\ DOMAIN b = 1..n /\ Range(b) \subseteq Range(a)
  BY SMTT(30) DEF resourcesMatch
<1>. HIDE DEF n
<1>2. IsFiniteSet(1..n) /\ Cardinality(1..n) = n
  <2>1. 1 \in Int /\ n \in Int
    BY <1>1, SMTT(30)
  <2>2. IsFiniteSet(1..n) /\ Cardinality(1..n) = IF 1 > n THEN 0 ELSE n - 1 + 1
    BY <2>1, FS_Interval
  <2>. QED  BY <1>1, <2>2, SMTT(30)
<1>3. a \in Surjection(1..n, Range(a))
  BY <1>1, SMTT(30) DEF Surjection, Range
<1>4. b \in Surjection(1..n, Range(b)) /\ b \in Injection(1..n, Range(b))
  BY <1>1, SMTT(30) DEF Surjection, Injection, IsInjective, Range
<1>5. IsFiniteSet(Range(a)) /\ Cardinality(Range(a)) <= n
  BY <1>2, <1>3, FS_Surjection, SMTT(30)
<1>6. Cardinality(Range(b)) = n
  BY <1>2, <1>4, FS_Surjection
<1>7. /\ Cardinality(Range(b)) <= Cardinality(Range(a))
      /\ Cardinality(Range(a)) = Cardinality(Range(b)) => Range(a) = Range(b)
  BY <1>1, <1>5, FS_Subset
<1>8. Cardinality(Range(a)) \in Nat
  BY <1>5, FS_CardinalityType
<1>. QED  BY <1>1, <1>5, <1>6, <1>7, <1>8, SMTT(30)

(***************************************************************************)
(* What is asked by a stream and what is kept for it: the request that is  *)
(* being handled is one that a client sent, and the names of every other   *)
(* type are the names asked for.                                           *)
(***************************************************************************)
KeptFor(st) ==
  LET handling == pc[st] \in {"added", "updating"}
  IN  /\ handling => req[st].names \in RequestNames
      /\ clientNode[st] # EmptyNodeID /\ (handling \/ pc[st] \in {"open", "waiting"}) =>
           \A t \in TypeURLs : ~(handling /\ req[st].type = t) =>
             Range(asked[st][t]) = Range(names[clientNode[st]][st][t])

(* A copy has one of the names that are kept, fresh or not *)
CopiesAreNamed ==
  \A n \in NodeIDs, st \in Streams, t \in TypeURLs : \A r \in res[n][st][t] :
    r.type = t /\ r.name \in Range(names[n][st][t])

NamesInv == (\A st \in Streams : KeptFor(st)) /\ CopiesAreNamed

(* The step of a stream leaves what is kept for the others alone. *)
LEMMA OthersAreKept ==
  ASSUME IInv, NEW q \in Streams, KeptFor(q),
         pc'[q] = pc[q], clientNode'[q] = clientNode[q], req'[q] = req[q], asked'[q] = asked[q],
         \A m \in NodeIDs : names'[m][q] = names[m][q]
  PROVE  KeptFor(q)'
<1>1. clientNode[q] # EmptyNodeID => clientNode[q] \in NodeIDs
  BY DEF IInv, TypeOK
<1>. QED  BY <1>1 DEF KeptFor

(* A copy that is made under some names has one of them. *)
LEMMA StreamResourcesNamed ==
  ASSUME NEW t, NEW ns, NEW r \in StreamResources(t, ns)
  PROVE  r.type = t /\ r.name \in Range(ns)
BY SMTT(30) DEF StreamResources, makeDummyResources, getResourcesFromCache

(* A publication renews the copies of the entries under the names that they already have. *)
LEMMA PublishNames ==
  ASSUME IInv, NamesInv, Publish  PROVE NamesInv'
<1>1. UNCHANGED <<names, pc, clientNode, req, asked>>
  BY DEF Publish, SetFullSnapshot, SyncLinearCaches, RefreshNodes, nodeVars, streamVars
<1>2. CASE UNCHANGED res
  BY <1>1, <1>2, OthersAreKept, SMTT(30) DEF NamesInv, CopiesAreNamed
<1>3. CASE RefreshNodes
  <2>1. res' = Fresh
    BY <1>3 DEF RefreshNodes, Fresh
  <2>2. ASSUME NEW n \in NodeIDs, NEW st \in Streams, NEW t \in TypeURLs
        PROVE  res'[n][st][t] \in {StreamResources(t, names[n][st][t]), res[n][st][t]}
    BY <2>1 DEF Fresh
  <2>3. CopiesAreNamed'
    BY <1>1, <2>2, StreamResourcesNamed, SMTT(30) DEF NamesInv, CopiesAreNamed
  <2>. QED  BY <1>1, <2>3, OthersAreKept DEF NamesInv
<1>. QED  BY <1>2, <1>3 DEF Publish, SetFullSnapshot, SyncLinearCaches, nodeVars

(* A stream that is opened, closed or turned down has no names to compare. *)
LEMMA EasyStepNames ==
  ASSUME IInv, NamesInv, NEW st \in Streams,
         \/ OnStreamOpen(st) \/ OnStreamClosed(st)
         \/ \E n \in NodeIDs \cup {EmptyNodeID} : RejectRequest(st, n)
  PROVE  NamesInv'
<1>1. UNCHANGED <<names, res, req, asked>>
  BY DEF OnStreamOpen, OnStreamClosed, RejectRequest, nodeVars
<1>2. \A q \in Streams \ {st} : pc'[q] = pc[q] /\ clientNode'[q] = clientNode[q]
  BY DEF OnStreamOpen, OnStreamClosed, RejectRequest, IInv, TypeOK
<1>3. \/ pc'[st] \in {"closing", "failed"}
      \/ pc'[st] = "open" /\ clientNode'[st] = EmptyNodeID
  BY DEF OnStreamOpen, OnStreamClosed, RejectRequest, IInv, TypeOK, ClosedIsBlank
<1>4. KeptFor(st)'
  BY <1>3 DEF KeptFor
<1>. QED  BY <1>1, <1>2, <1>4, OthersAreKept, SMTT(30) DEF NamesInv, CopiesAreNamed

(* A request that waits, or comes without a node id, changes no names. *)
LEMMA OnStreamRequestNames ==
  ASSUME IInv, NamesInv, NEW st \in Streams, OnStreamRequest(st) \/ LegacyRequest(st)
  PROVE  NamesInv'
<1>1. UNCHANGED <<names, res, clientNode, req, asked>>
  BY DEF OnStreamRequest, LegacyRequest, nodeVars
<1>2. /\ pc[st] \in {"open", "waiting"} /\ pc'[st] \in {"open", "waiting", "failed"}
      /\ \A q \in Streams \ {st} : pc'[q] = pc[q]
  BY DEF OnStreamRequest, LegacyRequest, IInv, TypeOK
<1>3. KeptFor(st)'
  BY <1>1, <1>2, SMTT(30) DEF NamesInv, KeptFor
<1>. QED  BY <1>1, <1>2, <1>3, OthersAreKept, SMTT(30) DEF NamesInv, CopiesAreNamed

(***************************************************************************)
(* The handler notes the request before its entry is made: the names that  *)
(* are kept are those of the request before, until the update.             *)
(***************************************************************************)
LEMMA AddOrUpdateNodeNames ==
  ASSUME IInv, NamesInv, NEW st \in Streams, NEW n \in NodeIDs, NEW t \in TypeURLs \cup OtherTypes,
         NEW ns \in RequestNames, AddOrUpdateNode(st, n, t, ns)
  PROVE  NamesInv'
<1>1. /\ pc[st] = "waiting" /\ pc' = [pc EXCEPT ![st] = "added"]
      /\ clientNode[st] \in {EmptyNodeID, n} /\ clientNode' = [clientNode EXCEPT ![st] = n]
      /\ req' = [req EXCEPT ![st] = [type |-> t, names |-> ns]]
      /\ asked' = IF t \in TypeURLs THEN [asked EXCEPT ![st][t] = ns] ELSE asked
      /\ UNCHANGED <<names, res>>
  BY DEF AddOrUpdateNode, MayCarry
<1>2. /\ pc'[st] = "added" /\ clientNode'[st] = n /\ req'[st].type = t /\ req'[st].names = ns
      /\ \A q \in Streams \ {st} : /\ pc'[q] = pc[q] /\ clientNode'[q] = clientNode[q]
                                   /\ req'[q] = req[q] /\ asked'[q] = asked[q]
      /\ \A u \in TypeURLs \ {t} : asked'[st][u] = asked[st][u]
  BY <1>1 DEF IInv, TypeOK
<1>3. ASSUME NEW u \in TypeURLs \ {t}  PROVE Range(asked[st][u]) = Range(names[n][st][u])
  <2>1. CASE clientNode[st] = n /\ n # EmptyNodeID
    BY <1>1, <2>1 DEF NamesInv, KeptFor
  <2>2. CASE clientNode[st] = EmptyNodeID
    <3>1. st \notin nodeStreams[n] /\ asked[st] = NoNames
      BY <2>2, ValuesAssumption DEF IInv, NothingLeaks, ClosedIsBlank
    <3>2. names[n][st] = NoNames
      BY <3>1 DEF IInv, AbsentIsEmpty
    <3>. QED  BY <3>1, <3>2
  <2>. QED  BY <1>1, <2>1, <2>2, ValuesAssumption
<1>4. KeptFor(st)'
  BY <1>1, <1>2, <1>3, SMTT(30) DEF KeptFor
<1>. QED  BY <1>1, <1>2, <1>4, OthersAreKept, SMTT(30) DEF NamesInv, CopiesAreNamed

(* needToUpdateSnapshot only goes on without an update when the names are the same. *)
LEMMA NeedToUpdateSnapshotNames ==
  ASSUME DistinctNames, IInv, NamesInv, NEW st \in Streams, NeedToUpdateSnapshot(st)
  PROVE  NamesInv'
<1>. DEFINE n == clientNode[st]
            t == req[st].type
<1>1. pc[st] = "added" /\ UNCHANGED <<names, res, clientNode, asked>>
  BY DEF NeedToUpdateSnapshot, nodeVars
<1>2. /\ n # EmptyNodeID /\ n \in NodeIDs /\ st \in nodeStreams[n] /\ n \in nodes
      /\ \A u \in TypeURLs : u = t => asked[st][u] = req[st].names
  <2>1. n # EmptyNodeID /\ n \in NodeIDs
    BY <1>1 DEF IInv, ClosedIsBlank, TypeOK
  <2>2. st \in nodeStreams[n] /\ \A u \in TypeURLs : u = t => asked[st][u] = req[st].names
    BY <1>1, <2>1 DEF IInv, AskedIsKept
  <2>. QED  BY <2>1, <2>2 DEF IInv, NothingLeaks
<1>3. \A q \in Streams \ {st} : pc'[q] = pc[q] /\ req'[q] = req[q]
  BY DEF NeedToUpdateSnapshot, IInv, TypeOK
<1>4. \/ pc'[st] = "updating" /\ req'[st] = req[st]
      \/ pc'[st] = "open" /\ (mapTypeURL(t) # NoType => resourcesMatch(names[n][st][t], req[st].names))
  BY <1>2 DEF NeedToUpdateSnapshot, IInv, TypeOK
<1>5. CASE pc'[st] = "updating" /\ req'[st] = req[st]
  <2>1. KeptFor(st)'
    BY <1>1, <1>5 DEF NamesInv, KeptFor
  <2>. QED  BY <1>1, <1>3, <2>1, OthersAreKept, SMTT(30) DEF NamesInv, CopiesAreNamed
<1>6. CASE pc'[st] = "open" /\ (mapTypeURL(t) # NoType => resourcesMatch(names[n][st][t], req[st].names))
  <2>1. ASSUME NEW u \in TypeURLs, u = t  PROVE Range(asked[st][u]) = Range(names[n][st][u])
    <3>1. mapTypeURL(t) # NoType
      BY <2>1, MapTypeURLFact DEF Families, NoType
    <3>2. req[st].names \in RequestNames
      BY <1>1 DEF NamesInv, KeptFor
    <3>3. names \in [NodeIDs -> [Streams -> [TypeURLs -> Seq(Names)]]]
      BY DEF IInv, TypeOK
    <3>4. names[n][st][t] \in Seq(Names) /\ req[st].names \in Seq(Names) /\ IsInjective(req[st].names)
      BY <1>2, <2>1, <3>2, <3>3, ValuesAssumption, SMTT(30) DEF DistinctNames
    <3>5. Range(names[n][st][t]) = Range(req[st].names)
      BY <1>6, <3>1, <3>4, MatchFact
    <3>. QED  BY <1>2, <2>1, <3>5
  <2>2. \A u \in TypeURLs : u # t => Range(asked[st][u]) = Range(names[n][st][u])
    BY <1>1, <1>2 DEF NamesInv, KeptFor
  <2>3. KeptFor(st)'
    BY <1>1, <1>6, <2>1, <2>2 DEF KeptFor
  <2>. QED  BY <1>1, <1>3, <2>3, OthersAreKept, SMTT(30) DEF NamesInv, CopiesAreNamed
<1>. QED  BY <1>4, <1>5, <1>6

(* An update keeps the names of the request, and copies under them. *)
LEMMA UpdateStreamNodeResourcesNames ==
  ASSUME IInv, NamesInv, NEW st \in Streams, UpdateStreamNodeResources(st)
  PROVE  NamesInv'
<1>. DEFINE n == clientNode[st]
            t == req[st].type
            copies == StreamResources(t, req[st].names)
<1>1. pc[st] = "updating" /\ UNCHANGED <<clientNode, asked>>
  BY DEF UpdateStreamNodeResources
<1>2. /\ n # EmptyNodeID /\ n \in NodeIDs /\ t \in TypeURLs
      /\ asked[st][t] = req[st].names
  <2>1. n # EmptyNodeID /\ t \in TypeURLs
    BY <1>1 DEF IInv, ClosedIsBlank, UpdatesAreTyped
  <2>2. n \in NodeIDs
    BY <2>1 DEF IInv, TypeOK
  <2>. QED  BY <1>1, <2>1, <2>2 DEF IInv, AskedIsKept
<1>3. \A q \in Streams \ {st} : pc'[q] = pc[q] /\ req'[q] = req[q]
  BY DEF UpdateStreamNodeResources, IInv, TypeOK
<1>4. \/ pc'[st] = "failed" /\ UNCHANGED <<names, res>>
      \/ /\ pc'[st] = "open"
         /\ names' = [names EXCEPT ![n][st][t] = req[st].names] /\ res' = [res EXCEPT ![n][st][t] = copies]
  BY DEF UpdateStreamNodeResources, IInv, TypeOK
<1>5. CASE pc'[st] = "failed" /\ UNCHANGED <<names, res>>
  <2>1. KeptFor(st)'
    BY <1>5 DEF KeptFor
  <2>. QED  BY <1>1, <1>3, <1>5, <2>1, OthersAreKept, SMTT(30) DEF NamesInv, CopiesAreNamed
<1>6. CASE /\ pc'[st] = "open"
           /\ names' = [names EXCEPT ![n][st][t] = req[st].names] /\ res' = [res EXCEPT ![n][st][t] = copies]
  <2>1. /\ names \in [NodeIDs -> [Streams -> [TypeURLs -> Seq(Names)]]]
        /\ res \in [NodeIDs -> [Streams -> [TypeURLs -> SUBSET Resource]]]
    BY DEF IInv, TypeOK
  <2>2. names'[n][st][t] = req[st].names /\ res'[n][st][t] = copies
    BY <1>2, <1>6, <2>1, SMTT(30)
  <2>3. ASSUME NEW m \in NodeIDs, NEW q \in Streams, NEW u \in TypeURLs, ~(m = n /\ q = st /\ u = t)
        PROVE  names'[m][q][u] = names[m][q][u] /\ res'[m][q][u] = res[m][q][u]
    BY <1>2, <1>6, <2>1, <2>3, SMTT(30)
  <2>4. \A m \in NodeIDs, q \in Streams \ {st} : names'[m][q] = names[m][q]
    BY <1>2, <1>6, <2>1
  <2>. HIDE DEF copies
  <2>5. CopiesAreNamed'
    <3>. SUFFICES ASSUME NEW m \in NodeIDs, NEW q \in Streams, NEW u \in TypeURLs, NEW r \in res'[m][q][u]
                  PROVE  r.type = u /\ r.name \in Range(names'[m][q][u])
      BY DEF CopiesAreNamed
    <3>1. CASE m = n /\ q = st /\ u = t
      BY <2>2, <3>1, StreamResourcesNamed, SMTT(30) DEF copies
    <3>2. CASE ~(m = n /\ q = st /\ u = t)
      BY <2>3, <3>2, SMTT(30) DEF NamesInv, CopiesAreNamed
    <3>. QED  BY <3>1, <3>2
  <2>6. \A u \in TypeURLs : Range(asked[st][u]) = Range(names'[n][st][u])
    <3>1. \A u \in TypeURLs \ {t} : Range(asked[st][u]) = Range(names[n][st][u])
      BY <1>1, <1>2 DEF NamesInv, KeptFor
    <3>2. \A u \in TypeURLs \ {t} : names'[n][st][u] = names[n][st][u]
      BY <1>2, <2>3
    <3>3. asked[st][t] = names'[n][st][t]
      BY <1>2, <2>2
    <3>. QED  BY <3>1, <3>2, <3>3
  <2>7. KeptFor(st)'
    BY <1>1, <1>6, <2>6 DEF KeptFor
  <2>. QED  BY <1>1, <1>3, <2>4, <2>5, <2>7, OthersAreKept DEF NamesInv
<1>. QED  BY <1>4, <1>5, <1>6

(* With the entry go its names and its copies. *)
LEMMA DeleteNodeStreamNames ==
  ASSUME IInv, NamesInv, NEW st \in Streams, DeleteNodeStream(st)
  PROVE  NamesInv'
<1>. DEFINE n == clientNode[st]
<1>1. /\ pc'[st] = "closed" /\ UNCHANGED req
      /\ \A q \in Streams \ {st} : pc'[q] = pc[q] /\ clientNode'[q] = clientNode[q] /\ asked'[q] = asked[q]
  BY DEF DeleteNodeStream, IInv, TypeOK
<1>2. KeptFor(st)'
  BY <1>1 DEF KeptFor
<1>3. \/ UNCHANGED <<names, res>>
      \/ /\ n \in NodeIDs
         /\ names' = [names EXCEPT ![n][st] = NoNames] /\ res' = [res EXCEPT ![n][st] = NoResources]
  <2>1. nodes \subseteq NodeIDs
    BY DEF IInv, TypeOK
  <2>. QED  BY <2>1 DEF DeleteNodeStream, nodeVars
<1>4. CASE UNCHANGED <<names, res>>
  <2>1. CopiesAreNamed'
    BY <1>4, SMTT(30) DEF NamesInv, CopiesAreNamed
  <2>. QED  BY <1>1, <1>2, <1>4, <2>1, OthersAreKept DEF NamesInv
<1>5. CASE /\ n \in NodeIDs
           /\ names' = [names EXCEPT ![n][st] = NoNames] /\ res' = [res EXCEPT ![n][st] = NoResources]
  <2>1. /\ names \in [NodeIDs -> [Streams -> [TypeURLs -> Seq(Names)]]]
        /\ res \in [NodeIDs -> [Streams -> [TypeURLs -> SUBSET Resource]]]
    BY DEF IInv, TypeOK
  <2>2. res'[n][st] = NoResources
    BY <1>5, <2>1
  <2>3. \A m \in NodeIDs, q \in Streams : ~(m = n /\ q = st) =>
          names'[m][q] = names[m][q] /\ res'[m][q] = res[m][q]
    BY <1>5, <2>1
  <2>4. CopiesAreNamed'
    <3>. SUFFICES ASSUME NEW m \in NodeIDs, NEW q \in Streams, NEW u \in TypeURLs, NEW r \in res'[m][q][u]
                  PROVE  r.type = u /\ r.name \in Range(names'[m][q][u])
      BY DEF CopiesAreNamed
    <3>1. ~(m = n /\ q = st)
      BY <2>2 DEF NoResources
    <3>. QED  BY <2>3, <3>1, SMTT(30) DEF NamesInv, CopiesAreNamed
  <2>. QED  BY <1>1, <1>2, <2>3, <2>4, OthersAreKept DEF NamesInv
<1>. QED  BY <1>3, <1>4, <1>5

(* For clients that do not repeat a name, every step keeps what is kept what was asked. *)
LEMMA NamesInvariance == DistinctNames => (Spec => []NamesInv)
<1>. SUFFICES ASSUME DistinctNames  PROVE Spec => []NamesInv
  OBVIOUS
<1>1. Init => NamesInv
  BY SMTT(30) DEF Init, NamesInv, KeptFor, CopiesAreNamed, NoResources
<1>2. IInv /\ NamesInv /\ [Next]_vars => NamesInv'
  <2>. SUFFICES ASSUME IInv, NamesInv, [Next]_vars  PROVE NamesInv'
    OBVIOUS
  <2>1. CASE UNCHANGED vars
    <3>1. UNCHANGED <<names, res, pc, clientNode, req, asked>>
      BY <2>1 DEF vars, nodeVars, streamVars
    <3>. QED  BY <3>1, OthersAreKept, SMTT(30) DEF NamesInv, CopiesAreNamed
  <2>2. ASSUME NEW st \in Streams, StreamStep(st)  PROVE NamesInv'
    BY <2>2, EasyStepNames, OnStreamRequestNames, AddOrUpdateNodeNames, NeedToUpdateSnapshotNames,
       UpdateStreamNodeResourcesNames, DeleteNodeStreamNames DEF StreamStep, LeaveWait
  <2>. QED  BY <2>1, <2>2, PublishNames DEF Next
<1>. QED  BY <1>1, <1>2, Invariance, PTL DEF Spec

(***************************************************************************)
(* needToUpdateSnapshot compares lists by length and inclusion; as long as *)
(* no client repeats a name in a request, it recognises every change: the  *)
(* names kept for a stream are, as a set, the ones it asked for.  Repeated *)
(* names are the only reason why KeepsTheSetAsked can fail.                *)
(***************************************************************************)
THEOREM KeepsTheSet == DistinctNames => (Spec => []KeepsTheSetAsked)
<1>. SUFFICES ASSUME DistinctNames  PROVE Spec => []KeepsTheSetAsked
  OBVIOUS
<1>1. NamesInv => KeepsTheSetAsked
  BY DEF NamesInv, KeptFor, KeepsTheSetAsked
<1>. QED  BY <1>1, NamesInvariance, PTL

(***************************************************************************)
(* For such clients a node is served nothing that none of its streams      *)
(* asked for, while publications and other streams interleave: nothing     *)
(* stays in its snapshot when a stream asks for other names or is closed.  *)
(***************************************************************************)
THEOREM NothingElse == DistinctNames => (Spec => []ServesNothingElse)
<1>. SUFFICES ASSUME DistinctNames  PROVE Spec => []ServesNothingElse
  OBVIOUS
<1>1. IInv /\ NamesInv => ServesNothingElse
  <2>. SUFFICES ASSUME IInv, NamesInv, NEW n \in NodeIDs, NEW f \in Families,
                       NEW r \in nodeSnap[n][f].resources
                PROVE  \E st \in nodeStreams[n] :
                         \/ r.name \in Range(asked[st][r.type])
                         \/ pc[st] \in {"added", "updating", "failed", "closing"}
    BY DEF ServesNothingElse
  <2>1. r \in aggregateNodeResources(f, nodeStreams[n], res[n])
    BY NewSnapshotResourcesSubset DEF IInv, SnapshotIsAggregate, NewSnapshotResources
  <2>2. PICK st \in nodeStreams[n], t \in TypesOf(f) : r \in res[n][st][t]
    BY <2>1, SMTT(30) DEF aggregateNodeResources
  <2>3. st \in Streams /\ t \in TypeURLs
    BY DEF IInv, TypeOK, TypesOf
  <2>4. r.type = t /\ r.name \in Range(names[n][st][t])
    BY <2>2, <2>3 DEF NamesInv, CopiesAreNamed
  <2>5. clientNode[st] = n /\ pc[st] # "closed" /\ n # EmptyNodeID
    BY ValuesAssumption DEF IInv, NothingLeaks
  <2>6. pc[st] \in {"open", "waiting"} => Range(asked[st][t]) = Range(names[n][st][t])
    BY <2>3, <2>5 DEF NamesInv, KeptFor
  <2>7. pc[st] \in {"open", "waiting", "added", "updating", "failed", "closing"}
    BY <2>3, <2>5 DEF IInv, TypeOK
  <2>. QED  BY <2>4, <2>6, <2>7
<1>. QED  BY <1>1, Invariance, NamesInvariance, PTL

=============================================================================
