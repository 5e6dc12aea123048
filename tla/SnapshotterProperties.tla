------------------------ MODULE SnapshotterProperties ------------------------
(* What the snapshotter promises to the streams and the nodes it serves *)
EXTENDS Snapshotter

(***************************************************************************)
(* Fairness.  A goroutine inside a handler or inside SnapServices or       *)
(* SnapEndpoints runs on: sync.Mutex hands the lock to a waiter within a   *)
(* bounded time, and waitForRequestLimit returns within a second.          *)
(* OnStreamClosed competes with readers of streamsMu that come and go,     *)
(* hence the strong fairness: a waiting Lock of a RWMutex keeps new        *)
(* readers out.  It is only assumed after an error, when the server ends   *)
(* the stream; nothing makes a client send or leave, and nothing makes the *)
(* controller publish.                                                     *)
(***************************************************************************)
Fairness ==
  /\ WF_vars(SyncLinearCaches)
  /\ WF_vars(RefreshNodes)
  /\ \A st \in Streams :
       /\ WF_vars(LeaveWait(st))
       /\ WF_vars(NeedToUpdateSnapshot(st))
       /\ WF_vars(UpdateStreamNodeResources(st))
       /\ SF_vars(pc[st] = "failed" /\ OnStreamClosed(st))
       /\ WF_vars(DeleteNodeStream(st))

FairSpec == Spec /\ Fairness

-----------------------------------------------------------------------------

(***************************************************************************)
(* The handler of a request gives nodesMu up twice.  Whatever the other    *)
(* streams of the node do meanwhile, closing included, the node and its    *)
(* entry for the stream are still there: the errors "Node not found" and   *)
(* "Stream not found" of snapshotter.go cannot happen.                     *)
(***************************************************************************)
EntrySurvivesHandler ==
  \A st \in Streams :
    pc[st] \in {"added", "updating"} =>
      /\ clientNode[st] \in nodes
      /\ st \in nodeStreams[clientNode[st]]

(***************************************************************************)
(* Unless a call of SnapServices or SnapEndpoints is on its way to the     *)
(* nodes, a stream whose requests have been handled finds in the snapshot  *)
(* of its node, under the names it last asked for, exactly the resources   *)
(* of the full snapshot: none missing, none out of date.                   *)
(***************************************************************************)
ServesWhatWasAsked ==
  \A st \in Streams, t \in TypeURLs :
    LET n == clientNode[st]
        f == mapTypeURL(t)
    IN  pc[st] \in {"open", "waiting"} /\ n # EmptyNodeID /\ Settled(f) =>
          {r \in nodeSnap[n][f].resources :
             r.type = t /\ r.name \in Range(asked[st][t])}
            = StreamResources(t, asked[st][t])

(***************************************************************************)
(* A node's snapshot holds nothing that none of its streams asked for: no  *)
(* resource stays behind when a stream changes its names or is closed.     *)
(***************************************************************************)
ServesNothingElse ==
  \A n \in NodeIDs, f \in Families : \A r \in nodeSnap[n][f].resources :
    \E st \in nodeStreams[n] :
      \/ r.name \in Range(asked[st][r.type])
      \/ pc[st] \in {"added", "updating", "failed", "closing"}

(***************************************************************************)
(* needToUpdateSnapshot recognises every change of the set of names: once  *)
(* a request is handled, the names kept for the stream are, as a set, the  *)
(* ones it asked for.                                                      *)
(***************************************************************************)
KeepsTheSetAsked ==
  \A st \in Streams, t \in TypeURLs :
    pc[st] \in {"open", "waiting"} /\ clientNode[st] # EmptyNodeID =>
      Range(names[clientNode[st]][st][t]) = Range(asked[st][t])

(***************************************************************************)
(* While a call is on its way to the nodes, a node may serve the new       *)
(* resources or the ones just replaced, but nothing older, and never two   *)
(* resources of one name.                                                  *)
(***************************************************************************)
AtMostOneBehind ==
  LocalhostEndpoints \/
  \A n \in NodeIDs, f \in Families :
    /\ nodeSnap[n][f].resources \subseteq
         full[f].resources \cup (IF Settled(f) THEN {} ELSE snap.prev)
    /\ UniqueNames(nodeSnap[n][f].resources)

(***************************************************************************)
(* Delta clients are served what the others are: between two calls the     *)
(* linear caches and the plain names of the full snapshot agree.           *)
(***************************************************************************)
DeltaAgrees ==
  \A f \in Families :
    ~(snap.phase = "set" /\ snap.family = f) =>
      ToResources(f, delta[f], {NoAuthority})
        = {r \in full[f].resources : r.name[2] = NoAuthority}

(* A step that changes a snapshot, other than to clear it, makes its version larger *)
VersionsGrow ==
  /\ \A n \in NodeIDs, f \in Families :
       \/ nodeSnap'[n][f] \in {nodeSnap[n][f], NoSnapshot}
       \/ nodeSnap'[n][f].version > nodeSnap[n][f].version
  /\ \A f \in Families :
       full'[f] = full[f] \/ full'[f].version > full[f].version

(***************************************************************************)
(* The snapshot of a node, or the full one, never changes under a version  *)
(* that clients may already have acknowledged: as long as it is not        *)
(* cleared, a change comes with a larger version.                          *)
(***************************************************************************)
NewContentNewVersion == [][VersionsGrow]_vars

(***************************************************************************)
(* After an error in OnStreamRequest the stream is removed from its node,  *)
(* however the readers of streamsMu interleave, those included that wait   *)
(* for a rate limiter with the lock in their hands.                        *)
(***************************************************************************)
FailedStreamIsForgotten ==
  \A st \in Streams :
    pc[st] = "failed" ~> \A n \in NodeIDs : st \notin nodeStreams[n]

(* What a node serves is, again and again, what the full snapshot says *)
UpToDate(f) ==
  \A n \in nodes : nodeSnap[n][f].resources =
    UNION {StreamResources(t, names[n][st][t]) :
             st \in nodeStreams[n], t \in TypesOf(f)}

(***************************************************************************)
(* Every published snapshot reaches every node: the nodes are never left   *)
(* behind the full snapshot forever (SnapServices, SnapEndpoints).         *)
(***************************************************************************)
NodesCatchUp == \A f \in Families : []<>UpToDate(f)

=============================================================================
