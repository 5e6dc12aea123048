-------------------------- MODULE SnapshotterCache --------------------------
(* The snapshotter as an implementation of SnapshotCache *)
EXTENDS SnapshotterProperties

SnapshotOf(n, f) == IF n = EmptyNodeID THEN full[f] ELSE nodeSnap[n][f]

VersionsOf ==
  [n \in NodeIDs \cup {EmptyNodeID} |-> [f \in Families |-> SnapshotOf(n, f).version]]
ContentsOf ==
  [n \in NodeIDs \cup {EmptyNodeID} |-> [f \in Families |-> SnapshotOf(n, f).resources]]

Cache == INSTANCE SnapshotCache WITH
  Resources <- Resource, Versions <- Nat, versions <- VersionsOf, contents <- ContentsOf

(***************************************************************************)
(* Every interleaving of handlers and publications looks, to a reader of   *)
(* the snapshot caches, like a sequence of the atomic steps of             *)
(* SnapshotCache: versions go up by one with every snapshot, restart only  *)
(* when the last stream of a node is gone, and nothing is cached for a     *)
(* node that NodesMap does not return.                                     *)
(***************************************************************************)
ImplementsCache == Cache!CacheSpec

=============================================================================
