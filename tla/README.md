# A verification of semaphore-xds

semaphore-xds watches Services, XdsServices and EndpointSlices of a local
Kubernetes cluster, and EndpointSlices of remote ones, and serves them to xDS
clients. This directory holds TLA+ models of the parts that are hard to test
(several goroutines and caches, callbacks of many streams, retries), TLC runs
that check them on small instances, and TLAPS proofs for all instances.

## The system

| Part | Source | Module | Covered |
|---|---|---|---|
| Snapshotter: full and per-node snapshots, stream callbacks | `xds/snapshotter.go`, `xds/utils.go`, `xds/dummy.go` | `Snapshotter`, `SnapshotterProperties`; `SnapshotCache`, `SnapshotterCache`; `SnapshotterTypes`, `SnapshotterInvariant`, `SnapshotterProofs`, `SnapshotterNames` | modelled, proved |
| Linear caches for delta xDS | `xds/snapshotter.go`, `xds/service.go` | `Snapshotter`, `Resources` | what is put in; delivery is go-control-plane's |
| Request rate limits | `xds/snapshotter.go` | `Snapshotter` | that requests wait and may be refused, not when |
| Metrics collector | `xds/snapshotter_metrics.go` | `Collector`, `ControllerProofs` | modelled, proved |
| Reconcile queue | `queue/queue.go` | `Queue`, `ReconcileSpec`, `QueueProofs` | modelled, proved |
| Controller: handlers, four workers | `controller/controller.go` | `Controller`, `ControllerProofs` | modelled, proved |
| Endpoints, priorities, clusters | `controller/controller.go`, `xds/endpoints.go` | `EndpointStore`, `Endpoints`, `StoreProofs` | modelled, proved |
| Translation of settings | `extract*`, `Parse*` | `Settings`, `ServiceStore`, `StoreProofs` | modelled, proved |
| Listeners, routes, clusters and their names | `xds/service.go`, `xds/endpoints.go` | `Resources`, `ServiceStore`, `StoreProofs` | modelled, proved |
| Watcher of labelled Services | `kube/service_watcher.go`, `kube/watcher_metrics.go` | `ServiceWatcher`, `StartupProofs` | modelled, proved |
| Clients, informer factories | `kube/client.go`, `pkg/generated/.../factory.go` | `Startup`, `Controller` | all but the making of a client (files, TLS) |
| Retry of remote watches | `backoff/` | `Backoff`, `Startup`, `StartupProofs` | modelled, proved |
| Start: `main`, `Run` | `main.go`, `config.go`, `controller/controller.go` | `Startup`, `StartupProofs` | all but flags, files, logging |
| Other metrics, generated clients, examples, manifests | `kube/client_metrics.go`, `pkg/generated`, `example/`, `deploy/` | | not modelled |

`MCSnapshotter`, `MCCollector`, `MCQueue`, `MCEndpoints`, `MCController`,
`MCServiceStore` and `MCStartup` give the constants values for TLC.

How they interact: an informer updates its cache and its handler adds a key to
one of four queues (labelled Services, XdsServices, local slices, remote
slices). The goroutine of a queue takes a key and reconciles, which mostly means
that it reads *all* caches and calls `SnapServices` and `SnapEndpoints`. Each of
these replaces the *full snapshot* of its family (kept under the empty node id)
and then, for every node, copies the resources under the names that the node's
streams have asked for into a *node snapshot*. A request of a stream changes the
names of that stream and makes its node's snapshot anew.

## The modules

### Snapshotter

One action is one critical section of `nodesMu` or `snapNodesMu`. The two copies
of the code for services and endpoints become one, indexed by the family.
`SnapshotterProperties` holds the fairness and what is said of the module, but for
the inductive invariant.

| State | Code |
|---|---|
| `streams` | `s.streams` |
| `nodes`, `nodeStreams` | the keys of `s.nodes`, and of `resources` of a node |
| `names`, `res` | `servicesNames`/`endpointsNames`, `services`/`endpoints` |
| `version`, `nodeSnap` | version counters of a node, its cached snapshots |
| `full`, `delta` | the snapshots of the empty node id, the linear caches |
| `snap` | the call that holds `snapNodesMu` |
| `pc`, `clientNode`, `req` | where the goroutine of a stream is, its node id, its request |
| `asked` | history: the names last asked for |

| Action | Code |
|---|---|
| `SetFullSnapshot`, `SyncLinearCaches`, `RefreshNodes` | the three parts of `SnapServices` and of `SnapEndpoints` |
| `OnStreamOpen`, `OnStreamClosed`, `DeleteNodeStream` | the same; `DeleteNodeStream` ends in `DeleteNode` or `SnapshotNode` |
| `OnStreamRequest` | the same up to `waitForRequestLimit`: the stream is unknown, or the request waits |
| `RejectRequest`, `LegacyRequest` | the end of the wait: a rate limit is exceeded, or the node id is empty |
| `AddOrUpdateNode`, `NeedToUpdateSnapshot`, `UpdateStreamNodeResources` | the three critical sections of `OnStreamRequest`, once it is admitted |

`streamsMu`, held for reading by a request from its start to its end, the waits for
the two rate limiters included, is the guard `StreamsReaders = {}` of opening and
closing. The two waits are one state (`"waiting"`). A resource is a type, a name (with
or without an authority) and a content. `NewSnapshot` of go-control-plane indexes
a list by name, and the list follows the order of a Go map: where copies of one
name differ, the model lets any of them win. A stream has one node id, as the
protocol prescribes. A closed stream may be opened again and then stands for a
new id, since nothing of the old one is left (which `NothingLeaks` shows).
`deleteNode` has no caller and is left out.

### Queue and ReconcileSpec

`Queue` is `queue.go` on top of the rate limiting work queue of client-go, which
is external and modelled from its use: a FIFO, the dirty and the processing set,
and the keys that wait for a delay. A shutdown drains the FIFO and drops delayed
keys. The histories `unseen` and `owing` record what has still to be reconciled.
`ReconcileSpec` is the promise: a key that is added is owed a reconciliation that
starts afterwards, one runs at a time, a failed one is owed again until the queue
is stopped. `Queue` implements it with

    owed    <- dirty, and waiting until the shutdown
    running <- the key between Get and the return of reconcileFunc
    stopped <- shuttingDown

### EndpointStore and Endpoints

`EndpointStore` is the pure path from the slices of a Service to its clusters:
`endpointsStoreForXdsServiceStore`, `endpointSliceToClusterEndpoints` and
`createClustersFromEndpointStore`. `Endpoints` lets the slices of one Service
change arbitrarily under every strategy and states what the clusters must be. A
slice lists any of its pods (`PodsOf`), ready or not, and has any ports; no pod is
in two slices. Lists are sets: no property depends on their order. But a set has a
port number once that a slice lists twice, for TCP and for UDP, where the code puts
each endpoint twice into the cluster of that number; `EveryEndpointIsServed` does
not tell the two apart.

### Controller

The caches of the informers, four queues as `ReconcileSpec` has them, and a worker
per queue. A worker's steps are its reads and publications in the order of the code:
`Take`, `Lookup` (of a slice), `ListLabelled`, `ListXdsServices`, `SnapServices`,
`ListEndpointSlices`, `SnapEndpoints`; `ReconcileError` may end any of them.
`ListXdsServices` reads XdsServices and their Services in one step, and
`ListEndpointSlices` the slices of all clusters in one: the code reads these caches
one after the other. A publication is the replacement of the full snapshot; module
`Snapshotter` says what follows. A key that is delayed after a failure and added
again meanwhile is owed once here, and reconciled twice by the code (`ReconcileSpec`
allows both): the second of these reconciliations is left out. The history `pending`
holds the objects that changed and were in no publication since. It is kept by
`fresh`, the objects that a worker has read since their last change.

The label that names a slice's Service is part of the slice and may change with it.
`Lookup` takes it from the slice it finds, in the remote clusters from the first
that has one of the name, and `needToReconcileEndpointSlice` ends the reconciliation
if it names no Service of the store. This loses changes: of a slice that no longer
has the label of a served Service, or where remote clusters have slices of one name
with different labels, the endpoints that were published stay, and the change is
published only with the next one that is not filtered. Nothing that would exclude
it is in the code, so the properties of the controller except these slices: the
history `labels` records the labels that slices of a name have had, such changes
remain in `pending`, and `RelabelledObjects` names them.

### SnapshotCache and Collector

`SnapshotCache` is what the snapshotter promises the readers of its caches, the
gRPC server and the collector: atomic steps that give some node ids the next
version of some families, that register a node, and that forget one together with
its version counters. `SnapshotterCache` is the refinement mapping (`versions` and
`contents` are read off `full` and `nodeSnap`). `Collector` puts `Collect` beside
these steps: it copies the node ids, reads two snapshots per node, skips a node
whose services are not cached, and copies the ids again. The histories `changed`
and `lacked` record what moved since it began. A series is a resource with a node;
its labels are formatting. The two modules compose by refinement: what is shown of
`Collector` over `SnapshotCache` holds of it over the snapshotter.

### Settings, Resources and ServiceStore

`Settings` has `extract*` and `Parse*` as operators on specs, in which a field may
be left out or invalid; durations wrap around at `DurationLimit`, as `int64` does.
`Resources` has the resources of `xds/service.go` and the load assignments of
`xds/endpoints.go` with the fields by which one leads to the next. A name is a
tuple of its format and what is put into it, so that names made by different
formats differ. `ServiceStore` is `servicesToXdsServiceStore` one read at a time
(labelled Services, XdsServices, then one Service after the other) while the caches
change, followed by `SnapServices`; the history `undisturbed` says that no cache has
changed since the worker began. `Controller` has the same reads as two steps,
and the settings as opaque values.

### ServiceWatcher, Backoff and Startup

`ServiceWatcher` is the informer of labelled Services with its handlers. client-go
is external: a list or a watch fills a FIFO, the store is changed before the
handler is called, a broken watch is resumed or begins with a new list, and what
is known but not on that list is handed over as a tombstone, on which the handler
of deletions panics. `Backoff` is `ForAttempt` as the set of delays it may return.

`Startup` composes both with `main`, `Run`, the clients and the workers:

| State | Code |
|---|---|
| `main` | the goroutine of `main`, inside `Run` and `WatchAll` too |
| `crd`, `kube` | `factoryCRD`, `factoryKube` of each client: informers made, started, with their first list |
| `retry`, `made` | the goroutine of `RetryWatch` for a remote, and the factories it made |
| `queues`, `work` | whether the workers run, and whose informers have added keys |
| `config`, `localhost`, `stopped` | the clusters file, the flag, `stopCh` |
| `reachable` | the clusters whose API answers (environment) |

The workers' reconciliations are their reads through the clients: a lister makes
its informer if there is none, and never starts it. `factoryKube` of a remote is
assigned by its goroutine without a lock that readers take. It is an interface of
two words, so that a reader may see one word without the other; this is the value
`"torn"`, on which it panics. A panic or an exit ends the process, and Kubernetes
starts it again with the cluster as it is. No code closes `stopCh`; the model may
close it, because `WaitForCacheSync`, `WatchAll` and `RetryWithBackoff` have
branches for that, and properties that need it open say so.

## The runs

| Run | States | Shows |
|---|---|---|
| `snapshotter_streams` | 137,648 | two streams of a node, changing names, waits for the rate limiters, three publications with two contents: served is what was asked for, no more, at most one publication behind; `IInv` holds; failed streams are forgotten, nodes catch up |
| `snapshotter_families` | 236,001 | two nodes, shared or not, both families, xdstp names, an unknown type: no leaks, handlers find their entries, delta caches agree, versions grow, `SnapshotCache` is implemented |
| `collector` | 137,444 | a scrape among publications and streams reports whole snapshots, and all that stayed |
| `queue` | 47,736 | nothing lost, nothing doubled, `requeued` exact, `ReconcileSpec` implemented; every change is reconciled, every failure retried |
| `endpoints_priorities` | 11,200 | every endpoint once per port, local-first, priorities without gaps when slices list the same ports |
| `controller_workers` | 197,135 | no handled change is left unpublished at rest; every handled change is published in the end; unless workers overlap, what is published becomes and stays right (its one XdsService is always `Unambiguous`); slices that do not keep their label are excepted from each |
| `service_store` | 208,559 | settings come whole from one source, an XdsService before a label; a build that no change interrupts publishes exactly what the caches hold; intervals are in order, listeners lead to endpoints for clients of both protocols, hashed routes have rings |
| `startup` | 242,432 | only known panics in reads through clients and in the service watcher, no lister that stays empty, served after the first lists, one factory per remote, the queue follows the store; remotes block nothing, are watched in the end, and the store catches up after panics |

Localhost mode has no run of its own: the theorem `Served` covers it, because
`LocalhostEndpoints` is any Boolean there.

Four runs find a violation, each of a sentence in the repository:

- `snapshotter_repeated`: `resourcesMatch` "checks if 2 slices contain the same set
  of resources", but `[k1, k2]` and `[k1, k1]` match, and the node keeps `k2`. It
  takes a client that repeats a name.
- `endpoints_skip`: "Priorities should range from 0 (highest) to N (lowest) without
  skipping", but `foundLocalEndpoints` is per Service and clusters are per port:
  where local and remote slices list different ports, a cluster has priority 1
  alone. With the same ports they never skip (`endpoints_priorities`).
- `controller_stale`: after a slice is deleted the code refreshes the "Endpoints
  snapshot to make sure it's up to date", but the worker of another queue that
  listed the slices before can publish last. The deleted endpoint stays until
  something else changes: resyncs do not change the resource version, and
  `objChanged` ignores them. `controller_workers` shows that it takes workers that
  reconcile at the same time (`UpToDateWithoutOverlap`, proved in part as
  `UpToDateAtRest`).
- `controller_services`: "It watches Kubernetes Services", but the informer of all
  Services has no handler. A change of a Service that an XdsService selects is not
  published until something else is.

### Bounds

`MaxSnaps` bounds the publications of a family, `MaxNodeVersion` the snapshots of
a node before its streams stop sending, `MaxChanges` and `MaxFailures` the changes
of objects and the failed reconciliations, `MaxBreaks`, `MaxAttempts` and
`MaxRaces` the broken watches, the retries and the reads of a half assigned
factory, `Versions` the versions of `SnapshotCache`. Two streams are enough for the
interesting cases of a node (one changes or closes while the other stays). Two
contents and three publications let a node hold an old and a new copy of a name and
would let one survive that is two publications old. A request has one of two names,
the plain and the xdstp one, so that the lists of two requests differ in their
members at equal length; empty and longer lists are left to the proofs. One node that
is shared and two that are not both occur. The
queue has three keys and three failures: one key processed, one queued, one
delayed, and one that fails twice. The controller has a local and two remote
clusters, an XdsService, and in each cluster a slice of one name, with the label of
the Service or without, and three changes: create, change or relabel, and delete, or
one of each of three objects. The store of Services
is built from two XdsServices that may select one Service, out of seven specs that
take every branch of `extract*` and `Parse*` (the tenfold of an interval wraps to a
negative and to a positive number), while an object changes once between two reads or
two builds; the names of several Services are left to `ListenersLead` and
`DeltaLeads`.
The collector has a client node beside the full snapshot; each may be replaced
twice, and the client forgotten and registered again any number of times. The start
has one remote cluster, one labelled Service with a change, a broken watch and a
race: enough for every panic, and a restart after it; a second remote would repeat
the goroutine of the first. The runs of `Controller` and `Startup` do not check for
deadlock, because objects stop changing and a server may have nothing to do; all
others do. The proofs have none of these limits.

### Fairness

The goroutines of streams, of publications and of queues keep running, a
reconciliation returns and a timer fires, and so does `waitForRequestLimit`, after a
second at the latest (`LeaveWait`): weak fairness of their steps. This is the
Go scheduler and, for `streamsMu`, that a waiting writer keeps new readers out
(strong fairness of closing a failed stream). At the start also: of a cluster that
answers the informers get their lists, and Kubernetes restarts a process that has
ended; of the workers only that of labelled Services has to go on there. Nothing is
assumed of clients, objects and clusters: no request, event, failure, broken watch
or close of a healthy stream ever has to happen, and a cluster need never answer.
Failures are bounded, so that a reconciliation that fails forever is out of scope;
so are endless panics, which `WatcherCatchesUp` excludes by its premise.

## The proofs

For `Snapshotter`, with any numbers of nodes, streams, keys, types, names and
publications, from the assumptions of `Snapshotter` on its constants (the type
URLs of the families are disjoint; the marks for absence are no values):
`SnapshotterTypes` proves `TypeCorrect` and has the facts about the pure parts;
it and `SnapshotterInvariant` show, one action at a time, that `IInv` is inductive
(the first has the publications, the second the callbacks of streams);
`SnapshotterProofs` and `SnapshotterNames` have what follows. In all:

- `TypeCorrect`, `Invariance`, `NoLeak`, `HandlerFindsEntry`, `Served`,
  `DeltaFollows`, `OneBehind`, `NodesAreUpToDate`, `CacheImplemented`, `Versions`, and,
  for clients that repeat no name in a request, `KeepsTheSet` and `NothingElse`.

None of the properties is inductive. `IInv` adds: a closed stream has no node id,
and a stream without one has asked for nothing (`ClosedIsBlank`); an entry that a
node does not have has no names and no copies (`AbsentIsEmpty`); the snapshot of a
node is made of the copies of its streams (`SnapshotIsAggregate`); unless a
publication of their family is under way, the copies are those of the full
snapshot (`CopiesAreFresh`); the names kept for a stream include those it asked
for, the request being handled aside (`AskedIsKept`); the cached version is the
counter (`VersionIsCounter`); full snapshots hold a name once (`FullUnique`) and
only known types reach the update (`UpdatesAreTyped`).
The argument for `Served`:
the names include those asked for, the copies of all streams come from one full
snapshot once it is settled, so that no two of a name differ and the aggregate
keeps each. It holds for repeated names too: `resourcesMatch` may keep more names
than were asked for (`snapshotter_repeated`), never fewer. The same argument with the
names that are kept gives `NodesAreUpToDate`: whenever no publication of a family is
under way, a node has exactly what the full snapshot holds under those names. That a
publication ends is what `NodesCatchUp` adds.

Two theorems about publications add an invariant each. `DeltaFollows`: the full
snapshot is made from the store that the linear caches have or, while the call is
between the two, are about to get (`FullFromStore`). `OneBehind`: with
`CopiesWerePublished`, the copies of a stream come from the full snapshot or, until
the refresh of the nodes, from the one it replaced; before a publication they come
from the present one by `CopiesAreFresh`, which is why none is ever two behind.

The snapshotter implements `SnapshotCache` (`CacheImplemented`), step by step from
`IInv`: by `VersionIsCounter` the version of a new snapshot is the one after the
cached one. `Versions` (no new content under an old version, while the node exists)
follows from it, because no step of `SnapshotCache` does otherwise.

`SnapshotterNames` is about `resourcesMatch`. `KeepsTheSetAsked` and
`ServesNothingElse` are false for a client that repeats a name
(`snapshotter_repeated`), and both hold if no request does (`DistinctNames`): a list
without repetitions that is as long as another and included in it has the same
members (`MatchFact`, by counting), so that the comparison of lengths and members
which the code makes is one of sets. The invariant is `NamesInv`: the
names kept for a stream are the set it asked for, except of the type whose request
is being handled (`KeptFor`), and the copies are under names that are kept
(`CopiesAreNamed`).

`QueueProofs`, for any keys and any number of failures:

- `Kept`, `Once`, `RequeuedMetric` from `Invariance`, whose `IInv` is the conjunction
  of the queue's properties and of one fact more: the key being reconciled is not
  owing, which `removeRequeued` relies on;
- `Implements`: `Queue` implements `ReconcileSpec`. `Get` needs `QueuedOnce`, because
  the head of the FIFO has to be dirty.

Lemmas state what `Append`, `Tail` and `RemoveAt` do to a sequence without
repetitions.

`ControllerProofs`, for any clusters, objects, settings and numbers of changes and
failures: `ControllerTypes` and `NoChangeIsLost`, which is `NothingPendingAtRest`.
For the types, `WorkersInv` adds that each queue and its worker have keys of their
own kind, and that only slices are looked up. `NothingPendingAtRest` is not
inductive, because it says nothing of a worker at work. `Tracking` does: every
pending change of an object with a handler has a queue and a key that will publish
it (`Duty`) and is `Tracked` there, which means that the key is owed, or that the worker is at that key, and
either has yet to read the object (`Unread`) or has read it since its last change,
and will publish what it read; keys whose slices have had two labels are excepted
(`Excepted`). It is kept because a handler adds the key after the
cache has changed, a publication takes no more than what was read from `pending`, and
a failed reconciliation owes its key again.

`UpToDateAtRest` says that what is published is also right: if no two reconciliations
overlap and XdsServices that select the same Service have the same settings
(`Unambiguous`), then at rest the services and the endpoints are those that the caches
call for, unless a change is pending that nothing takes up (`Excused`): of a Service,
which has no handler, or of a slice whose name has had two labels. All of this is
needed. Without the first premise, `controller_stale` is a counterexample. Without the second, the
deletion of a slice publishes only endpoints, made from a store of which the lister's
order decides anew which XdsService wins, so that the endpoints may have the settings
of one and the services those of the other. Without the exception of relabelled
slices, `needToReconcileEndpointSlice` leaves endpoints of the old label published.
The invariant is `AloneInv`:
what is published is what the caches say, apart from what is pending (`Follows`), and
so is what the worker has read so far, object by object (`Reads`): each object that it
relies on has not changed since, or is pending. A worker alone takes nothing from
`pending` that another publication overwrites, and `snapAll` lists the endpoints of
the very store it has published (`SnapsBoth`). Where the filter drops a slice from
`pending`, slices of its name have only had the label that the worker goes by
(`LabelsInv`: labels in the caches and in the workers are recorded), so that no Service
of the store has endpoints of it.

In the same module, for any nodes, resources and versions: `ReportsWhole` and
`ReportsStable` of the metrics collector, from `CollectorInv`. It adds that nothing
is cached without a version or for a node id that `NodesMap` does not return
(`CacheInv`), that no node is left when only the ids are (`PhaseInv`), and that an
unchanged snapshot has been reported or its node is still to come, the services of
the present node being reported (`ProgressInv`).

`StartupProofs`, for any Services, remotes and any number of
changes, broken watches, retries, races and restarts, provided that the bounds of
the backoff are positive and in order and that it has jitter, as in `retry.go`:

- `StartupInvariance`, `Panics`, `Listers`, `FirstLists`, `OneFactory` (with
  `DelaysInBounds`), `StoreQueued` (with `GaugeCountsTheStore`),
  `NoRemoteIsGivenUp`, `SeesTheCluster`.

`StartupInv` has a part for the watcher (until a watch has been broken there was one
list, before which nothing was known, so that no tombstone can exist:
`FirstListInv`), one for the local client (`LocalInv`: from the end of `WatchAll` on
its factories hold exactly the informers that workers read, all started), one for
`main` (`FirstListsInv`: what it has waited for stays so) and one for each remote
(`RemoteOK`: the goroutine's place, the factory and the number of factories agree).
The first two are what makes a panic in the service watcher's handler or in a read
through a client impossible but for the two known causes.

Two theorems add an invariant each. `NoRemoteIsGivenUp`: while the server serves,
each remote has its first list or a goroutine on the way to it, because main passes
`remotes` only by starting all of them and `RetryWithBackoff` returns only with the
list (`WatchedInv`). `SeesTheCluster`: when the watch of labelled Services is up and
nothing is left to be received, handled or reconciled, `seen` is what the cluster
has. `TellsInv` says that for every Service the last event about it, received or
still in the watch, or without one the store, has what the cluster says. A new list
keeps this although it names no Service that is gone: such a Service is known by the
last event received or by the store, and so gets a tombstone (`LatestFact`,
`ListTells`).

`StoreProofs`, for any Services, XdsServices, ports, slices and changes of them. Of
`ServiceStore`: `StoreInvariance`, `OneSource`, `Exact`, `IntervalsOrdered`,
`ListenersLead`, `DeltaLeads`, `RingsForHashes`; of `Endpoints`: `Served`,
`OnlyServed`, `LocalComesFirst`, `NoPriorityIsSkipped`. The assumptions say that a
spec has the types of the CRD and that a nil pointer is neither a policy nor a name
(`SpecsAssumption`), and that no pod is in two slices (`SlicesAssumption`).
`StoreInv` says that every entry, in the making and published, is made of one source
and of the ports of a Service (`StoreEntries`), and which XdsServices have been added
(`SettingsFromOneSource`). `Exact` adds `ExactInv`: as long as no cache changes, the
XdsServices left to do and those found are the ones in the cache, and the store has
the entry of one of those found, or else of the label. The other four theorems hold
in every state that satisfies `StoreInv`.
`IntervalsOrdered` follows the branches of `ParseRetryBackOff` around a product that
wraps (`WrapFact`, `BackOffFact`). For `ListenersLead` and `DeltaLeads`, lemmas say
what sets of resources the snapshot and the linear caches are made of
(`SnapshotFact`, `DeltaFact`) and that names made of different Services, ports or
authorities differ (`NamesFact`), so that exactly one cluster and one assignment
have the name that is followed. The clusters of `Endpoints` are a function of its
state: `ServedFact` and `ClustersFact` describe them, and since a pod is in one slice
(`PodFact`), an endpoint is served once. `NoPriorityIsSkipped` needs its premise:
without it `endpoints_skip` finds a cluster that has priority 1 alone.

Only model-checked: liveness, which is out of the prover's reach
(`FailedStreamIsForgotten`, `NodesCatchUp`, `EveryChangeIsReconciled`,
`EveryFailureIsRetried`, `EveryChangeIsPublished`, `UpToDateWithoutOverlap`,
`RemotesDoNotBlock`, `RemotesAreWatched`, `WatcherCatchesUp`). For most of them the
state in which they have to end is described by a theorem: `NodesAreUpToDate`, `Kept`,
`NoChangeIsLost`, `UpToDateAtRest`, `NoRemoteIsGivenUp`, `SeesTheCluster`; that it is
reached is what TLC adds. Every safety property that a passing run checks is also
proved, `ServesNothingElse` under `DistinctNames`.

## Not modelled

- The gRPC server of go-control-plane (nonces, acknowledgements, which clients are
  woken): it is a dependency, and `src/` does not show how it uses versions after a
  node has been forgotten.
- Time: when a rate limiter admits a request, how long a delay lasts. That a request
  may be refused and that a timer fires at some time is modelled.
- A pod that Kubernetes shows in two slices for a while.
- Panics other than those of the clients' reads and of the service watcher. Two are
  known: nil pointers inside an EndpointSlice (`TargetRef`, `Ready`, `Port`), which
  `endpointSliceToClusterEndpoints` dereferences (`endpoints.go:179-183`), while the
  model's slices have them; and a delta request of a type without a linear cache,
  such as listeners, for which `OnStreamDeltaRequest` calls a method on nil
  (`snapshotter.go:431`). The callbacks of delta streams otherwise only log.
- Formatting and I/O: flags, files, TLS, tokens, logging, labels of metrics, the
  counters of `client_metrics.go` and `queue_metrics.go`, the fixed fields of
  listeners and clusters.
- `deleteNode` of the snapshotter, which has no caller. `Controller.Stop` is deferred
  by `main` and so runs as the process ends: that a queue stops is modelled in
  `Queue`, and `Startup` has the end of the process instead.
- The generated clients and the examples.
