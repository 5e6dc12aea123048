-------------------------- MODULE ControllerProofs --------------------------
(***************************************************************************)
(* Type correctness of Controller, and that its queues and workers lose no *)
(* change, for any clusters, objects and number of changes and failures;   *)
(* that what they publish is right where reconciliations do not overlap;   *)
(* and the properties of the metrics collector, for any nodes and          *)
(* resources and any steps of the snapshot caches between its reads.       *)
(***************************************************************************)
EXTENDS Controller, Collector, TLAPS

(* Most leaves are first-order; those with arithmetic or nested EXCEPT cite SMT. *)
USE ZenonT(30), SMTT(30)

-----------------------------------------------------------------------------
(* The queues and workers of the controller *)

KeysOf(q) ==
  IF q = "service" THEN Services ELSE IF q = "crd" THEN XdsNames ELSE SliceNames

AllObjects == SliceObjects \cup LabelledObjects \cup XdsObjects \cup ServiceObjects

(* Each queue has keys of its kind, and only slices are looked up and filtered *)
WorkersInv ==
  /\ TypeOK
  /\ \A q \in Queues : owed[q] \subseteq KeysOf(q) /\ (worker[q].pc # "idle" => worker[q].key \in KeysOf(q))
  /\ \A q \in {"service", "crd"} : worker[q].pc # "lookup" /\ worker[q].mode = "all"

(* The key under which a change is queued *)
Duty(o, q, k) ==
  \/ \E c \in Clusters : o = <<"slice", c, k>> /\ q = QueueOf(c)
  \/ o = <<"labelled", k>> /\ q = "service"
  \/ o = <<"xds", k>> /\ q = "crd"

(* Where a worker has not yet read the objects of its queue *)
Unread(q) ==
  IF q = "service" THEN {"labelled"} ELSE IF q = "crd" THEN {"labelled", "xds"} ELSE {"lookup"}

(* The key is queued, or at work by someone who is going to read the object or has read it *)
Tracked(o, q, k) ==
  o \in pending =>
    \/ k \in owed[q]
    \/ /\ worker[q].pc # "idle" /\ worker[q].key = k
       /\ worker[q].pc \in Unread(q) \/ o \in worker[q].fresh

(* The slices of the name do not keep their label *)
Excepted(q, k) == q \in {"local", "remote"} /\ k \in Relabelled(q)

Tracking ==
  \A o \in HandledObjects, q \in Queues : \A k \in KeysOf(q) :
    Duty(o, q, k) => Excepted(q, k) \/ Tracked(o, q, k)

(* The labels of the slices that exist, and of those that workers found, are recorded *)
LabelsInv ==
  /\ \A c \in Clusters, e \in SliceNames :
       slices[c][e] # Absent => slices[c][e].service \in labels[QueueOf(c)][e]
  /\ \A q \in {"local", "remote"} :
       worker[q].pc \in {"labelled", "xds"} /\ worker[q].mode = "slice" =>
         worker[q].parent \in labels[q][worker[q].key]

-----------------------------------------------------------------------------
(* Stores *)

(* What may be stored for a Service is an entry, or nothing. *)
LEMMA EntriesType ==
  ASSUME NEW lab \in [Services -> Objects \cup {Absent}], NEW svc \in [Services -> Objects \cup {Absent}],
         NEW xds \in [XdsNames -> XdsService \cup {Absent}], NEW s \in Services
  PROVE  Entries(lab, xds, svc, s) \subseteq Entry \cup {Absent}
<1>1. ASSUME NEW x \in Selecting(xds, s), svc[s] # Absent
      PROVE  [object |-> svc[s], settings |-> xds[x].settings] \in Entry
  BY <1>1 DEF Selecting, Entry, XdsService
<1>2. lab[s] # Absent => [object |-> lab[s], settings |-> LabelSettings] \in Entry
  BY DEF Entry
<1>. QED  BY <1>1, <1>2 DEF Entries

(* What is stored of the slices of a Service are slices with a priority. *)
LEMMA EndpointsForType ==
  ASSUME NEW store, NEW sl \in [Clusters -> [SliceNames -> SliceValues \cup {Absent}]]
  PROVE  EndpointsFor(store, sl) \in EndpointsStore
<1>. DEFINE of(c, s) == {sl[c][e] : e \in {e \in SliceNames : sl[c][e] # Absent /\ sl[c][e].service = s}}
<1>1. \A c \in Clusters : \A s : of(c, s) \subseteq SliceValues
  OBVIOUS
<1>2. ASSUME NEW st, NEW l \in SUBSET SliceValues, NEW r \in SUBSET SliceValues
      PROVE  endpointsStore(st, l, r) \subseteq [slice : SliceValues, priority : 0..1]
  BY SMTT(30) DEF endpointsStore, LocalEntries, RemoteEntries, RemotePriority
<1>3. ASSUME NEW s \in Services
      PROVE  (IF store[s] = Absent THEN {}
              ELSE endpointsStore(store[s].settings, of(Local, s), UNION {of(c, s) : c \in Remotes}))
                \subseteq [slice : SliceValues, priority : 0..1]
  <2>1. of(Local, s) \in SUBSET SliceValues /\ UNION {of(c, s) : c \in Remotes} \in SUBSET SliceValues
    BY <1>1, SMTT(30) DEF Clusters
  <2>. QED  BY <1>2, <2>1
<1>. QED  BY <1>3 DEF EndpointsFor, EndpointsStore

-----------------------------------------------------------------------------
(* Types *)

(* An event changes no place, key or mode of a worker. *)
LEMMA ChangedFact ==
  ASSUME WorkersInv, NEW kind, NEW o \in AllObjects, Changed(kind, o)
  PROVE  /\ worker' \in [Queues -> WorkerState] /\ pending' \subseteq AllObjects /\ changes' \in Nat
         /\ UNCHANGED <<pubServices, pubEndpoints, failures>>
         /\ \A q \in Queues : /\ worker'[q].pc = worker[q].pc /\ worker'[q].key = worker[q].key
                              /\ worker'[q].mode = worker[q].mode /\ worker'[q].fresh = worker[q].fresh \ {o}
<1>1. \A q \in Queues : worker[q] \in WorkerState
  BY DEF WorkersInv, TypeOK
<1>. DEFINE w(q) == [worker[q] EXCEPT !.fresh = @ \ {o}]
<1>2. \A q \in Queues : /\ w(q) \in WorkerState /\ w(q).pc = worker[q].pc /\ w(q).key = worker[q].key
                       /\ w(q).mode = worker[q].mode /\ w(q).fresh = worker[q].fresh \ {o}
  BY <1>1 DEF WorkerState
<1>3. worker' = [q \in Queues |-> w(q)]
  BY DEF Changed
<1>. HIDE DEF w
<1>4. /\ worker' \in [Queues -> WorkerState]
      /\ \A q \in Queues : /\ worker'[q].pc = worker[q].pc /\ worker'[q].key = worker[q].key
                           /\ worker'[q].mode = worker[q].mode /\ worker'[q].fresh = worker[q].fresh \ {o}
  BY <1>2, <1>3
<1>5. pending \subseteq AllObjects /\ changes \in Nat
  BY DEF WorkersInv, TypeOK, AllObjects
<1>6. /\ pending' = pending \cup {o} /\ changes' = changes + 1
      /\ UNCHANGED <<pubServices, pubEndpoints, failures>>
  BY DEF Changed, published
<1>. QED  BY <1>4, <1>5, <1>6, SMTT(30)

(* The event handlers keep the types. *)
LEMMA EventInv ==
  ASSUME WorkersInv, Event  PROVE WorkersInv'
<1>1. ASSUME NEW kind, NEW o \in AllObjects, Changed(kind, o),
             NEW q \in Queues, NEW k \in KeysOf(q), Enqueue(q, k) \/ UNCHANGED owed,
             labelled' \in [Services -> Objects \cup {Absent}], services' \in [Services -> Objects \cup {Absent}],
             xdsServices' \in [XdsNames -> XdsService \cup {Absent}],
             slices' \in [Clusters -> [SliceNames -> SliceValues \cup {Absent}]],
             labels' \in [{"local", "remote"} -> [SliceNames -> SUBSET (Services \cup {Absent})]]
      PROVE  WorkersInv'
  <2>1. /\ owed' \in [Queues -> SUBSET (Services \cup XdsNames \cup SliceNames)]
        /\ \A p \in Queues : owed'[p] \subseteq KeysOf(p)
    BY <1>1, SMTT(30) DEF Enqueue, WorkersInv, TypeOK, KeysOf
  <2>2. TypeOK'
    BY <1>1, <2>1, ChangedFact DEF WorkersInv, TypeOK, AllObjects
  <2>. QED  BY <1>1, <2>1, <2>2, ChangedFact, SMTT(30) DEF WorkersInv, Queues
<1>2. ASSUME NEW c \in Clusters, NEW e \in SliceNames, NEW value \in SliceValues \cup {Absent},
             EndpointSliceEvent(c, e, value)
      PROVE  WorkersInv'
  <2>1. <<"slice", c, e>> \in AllObjects /\ e \in KeysOf(QueueOf(c))
        /\ QueueOf(c) \in Queues /\ QueueOf(c) \in {"local", "remote"}
    BY SMTT(30) DEF AllObjects, SliceObjects, KeysOf, Queues, QueueOf
  <2>2. slices' \in [Clusters -> [SliceNames -> SliceValues \cup {Absent}]]
    BY <1>2 DEF EndpointSliceEvent, WorkersInv, TypeOK
  <2>3. labels' \in [{"local", "remote"} -> [SliceNames -> SUBSET (Services \cup {Absent})]]
    BY <1>2, <2>1, ControllerAssumption, SMTT(30) DEF EndpointSliceEvent, WorkersInv, TypeOK
  <2>. QED  BY <1>1, <1>2, <2>1, <2>2, <2>3 DEF EndpointSliceEvent, WorkersInv, TypeOK
<1>3. ASSUME NEW x \in XdsNames, NEW value \in XdsService \cup {Absent}, XdsServiceEvent(x, value)
      PROVE  WorkersInv'
  <2>1. <<"xds", x>> \in AllObjects /\ x \in KeysOf("crd") /\ "crd" \in Queues
    BY DEF AllObjects, XdsObjects, KeysOf, Queues
  <2>2. xdsServices' \in [XdsNames -> XdsService \cup {Absent}]
    BY <1>3 DEF XdsServiceEvent, WorkersInv, TypeOK
  <2>. QED  BY <1>1, <1>3, <2>1, <2>2 DEF XdsServiceEvent, WorkersInv, TypeOK
<1>4. ASSUME NEW s \in Services, NEW value \in Objects \cup {Absent},
             LabelledServiceEvent(s, value) \/ ServiceEvent(s, value)
      PROVE  WorkersInv'
  <2>1. <<"labelled", s>> \in AllObjects /\ <<"service", s>> \in AllObjects
        /\ s \in KeysOf("service") /\ "service" \in Queues
    BY DEF AllObjects, LabelledObjects, ServiceObjects, KeysOf, Queues
  <2>2. /\ labelled' \in [Services -> Objects \cup {Absent}]
        /\ services' \in [Services -> Objects \cup {Absent}]
    BY <1>4 DEF LabelledServiceEvent, ServiceEvent, WorkersInv, TypeOK
  <2>. QED  BY <1>1, <1>4, <2>1, <2>2 DEF LabelledServiceEvent, ServiceEvent, WorkersInv, TypeOK
<1>. QED  BY <1>2, <1>3, <1>4 DEF Event

(* The goroutine of queue q, and no other, comes to pc *)
Steps(q, pc, key, mode, fresh) ==
  /\ worker' \in [Queues -> WorkerState]
  /\ \A p \in Queues \ {q} : worker'[p] = worker[p]
  /\ worker'[q].pc = pc /\ worker'[q].key = key /\ worker'[q].mode = mode /\ worker'[q].fresh = fresh

(* The step of a worker replaces its own record. *)
LEMMA StepsFact ==
  ASSUME WorkersInv, NEW q \in Queues, NEW w \in WorkerState, worker' = [worker EXCEPT ![q] = w]
  PROVE  Steps(q, w.pc, w.key, w.mode, w.fresh)
  BY DEF Steps, WorkersInv, TypeOK

(* A worker that ends its reconciliation is as it was before. *)
LEMMA IdleFact ==
  ASSUME WorkersInv, NEW q \in Queues, worker' = [worker EXCEPT ![q] = IdleWorker]
  PROVE  Steps(q, "idle", Absent, "all", {})
<1>1. NoServices \in [Services -> Objects \cup {Absent}] /\ NoServices \in ServiceStore
      /\ NoEndpoints \in EndpointsStore
  BY DEF NoServices, NoEndpoints, ServiceStore, EndpointsStore
<1>2. /\ IdleWorker \in WorkerState /\ IdleWorker.pc = "idle" /\ IdleWorker.key = Absent
      /\ IdleWorker.mode = "all" /\ IdleWorker.fresh = {}
  BY <1>1 DEF IdleWorker, WorkerState
<1>. QED  BY <1>2, StepsFact

(* A worker that takes a key goes to the first read of its queue. *)
LEMMA TakeFact ==
  ASSUME WorkersInv, NEW q \in Queues, NEW k \in owed[q], Take(q, k)
  PROVE  Steps(q, IF q \in {"service", "crd"} THEN "labelled" ELSE "lookup", k,
               worker[q].mode, worker[q].fresh)
<1>. DEFINE pc == IF q \in {"service", "crd"} THEN "labelled" ELSE "lookup"
            w == [worker[q] EXCEPT !.pc = pc, !.key = k]
<1>1. worker[q] \in WorkerState /\ k \in Services \cup XdsNames \cup SliceNames
  BY DEF WorkersInv, TypeOK
<1>2. w \in WorkerState /\ w.pc = pc /\ w.key = k /\ w.mode = worker[q].mode /\ w.fresh = worker[q].fresh
  BY <1>1 DEF WorkerState
<1>3. worker' = [worker EXCEPT ![q] = w]
  BY DEF Take, WorkersInv, TypeOK
<1>. HIDE DEF w, pc
<1>4. Steps(q, pc, k, worker[q].mode, worker[q].fresh)
  BY <1>2, <1>3, StepsFact
<1>. QED  BY <1>4 DEF pc

(* The look-up of a slice reads the slices of its key, and decides on the mode. *)
LEMMA LookupFact ==
  ASSUME WorkersInv, NEW q \in Queues, Lookup(q)
  PROVE  \E mode \in {"slice", "endpoints"} :
           /\ Steps(q, "labelled", worker[q].key, mode, {<<"slice", c, worker[q].key>> : c \in Searched(q)})
           /\ mode = "slice" =>
                \E c \in Searched(q) : /\ slices[c][worker[q].key] # Absent
                                       /\ worker'[q].parent = slices[c][worker[q].key].service
<1>. DEFINE fresh == {<<"slice", c, worker[q].key>> : c \in Searched(q)}
            w(mode, parent) ==
              [worker[q] EXCEPT !.pc = "labelled", !.mode = mode, !.parent = parent, !.fresh = fresh]
<1>1. worker \in [Queues -> WorkerState] /\ worker[q] \in WorkerState
  BY DEF WorkersInv, TypeOK
<1>2. worker[q].pc = "lookup" /\ worker[q].key \in KeysOf(q) /\ q \notin {"service", "crd"}
  BY DEF Lookup, WorkersInv
<1>3. worker[q].key \in SliceNames /\ Searched(q) \subseteq Clusters
  BY <1>2 DEF KeysOf, Searched, Clusters
<1>4. fresh \subseteq SliceObjects
  BY <1>3, SMTT(30) DEF SliceObjects
<1>5. \/ worker' = [worker EXCEPT ![q] = w("endpoints", worker[q].parent)]
      \/ \E c \in Searched(q) : /\ slices[c][worker[q].key] # Absent
                               /\ worker' = [worker EXCEPT ![q] = w("slice", slices[c][worker[q].key].service)]
  <2>1. [worker EXCEPT ![q].pc = "labelled", ![q].mode = "endpoints", ![q].fresh = fresh]
          = [worker EXCEPT ![q] = w("endpoints", worker[q].parent)]
    BY <1>1 DEF WorkerState
  <2>2. \A parent : [worker EXCEPT ![q].pc = "labelled", ![q].mode = "slice", ![q].parent = parent, ![q].fresh = fresh]
                     = [worker EXCEPT ![q] = w("slice", parent)]
    BY <1>1
  <2>. HIDE DEF w
  <2>. QED  BY <2>1, <2>2 DEF Lookup
<1>6. worker[q].parent \in Services \cup {Absent}
  BY <1>1 DEF WorkerState
<1>7. \A c \in Searched(q) : slices[c][worker[q].key] # Absent =>
        slices[c][worker[q].key].service \in Services \cup {Absent}
  BY <1>3, ControllerAssumption, SMTT(30) DEF WorkersInv, TypeOK
<1>. HIDE DEF fresh
<1>8. ASSUME NEW mode \in {"slice", "endpoints"}, NEW parent \in Services \cup {Absent},
             worker' = [worker EXCEPT ![q] = w(mode, parent)]
      PROVE  Steps(q, "labelled", worker[q].key, mode, fresh) /\ worker'[q].parent = parent
  <2>1. /\ w(mode, parent) \in WorkerState /\ w(mode, parent).pc = "labelled"
        /\ w(mode, parent).key = worker[q].key /\ w(mode, parent).mode = mode
        /\ w(mode, parent).parent = parent /\ w(mode, parent).fresh = fresh
    BY <1>1, <1>4 DEF WorkerState
  <2>. HIDE DEF w
  <2>2. worker'[q] = w(mode, parent)
    BY <1>1, <1>8
  <2>. QED  BY <1>8, <2>1, <2>2, StepsFact
<1>. HIDE DEF w
<1>. QED  BY <1>5, <1>6, <1>7, <1>8 DEF fresh

(* servicesToXdsServiceStore reads all labelled Services at once. *)
LEMMA ListLabelledFact ==
  ASSUME WorkersInv, NEW q \in Queues, ListLabelled(q)
  PROVE  /\ Steps(q, "xds", worker[q].key, worker[q].mode, worker[q].fresh \cup LabelledObjects)
         /\ worker'[q].parent = worker[q].parent
<1>. DEFINE w == [worker[q] EXCEPT !.pc = "xds", !.labelled = labelled, !.fresh = @ \cup LabelledObjects]
<1>1. worker[q] \in WorkerState /\ labelled \in [Services -> Objects \cup {Absent}]
  BY DEF WorkersInv, TypeOK
<1>2. /\ w \in WorkerState /\ w.pc = "xds" /\ w.key = worker[q].key /\ w.mode = worker[q].mode
      /\ w.fresh = worker[q].fresh \cup LabelledObjects /\ w.parent = worker[q].parent
  BY <1>1 DEF WorkerState
<1>3. worker' = [worker EXCEPT ![q] = w]
  BY DEF ListLabelled, WorkersInv, TypeOK
<1>. HIDE DEF w
<1>4. worker'[q] = w
  BY <1>3 DEF WorkersInv, TypeOK
<1>. QED  BY <1>2, <1>3, <1>4, StepsFact

(* SnapServices changes nothing of what the worker has read. *)
LEMMA SnapServicesFact ==
  ASSUME WorkersInv, NEW q \in Queues, SnapServices(q)
  PROVE  Steps(q, "slices", worker[q].key, worker[q].mode, worker[q].fresh)
<1>. DEFINE w == [worker[q] EXCEPT !.pc = "slices"]
<1>1. worker[q] \in WorkerState
  BY DEF WorkersInv, TypeOK
<1>2. /\ w \in WorkerState /\ w.pc = "slices" /\ w.key = worker[q].key /\ w.mode = worker[q].mode
      /\ w.fresh = worker[q].fresh
  BY <1>1 DEF WorkerState
<1>3. worker' = [worker EXCEPT ![q] = w]
  BY DEF SnapServices, WorkersInv, TypeOK
<1>. HIDE DEF w
<1>. QED  BY <1>2, <1>3, StepsFact

(* endpointsStoreForXdsServiceStore reads all slices. *)
LEMMA ListEndpointSlicesFact ==
  ASSUME WorkersInv, NEW q \in Queues, ListEndpointSlices(q)
  PROVE  Steps(q, "snapEndpoints", worker[q].key, worker[q].mode, worker[q].fresh \cup SliceObjects)
<1>. DEFINE endpoints == EndpointsFor(worker[q].store, slices)
            w == [worker[q] EXCEPT !.pc = "snapEndpoints", !.endpoints = endpoints,
                                   !.fresh = @ \cup SliceObjects]
<1>1. worker[q] \in WorkerState /\ endpoints \in EndpointsStore
  BY EndpointsForType DEF WorkersInv, TypeOK
<1>2. worker' = [worker EXCEPT ![q] = w]
  BY DEF ListEndpointSlices, WorkersInv, TypeOK
<1>. HIDE DEF endpoints
<1>3. /\ w \in WorkerState /\ w.pc = "snapEndpoints" /\ w.key = worker[q].key /\ w.mode = worker[q].mode
      /\ w.fresh = worker[q].fresh \cup SliceObjects
  BY <1>1 DEF WorkerState
<1>. HIDE DEF w
<1>. QED  BY <1>2, <1>3, StepsFact

(***************************************************************************)
(* The list of XdsServices is read and the worker goes on, or a slice      *)
(* whose Service is not in the store ends the reconciliation.              *)
(***************************************************************************)
LEMMA ListXdsServicesFact ==
  ASSUME WorkersInv, NEW q \in Queues, ListXdsServices(q)
  PROVE  \E store \in ServiceStore :
           /\ \A s \in Services : store[s] \in Entries(worker[q].labelled, xdsServices, services, s)
           /\ \/ /\ worker[q].mode = "slice"
                 /\ worker[q].parent \in Services => store[worker[q].parent] = Absent
                 /\ Steps(q, "idle", Absent, "all", {})
                 /\ pending' = IF worker[q].key \in Relabelled(q) THEN pending
                               ELSE pending \ (worker[q].fresh \cap SliceObjects)
              \/ /\ Steps(q, IF worker[q].mode = "endpoints" THEN "slices" ELSE "snapServices",
                          worker[q].key, worker[q].mode, worker[q].fresh \cup XdsObjects \cup ServiceObjects)
                 /\ worker'[q].store = store
                 /\ UNCHANGED pending
<1>. DEFINE entries == [s \in Services |-> Entries(worker[q].labelled, xdsServices, services, s)]
            need(store) == needToReconcileEndpointSlice(worker[q].parent, store)
            pc == IF worker[q].mode = "endpoints" THEN "slices" ELSE "snapServices"
            w(store) == [worker[q] EXCEPT !.pc = pc, !.labelled = NoServices, !.store = store,
                                          !.fresh = @ \cup XdsObjects \cup ServiceObjects]
<1>1. PICK store \in [Services -> UNION Range(entries)] :
           /\ \A s \in Services : store[s] \in entries[s]
           /\ IF worker[q].mode = "slice" /\ ~need(store)
              THEN /\ worker' = [worker EXCEPT ![q] = IdleWorker]
                   /\ pending' = IF worker[q].key \in Relabelled(q) THEN pending
                                 ELSE pending \ (worker[q].fresh \cap SliceObjects)
              ELSE /\ worker' = [worker EXCEPT ![q] = w(store)]
                   /\ UNCHANGED pending
  <2>1. worker \in [Queues -> WorkerState]
    BY DEF WorkersInv, TypeOK
  <2>2. ASSUME NEW store
        PROVE  [worker EXCEPT ![q].pc = pc, ![q].labelled = NoServices, ![q].store = store,
                              ![q].fresh = @ \cup XdsObjects \cup ServiceObjects]
                 = [worker EXCEPT ![q] = w(store)]
    BY <2>1
  <2>. HIDE DEF w
  <2>. QED  BY <2>2 DEF ListXdsServices
<1>2. worker[q] \in WorkerState /\ worker[q].labelled \in [Services -> Objects \cup {Absent}]
      /\ xdsServices \in [XdsNames -> XdsService \cup {Absent}] /\ services \in [Services -> Objects \cup {Absent}]
  BY DEF WorkersInv, TypeOK, WorkerState
<1>3. store \in ServiceStore
  BY <1>1, <1>2, EntriesType DEF ServiceStore
<1>4. NoServices \in [Services -> Objects \cup {Absent}] /\ pc \in {"slices", "snapServices"}
  BY DEF NoServices
<1>. HIDE DEF pc
<1>5. /\ w(store) \in WorkerState /\ w(store).pc = pc /\ w(store).key = worker[q].key
      /\ w(store).mode = worker[q].mode /\ w(store).store = store
      /\ w(store).fresh = worker[q].fresh \cup XdsObjects \cup ServiceObjects
  BY <1>2, <1>3, <1>4 DEF WorkerState
<1>. HIDE DEF w
<1>6. CASE worker[q].mode = "slice" /\ ~need(store)
  BY <1>1, <1>3, <1>6, IdleFact DEF needToReconcileEndpointSlice
<1>. HIDE DEF need
<1>7. CASE ~(worker[q].mode = "slice" /\ ~need(store))
  <2>1. Steps(q, pc, worker[q].key, worker[q].mode, worker[q].fresh \cup XdsObjects \cup ServiceObjects)
    BY <1>1, <1>5, <1>7, StepsFact
  <2>2. worker'[q].store = store /\ UNCHANGED pending
    BY <1>1, <1>5, <1>7 DEF WorkersInv, TypeOK
  <2>. QED  BY <1>1, <1>3, <2>1, <2>2 DEF pc
<1>. QED  BY <1>6, <1>7

(* A step of a worker keeps the types when its own record and what it writes have theirs. *)
LEMMA StepInv ==
  ASSUME WorkersInv, NEW q \in Queues, NEW pc, NEW key, NEW mode, NEW fresh,
         Steps(q, pc, key, mode, fresh), UNCHANGED <<caches, labels, changes>>,
         pc # "idle" => key \in KeysOf(q),
         q \in {"service", "crd"} => pc # "lookup" /\ mode = "all",
         owed' \in [Queues -> SUBSET (Services \cup XdsNames \cup SliceNames)],
         \A p \in Queues : owed'[p] \subseteq KeysOf(p),
         pubServices' \in ServiceStore, pubEndpoints' \in EndpointsStore,
         pending' \subseteq pending, failures' \in Nat
  PROVE  WorkersInv'
<1>1. TypeOK'
  BY DEF TypeOK, WorkersInv, Steps, caches
<1>2. \A p \in Queues : worker'[p].pc # "idle" => worker'[p].key \in KeysOf(p)
  BY DEF Steps, WorkersInv
<1>3. \A p \in {"service", "crd"} : worker'[p].pc # "lookup" /\ worker'[p].mode = "all"
  BY DEF Steps, WorkersInv, Queues
<1>. QED  BY <1>1, <1>2, <1>3 DEF WorkersInv

(* The steps of a worker keep the types. *)
LEMMA WorkerInv ==
  ASSUME WorkersInv, NEW q \in Queues, WorkerStep(q)  PROVE WorkersInv'
<1>. USE DEF published
<1>1. /\ owed \in [Queues -> SUBSET (Services \cup XdsNames \cup SliceNames)]
      /\ \A p \in Queues : owed[p] \subseteq KeysOf(p)
      /\ worker[q].pc # "idle" => worker[q].key \in KeysOf(q)
      /\ q \in {"service", "crd"} => worker[q].pc # "lookup" /\ worker[q].mode = "all"
      /\ pubServices \in ServiceStore /\ pubEndpoints \in EndpointsStore /\ failures \in Nat
      /\ worker[q].store \in ServiceStore /\ worker[q].endpoints \in EndpointsStore
  BY DEF WorkersInv, TypeOK, WorkerState
<1>2. ASSUME NEW k \in owed[q], Take(q, k)  PROVE WorkersInv'
  <2>1. /\ owed' \in [Queues -> SUBSET (Services \cup XdsNames \cup SliceNames)]
        /\ \A p \in Queues : owed'[p] \subseteq KeysOf(p)
    BY <1>1, <1>2 DEF Take
  <2>2. k \in KeysOf(q) /\ UNCHANGED <<caches, published, pending, labels, changes, failures>>
    BY <1>1, <1>2 DEF Take
  <2>3. Steps(q, IF q \in {"service", "crd"} THEN "labelled" ELSE "lookup", k, worker[q].mode, worker[q].fresh)
    BY <1>2, TakeFact
  <2>. QED  BY <1>1, <2>1, <2>2, <2>3, StepInv
<1>3. CASE Lookup(q)
  <2>1. worker[q].pc = "lookup" /\ q \notin {"service", "crd"}
    BY <1>1, <1>3 DEF Lookup
  <2>. QED  BY <1>1, <1>3, <2>1, LookupFact, StepInv DEF Lookup
<1>4. CASE ListLabelled(q)
  BY <1>1, <1>4, ListLabelledFact, StepInv DEF ListLabelled
<1>5. CASE ListXdsServices(q)
  <2>1. worker[q].pc = "xds" /\ UNCHANGED <<caches, owed, published, labels, changes, failures>>
    BY <1>5 DEF ListXdsServices
  <2>2. CASE Steps(q, "idle", Absent, "all", {}) /\ pending' \subseteq pending
    BY <1>1, <2>1, <2>2, StepInv
  <2>3. ASSUME NEW pc \in {"slices", "snapServices"}, NEW fresh,
               Steps(q, pc, worker[q].key, worker[q].mode, fresh), UNCHANGED pending
        PROVE  WorkersInv'
    BY <1>1, <2>1, <2>3, StepInv
  <2>. QED  BY <1>5, <2>2, <2>3, ListXdsServicesFact
<1>6. CASE SnapServices(q)
  BY <1>1, <1>6, SnapServicesFact, StepInv DEF SnapServices
<1>7. CASE ListEndpointSlices(q)
  BY <1>1, <1>7, ListEndpointSlicesFact, StepInv DEF ListEndpointSlices
<1>8. CASE SnapEndpoints(q)
  BY <1>1, <1>8, IdleFact, StepInv DEF SnapEndpoints
<1>9. CASE ReconcileError(q)
  <2>1. /\ owed' \in [Queues -> SUBSET (Services \cup XdsNames \cup SliceNames)]
        /\ \A p \in Queues : owed'[p] \subseteq KeysOf(p)
    BY <1>1, <1>9 DEF ReconcileError, KeysOf
  <2>2. failures' \in Nat
    BY <1>1, <1>9, SMTT(30) DEF ReconcileError
  <2>. QED  BY <1>1, <1>9, <2>1, <2>2, IdleFact, StepInv DEF ReconcileError
<1>. QED  BY <1>2, <1>3, <1>4, <1>5, <1>6, <1>7, <1>8, <1>9 DEF WorkerStep

(* The types, with the keys of each queue and the modes of its worker. *)
LEMMA WorkersInvariance == Spec => []WorkersInv
<1>1. Init => WorkersInv
  <2>. SUFFICES ASSUME Init PROVE WorkersInv
    OBVIOUS
  <2>1. NoServices \in [Services -> Objects \cup {Absent}] /\ NoServices \in ServiceStore
        /\ NoEndpoints \in EndpointsStore
    BY DEF NoServices, NoEndpoints, ServiceStore, EndpointsStore
  <2>2. IdleWorker \in WorkerState /\ IdleWorker.pc = "idle" /\ IdleWorker.mode = "all"
    BY <2>1 DEF IdleWorker, WorkerState
  <2>3. TypeOK
    BY <2>1, <2>2 DEF Init, TypeOK
  <2>. QED  BY <2>2, <2>3 DEF WorkersInv, Init, Queues
<1>2. WorkersInv /\ [Next]_vars => WorkersInv'
  <2>. SUFFICES ASSUME WorkersInv, [Next]_vars PROVE WorkersInv'
    OBVIOUS
  <2>1. CASE UNCHANGED vars
    BY <2>1 DEF vars, caches, published, WorkersInv, TypeOK
  <2>. QED  BY <2>1, EventInv, WorkerInv DEF Next
<1>. QED  BY <1>1, <1>2, PTL DEF Spec

(* Every variable of the controller keeps its type. *)
THEOREM ControllerTypes == Spec => []TypeOK
<1>1. WorkersInv => TypeOK
  BY DEF WorkersInv
<1>. QED  BY <1>1, WorkersInvariance, PTL

-----------------------------------------------------------------------------
(* Labels *)

(* Labels are recorded when a slice appears, and never forgotten. *)
LEMMA LabelsGrow ==
  ASSUME WorkersInv, Next
  PROVE  /\ \A q \in {"local", "remote"} : \A e \in SliceNames : labels[q][e] \subseteq labels'[q][e]
         /\ \A q \in Queues : WorkerStep(q) => UNCHANGED <<labels, slices>>
<1>1. ASSUME NEW c \in Clusters, NEW e \in SliceNames, NEW value, EndpointSliceEvent(c, e, value)
      PROVE  \A q \in {"local", "remote"} : \A d \in SliceNames : labels[q][d] \subseteq labels'[q][d]
  BY <1>1, SMTT(30) DEF EndpointSliceEvent, QueueOf, WorkersInv, TypeOK
<1>2. \A q \in Queues : WorkerStep(q) => UNCHANGED <<labels, slices>>
  BY DEF WorkerStep, Take, Lookup, ListLabelled, ListXdsServices, SnapServices, ListEndpointSlices,
         SnapEndpoints, ReconcileError, caches
<1>. QED  BY <1>1, <1>2 DEF Next, Event, XdsServiceEvent, LabelledServiceEvent, ServiceEvent

(* A name that does not keep its label never gets rid of that. *)
LEMMA ExceptedStays ==
  ASSUME WorkersInv, Next, NEW q, NEW k, Excepted(q, k)  PROVE Excepted(q, k)'
  BY LabelsGrow DEF Excepted, Relabelled

(* The events keep LabelsInv. *)
LEMMA EventLabels ==
  ASSUME WorkersInv, LabelsInv, Event  PROVE LabelsInv'
<1>1. \A q \in {"local", "remote"} : \A e \in SliceNames : labels[q][e] \subseteq labels'[q][e]
  BY LabelsGrow DEF Next
<1>2. ASSUME NEW q \in Queues
      PROVE  /\ worker'[q].pc = worker[q].pc /\ worker'[q].mode = worker[q].mode
             /\ worker'[q].key = worker[q].key /\ worker'[q].parent = worker[q].parent
  <2>1. worker[q] \in WorkerState
    BY DEF WorkersInv, TypeOK
  <2>2. \E o : worker'[q] = [worker[q] EXCEPT !.fresh = @ \ {o}]
    BY DEF Event, EndpointSliceEvent, XdsServiceEvent, LabelledServiceEvent, ServiceEvent, Changed
  <2>. QED  BY <2>1, <2>2 DEF WorkerState
<1>3. \A q \in {"local", "remote"} : worker[q].pc # "idle" => worker[q].key \in SliceNames
  BY DEF WorkersInv, KeysOf, Queues
<1>4. \A q \in {"local", "remote"} :
        worker'[q].pc \in {"labelled", "xds"} /\ worker'[q].mode = "slice" =>
          worker'[q].parent \in labels'[q][worker'[q].key]
  BY <1>1, <1>2, <1>3, SMTT(30) DEF LabelsInv, Queues
<1>5. \A c \in Clusters : QueueOf(c) \in {"local", "remote"}
  BY DEF QueueOf
<1>6. ASSUME NEW c \in Clusters, NEW e \in SliceNames, NEW value, EndpointSliceEvent(c, e, value)
      PROVE  \A d \in Clusters, f \in SliceNames :
               slices'[d][f] # Absent => slices'[d][f].service \in labels'[QueueOf(d)][f]
  <2>. SUFFICES ASSUME NEW d \in Clusters, NEW f \in SliceNames, slices'[d][f] # Absent
                PROVE  slices'[d][f].service \in labels'[QueueOf(d)][f]
    OBVIOUS
  <2>1. slices' = [slices EXCEPT ![c][e] = value]
        /\ slices \in [Clusters -> [SliceNames -> SliceValues \cup {Absent}]]
        /\ labels \in [{"local", "remote"} -> [SliceNames -> SUBSET (Services \cup {Absent})]]
    BY <1>6 DEF EndpointSliceEvent, WorkersInv, TypeOK
  <2>2. CASE c = d /\ e = f
    <3>1. slices'[d][f] = value
      BY <2>1, <2>2
    <3>2. labels' = [labels EXCEPT ![QueueOf(c)][e] = @ \cup {value.service}]
      BY <1>6, <3>1 DEF EndpointSliceEvent
    <3>. QED  BY <1>5, <2>1, <2>2, <3>1, <3>2
  <2>3. CASE ~(c = d /\ e = f)
    <3>1. slices'[d][f] = slices[d][f]
      BY <2>1, <2>3, SMTT(30)
    <3>. QED  BY <1>1, <1>5, <3>1 DEF LabelsInv
  <2>. QED  BY <2>2, <2>3
<1>7. \A c \in Clusters, e \in SliceNames :
        slices'[c][e] # Absent => slices'[c][e].service \in labels'[QueueOf(c)][e]
  <2>1. UNCHANGED slices \/ \E c \in Clusters, e \in SliceNames : \E value : EndpointSliceEvent(c, e, value)
    BY DEF Event, XdsServiceEvent, LabelledServiceEvent, ServiceEvent
  <2>. QED  BY <1>1, <1>5, <1>6, <2>1 DEF LabelsInv
<1>. QED  BY <1>4, <1>7 DEF LabelsInv

(* The steps of a worker keep LabelsInv: the label is that of a slice that it found. *)
LEMMA WorkerLabels ==
  ASSUME WorkersInv, LabelsInv, NEW q \in Queues, WorkerStep(q)  PROVE LabelsInv'
<1>1. UNCHANGED <<labels, slices>>
  BY LabelsGrow DEF Next
<1>2. \A c \in Clusters, e \in SliceNames :
        slices'[c][e] # Absent => slices'[c][e].service \in labels'[QueueOf(c)][e]
  BY <1>1 DEF LabelsInv
<1>. DEFINE Found(p) == p \in {"local", "remote"} /\ worker[p].pc \in {"labelled", "xds"} /\ worker[p].mode = "slice"
                          => worker[p].parent \in labels[p][worker[p].key]
<1>3. ASSUME NEW pc, NEW key, NEW mode, NEW fresh, Steps(q, pc, key, mode, fresh), Found(q)'
      PROVE  \A p \in {"local", "remote"} : Found(p)'
  BY <1>1, <1>3 DEF LabelsInv, Steps, Queues
<1>4. ASSUME NEW pc, NEW key, NEW mode, NEW fresh, Steps(q, pc, key, mode, fresh), pc \notin {"labelled", "xds"}
      PROVE  LabelsInv'
  <2>1. Found(q)'
    BY <1>4 DEF Steps
  <2>. QED  BY <1>2, <1>3, <1>4, <2>1 DEF LabelsInv
<1>5. CASE Lookup(q)
  <2>1. q \in {"local", "remote"} /\ worker[q].key \in SliceNames
    BY <1>5 DEF Lookup, WorkersInv, Queues, KeysOf
  <2>2. \A c \in Searched(q) : QueueOf(c) = q /\ c \in Clusters
    BY <2>1, ControllerAssumption DEF Searched, QueueOf, Clusters
  <2>3. PICK mode \in {"slice", "endpoints"} :
          /\ Steps(q, "labelled", worker[q].key, mode, {<<"slice", c, worker[q].key>> : c \in Searched(q)})
          /\ mode = "slice" =>
               \E c \in Searched(q) : /\ slices[c][worker[q].key] # Absent
                                      /\ worker'[q].parent = slices[c][worker[q].key].service
    BY <1>5, LookupFact
  <2>4. Found(q)'
    BY <1>1, <2>1, <2>2, <2>3 DEF Steps, LabelsInv
  <2>. QED  BY <1>2, <1>3, <2>3, <2>4 DEF LabelsInv
<1>6. CASE ListLabelled(q)
  <2>1. /\ Steps(q, "xds", worker[q].key, worker[q].mode, worker[q].fresh \cup LabelledObjects)
        /\ worker'[q].parent = worker[q].parent /\ worker[q].pc = "labelled"
    BY <1>6, ListLabelledFact DEF ListLabelled
  <2>2. Found(q)'
    BY <1>1, <2>1 DEF Steps, LabelsInv
  <2>. QED  BY <1>2, <1>3, <2>1, <2>2 DEF LabelsInv
<1>7. ASSUME NEW k \in owed[q], Take(q, k)  PROVE LabelsInv'
  <2>1. Steps(q, IF q \in {"service", "crd"} THEN "labelled" ELSE "lookup", k, worker[q].mode, worker[q].fresh)
    BY <1>7, TakeFact
  <2>2. Found(q)'
    BY <2>1 DEF Steps
  <2>. QED  BY <1>2, <1>3, <2>1, <2>2 DEF LabelsInv
<1>8. CASE SnapEndpoints(q) \/ ReconcileError(q)
  <2>1. Steps(q, "idle", Absent, "all", {})
    BY <1>8, IdleFact DEF SnapEndpoints, ReconcileError
  <2>. QED  BY <1>4, <2>1, SMTT(30)
<1>9. CASE ListXdsServices(q)
  <2>1. \/ Steps(q, "idle", Absent, "all", {})
        \/ Steps(q, IF worker[q].mode = "endpoints" THEN "slices" ELSE "snapServices",
                 worker[q].key, worker[q].mode, worker[q].fresh \cup XdsObjects \cup ServiceObjects)
    BY <1>9, ListXdsServicesFact
  <2>. QED  BY <1>4, <2>1, SMTT(30)
<1>10. CASE SnapServices(q)
  BY <1>4, <1>10, SnapServicesFact, SMTT(30)
<1>11. CASE ListEndpointSlices(q)
  <2>1. Steps(q, "snapEndpoints", worker[q].key, worker[q].mode, worker[q].fresh \cup SliceObjects)
    BY <1>11, ListEndpointSlicesFact
  <2>. QED  BY <1>4, <2>1, SMTT(30)
<1>. QED  BY <1>5, <1>6, <1>7, <1>8, <1>9, <1>10, <1>11 DEF WorkerStep

(* The labels that are recorded, in every reachable state. *)
LEMMA LabelsInvariance == Spec => []LabelsInv
<1>1. Init => LabelsInv
  BY SMTT(30) DEF Init, LabelsInv, IdleWorker, Queues
<1>2. WorkersInv /\ LabelsInv /\ [Next]_vars => LabelsInv'
  <2>. SUFFICES ASSUME WorkersInv, LabelsInv, [Next]_vars PROVE LabelsInv'
    OBVIOUS
  <2>1. CASE UNCHANGED vars
    BY <2>1 DEF vars, caches, LabelsInv
  <2>. QED  BY <2>1, EventLabels, WorkerLabels DEF Next
<1>. QED  BY <1>1, <1>2, WorkersInvariance, PTL DEF Spec

-----------------------------------------------------------------------------
(* Changes *)

(* Which objects are read for the keys of a queue. *)
LEMMA DutyFact ==
  ASSUME NEW q \in Queues, NEW k \in KeysOf(q), NEW o, Duty(o, q, k)
  PROVE  /\ q = "service" => o \in LabelledObjects
         /\ q = "crd" => o \in XdsObjects
         /\ q \in {"local", "remote"} =>
              /\ o \in SliceObjects
              /\ o \in {<<"slice", c, k>> : c \in Searched(q)}
<1>1. q = "service" => o = <<"labelled", k>> /\ k \in Services
  BY DEF Duty, QueueOf, KeysOf
<1>2. q = "crd" => o = <<"xds", k>> /\ k \in XdsNames
  BY DEF Duty, QueueOf, KeysOf
<1>3. ASSUME q \in {"local", "remote"}
      PROVE  /\ o \in SliceObjects
             /\ o \in {<<"slice", c, k>> : c \in Searched(q)}
  <2>1. PICK c \in Clusters : o = <<"slice", c, k>> /\ q = QueueOf(c)
    BY <1>3 DEF Duty
  <2>2. k \in SliceNames /\ c \in Searched(q)
    BY <1>3, <2>1 DEF KeysOf, Clusters, QueueOf, Searched
  <2>. QED  BY <2>1, <2>2, SMTT(30) DEF SliceObjects
<1>. QED  BY <1>1, <1>2, <1>3 DEF LabelledObjects, XdsObjects

(* The steps of one worker do not touch what the others are owed. *)
LEMMA OtherTracked ==
  ASSUME WorkersInv, NEW q \in Queues, NEW p \in Queues \ {q}, NEW o, NEW k, Tracked(o, p, k),
         NEW pc, NEW key, NEW mode, NEW fresh, Steps(q, pc, key, mode, fresh),
         owed'[p] = owed[p], pending' \subseteq pending
  PROVE  Tracked(o, p, k)'
  BY DEF Tracked, Steps

(* A worker that goes on with its key after the read of the object keeps it fresh. *)
LEMMA GoesOn ==
  ASSUME WorkersInv, NEW q \in Queues, NEW o, NEW k, Tracked(o, q, k),
         NEW pc, NEW mode, NEW fresh, Steps(q, pc, worker[q].key, mode, fresh),
         worker[q].pc # "idle", pc # "idle",
         worker[q].pc \notin Unread(q) => worker[q].fresh \subseteq fresh,
         worker[q].pc \in Unread(q) /\ worker[q].key = k => pc \in Unread(q) \/ o \in fresh,
         UNCHANGED owed, pending' \subseteq pending
  PROVE  Tracked(o, q, k)'
  BY DEF Tracked, Steps

(* A worker that ends has published the object, or the change was of no concern. *)
LEMMA Ends ==
  ASSUME WorkersInv, NEW q \in Queues, NEW o, NEW k, Tracked(o, q, k),
         NEW pc, NEW key, NEW mode, NEW fresh, Steps(q, pc, key, mode, fresh),
         worker[q].pc \notin Unread(q), UNCHANGED owed,
         pending' \subseteq pending, worker[q].key = k /\ o \in worker[q].fresh => o \notin pending'
  PROVE  Tracked(o, q, k)'
  BY DEF Tracked, Steps

(* A failed reconciliation leaves its key in the queue. *)
LEMMA Fails ==
  ASSUME WorkersInv, NEW q \in Queues, NEW o, NEW k, Tracked(o, q, k),
         ReconcileError(q)
  PROVE  Tracked(o, q, k)'
  BY DEF Tracked, ReconcileError, WorkersInv, TypeOK

(* A key that is taken is read for: what it was owed for is still to be read. *)
LEMMA Takes ==
  ASSUME WorkersInv, NEW q \in Queues, NEW o, NEW k, Tracked(o, q, k), NEW l \in owed[q], Take(q, l)
  PROVE  Tracked(o, q, k)'
<1>1. Steps(q, IF q \in {"service", "crd"} THEN "labelled" ELSE "lookup", l, worker[q].mode, worker[q].fresh)
  BY TakeFact
<1>2. worker'[q].pc # "idle" /\ worker'[q].pc \in Unread(q) /\ worker'[q].key = l
  BY <1>1 DEF Steps, Unread, Queues
<1>3. worker[q].pc = "idle" /\ pending' = pending /\ owed'[q] = owed[q] \ {l}
  BY DEF Take, WorkersInv, TypeOK
<1>. QED  BY <1>2, <1>3 DEF Tracked

(* The steps of a worker keep track of the changes of its own queue. *)
LEMMA OwnTracked ==
  ASSUME WorkersInv, NEW q \in Queues, NEW k \in KeysOf(q), NEW o, Duty(o, q, k), Tracked(o, q, k),
         ~Excepted(q, k), WorkerStep(q)
  PROVE  Tracked(o, q, k)'
<1>1. q \in {"service", "crd"} => worker[q].pc # "lookup" /\ worker[q].mode = "all"
  BY DEF WorkersInv
<1>2. CASE Lookup(q)
  <2>1. worker[q].pc = "lookup" /\ q \in {"local", "remote"}
    BY <1>1, <1>2 DEF Lookup, Queues
  <2>2. worker[q].pc \in Unread(q)
    BY <2>1 DEF Unread
  <2>. DEFINE fresh(l) == {<<"slice", c, l>> : c \in Searched(q)}
  <2>3. PICK mode \in {"slice", "endpoints"} : Steps(q, "labelled", worker[q].key, mode, fresh(worker[q].key))
    BY <1>2, LookupFact
  <2>4. o \in fresh(k)
    BY <2>1, DutyFact
  <2>. HIDE DEF fresh
  <2>5. UNCHANGED <<owed, pending>>
    BY <1>2 DEF Lookup
  <2>. QED  BY <2>1, <2>2, <2>3, <2>4, <2>5, GoesOn
<1>3. CASE ListLabelled(q)
  <2>1. /\ worker[q].pc = "labelled" /\ UNCHANGED <<owed, pending>>
        /\ Steps(q, "xds", worker[q].key, worker[q].mode, worker[q].fresh \cup LabelledObjects)
    BY <1>3, ListLabelledFact DEF ListLabelled
  <2>2. worker[q].pc \in Unread(q) => "xds" \in Unread(q) \/ o \in LabelledObjects
    BY <2>1, DutyFact DEF Unread
  <2>. QED  BY <2>1, <2>2, GoesOn
<1>4. CASE ListXdsServices(q)
  <2>1. worker[q].pc = "xds" /\ UNCHANGED owed
    BY <1>4 DEF ListXdsServices
  <2>2. CASE /\ worker[q].mode = "slice" /\ Steps(q, "idle", Absent, "all", {})
             /\ pending' = IF worker[q].key \in Relabelled(q) THEN pending
                           ELSE pending \ (worker[q].fresh \cap SliceObjects)
    <3>1. q \in {"local", "remote"} /\ k \notin Relabelled(q)
      BY <1>1, <2>2 DEF Queues, Excepted
    <3>2. o \in SliceObjects /\ worker[q].pc \notin Unread(q)
      BY <2>1, <3>1, DutyFact DEF Unread
    <3>. QED  BY <2>1, <2>2, <3>1, <3>2, Ends
  <2>3. ASSUME NEW pc \in {"slices", "snapServices"}, UNCHANGED pending,
               Steps(q, pc, worker[q].key, worker[q].mode, worker[q].fresh \cup XdsObjects \cup ServiceObjects)
        PROVE  Tracked(o, q, k)'
    <3>1. worker[q].pc \in Unread(q) => o \in XdsObjects
      BY <2>1, DutyFact DEF Unread
    <3>. QED  BY <2>1, <2>3, <3>1, GoesOn
  <2>. QED  BY <1>4, <2>2, <2>3, ListXdsServicesFact
<1>5. CASE SnapServices(q)
  <2>1. /\ worker[q].pc = "snapServices" /\ UNCHANGED <<owed, pending>>
        /\ Steps(q, "slices", worker[q].key, worker[q].mode, worker[q].fresh)
    BY <1>5, SnapServicesFact DEF SnapServices
  <2>. QED  BY <2>1, GoesOn DEF Unread
<1>6. CASE ListEndpointSlices(q)
  <2>1. /\ worker[q].pc = "slices" /\ UNCHANGED <<owed, pending>>
        /\ Steps(q, "snapEndpoints", worker[q].key, worker[q].mode, worker[q].fresh \cup SliceObjects)
    BY <1>6, ListEndpointSlicesFact DEF ListEndpointSlices
  <2>. QED  BY <2>1, GoesOn DEF Unread
<1>7. CASE SnapEndpoints(q)
  <2>1. /\ worker[q].pc = "snapEndpoints" /\ UNCHANGED owed /\ Steps(q, "idle", Absent, "all", {})
        /\ pending' = pending \ (IF worker[q].mode = "endpoints" THEN worker[q].fresh \cap SliceObjects
                                                                   ELSE worker[q].fresh)
    BY <1>7, IdleFact DEF SnapEndpoints
  <2>2. worker[q].mode = "endpoints" => o \in SliceObjects
    BY <1>1, DutyFact DEF Queues
  <2>3. worker[q].pc \notin Unread(q)
    BY <2>1 DEF Unread
  <2>. QED  BY <2>1, <2>2, <2>3, Ends
<1>. QED  BY <1>2, <1>3, <1>4, <1>5, <1>6, <1>7, Takes, Fails DEF WorkerStep

(* A step of a worker keeps track of every change. *)
LEMMA WorkerTracking ==
  ASSUME WorkersInv, Tracking, NEW q \in Queues, WorkerStep(q)  PROVE Tracking'
<1>. SUFFICES ASSUME NEW o \in HandledObjects, NEW p \in Queues, NEW k \in KeysOf(p), Duty(o, p, k), ~Excepted(p, k)'
              PROVE  Tracked(o, p, k)'
  BY SMTT(30) DEF Tracking, Duty, KeysOf, HandledObjects, SliceObjects, LabelledObjects, XdsObjects, Clusters, QueueOf
<1>1. ~Excepted(p, k) /\ Tracked(o, p, k)
  BY ExceptedStays DEF Tracking, Next
<1>2. CASE p = q
  BY <1>1, <1>2, OwnTracked
<1>3. CASE p # q
  <2>1. \E pc, key, mode, fresh : Steps(q, pc, key, mode, fresh)
    <3>1. CASE SnapEndpoints(q) \/ ReconcileError(q)
      BY <3>1, IdleFact DEF SnapEndpoints, ReconcileError
    <3>2. CASE Lookup(q) \/ ListXdsServices(q)
      BY <3>2, LookupFact, ListXdsServicesFact
    <3>3. CASE ListLabelled(q) \/ SnapServices(q) \/ ListEndpointSlices(q)
      BY <3>3, ListLabelledFact, SnapServicesFact, ListEndpointSlicesFact
    <3>. QED  BY <3>1, <3>2, <3>3, TakeFact DEF WorkerStep
  <2>2. owed'[p] = owed[p]
    <3>1. CASE (\E l \in owed[q] : Take(q, l)) \/ ReconcileError(q)
      BY <1>3, <3>1 DEF Take, ReconcileError, WorkersInv, TypeOK
    <3>. QED  BY <3>1 DEF WorkerStep, Lookup, ListLabelled, ListXdsServices, SnapServices,
                             ListEndpointSlices, SnapEndpoints
  <2>3. pending' \subseteq pending
    BY DEF WorkerStep, Take, Lookup, ListLabelled, ListXdsServices, SnapServices, ListEndpointSlices,
           SnapEndpoints, ReconcileError
  <2>. QED  BY <1>1, <1>3, <2>1, <2>2, <2>3, OtherTracked
<1>. QED  BY <1>2, <1>3

(* A change that has a handler leaves its key in its queue, behind which it is tracked. *)
LEMMA EventTracking ==
  ASSUME WorkersInv, Tracking, Event  PROVE Tracking'
<1>1. ASSUME NEW kind, NEW o \in AllObjects, Changed(kind, o), NEW q \in Queues, NEW k,
             Enqueue(q, k) \/ (UNCHANGED owed /\ o \notin HandledObjects),
             \A p \in Queues : \A l \in KeysOf(p) : Duty(o, p, l) => p = q /\ l = k
      PROVE  Tracking'
  <2>. SUFFICES ASSUME NEW c \in HandledObjects, NEW p \in Queues, NEW l \in KeysOf(p), Duty(c, p, l), ~Excepted(p, l)'
                PROVE  Tracked(c, p, l)'
    BY SMTT(30) DEF Tracking, Duty, KeysOf, HandledObjects, SliceObjects, LabelledObjects, XdsObjects, Clusters, QueueOf
  <2>0. Tracked(c, p, l)
    BY ExceptedStays DEF Tracking, Next
  <2>1. /\ pending' = pending \cup {o}
        /\ worker'[p].pc = worker[p].pc /\ worker'[p].key = worker[p].key
        /\ worker'[p].fresh = worker[p].fresh \ {o}
    BY <1>1, ChangedFact DEF Changed
  <2>2. owed[p] \subseteq owed'[p] /\ (o \in HandledObjects => k \in owed'[q])
    BY <1>1 DEF Enqueue, WorkersInv, TypeOK
  <2>3. CASE c = o
    BY <1>1, <2>2, <2>3 DEF Tracked
  <2>4. CASE c # o
    BY <2>0, <2>1, <2>2, <2>4, SMTT(30) DEF Tracked
  <2>. QED  BY <2>3, <2>4
<1>2. ASSUME NEW c \in Clusters, NEW e \in SliceNames, NEW value, EndpointSliceEvent(c, e, value)
      PROVE  Tracking'
  <2>. DEFINE q == QueueOf(c)
  <2>1. <<"slice", c, e>> \in AllObjects /\ q \in Queues
    BY SMTT(30) DEF AllObjects, SliceObjects, Queues, QueueOf
  <2>2. \A p \in Queues : \A l \in KeysOf(p) : Duty(<<"slice", c, e>>, p, l) => p = q /\ l = e
    BY DEF Duty
  <2>3. Changed("slice", <<"slice", c, e>>) /\ Enqueue(q, e)
    BY <1>2 DEF EndpointSliceEvent
  <2>. QED  BY <1>1, <2>1, <2>2, <2>3
<1>3. ASSUME NEW x \in XdsNames, NEW value, XdsServiceEvent(x, value)
      PROVE  Tracking'
  <2>1. <<"xds", x>> \in AllObjects /\ "crd" \in Queues
    BY DEF AllObjects, XdsObjects, Queues
  <2>2. \A p \in Queues : \A l \in KeysOf(p) : Duty(<<"xds", x>>, p, l) => p = "crd" /\ l = x
    BY DEF Duty
  <2>3. Changed("xds", <<"xds", x>>) /\ Enqueue("crd", x)
    BY <1>3 DEF XdsServiceEvent
  <2>. QED  BY <1>1, <2>1, <2>2, <2>3
<1>4. ASSUME NEW s \in Services, NEW value, LabelledServiceEvent(s, value)
      PROVE  Tracking'
  <2>1. <<"labelled", s>> \in AllObjects /\ "service" \in Queues
    BY DEF AllObjects, LabelledObjects, Queues
  <2>2. \A p \in Queues : \A l \in KeysOf(p) : Duty(<<"labelled", s>>, p, l) => p = "service" /\ l = s
    BY DEF Duty
  <2>3. Changed("labelled", <<"labelled", s>>) /\ Enqueue("service", s)
    BY <1>4 DEF LabelledServiceEvent
  <2>. QED  BY <1>1, <2>1, <2>2, <2>3
<1>5. ASSUME NEW s \in Services, NEW value, ServiceEvent(s, value)
      PROVE  Tracking'
  <2>1. <<"service", s>> \in AllObjects /\ "service" \in Queues /\ <<"service", s>> \notin HandledObjects
    BY SMTT(30) DEF AllObjects, ServiceObjects, HandledObjects, SliceObjects, LabelledObjects, XdsObjects, Queues
  <2>2. \A p \in Queues : \A l \in KeysOf(p) : Duty(<<"service", s>>, p, l) => p = "service" /\ l = s
    BY DEF Duty
  <2>3. Changed("service", <<"service", s>>) /\ UNCHANGED owed
    BY <1>5 DEF ServiceEvent
  <2>. QED  BY <1>1, <2>1, <2>2, <2>3
<1>. QED  BY <1>2, <1>3, <1>4, <1>5 DEF Event

(***************************************************************************)
(* No change is swallowed: when the queues are empty and the workers idle, *)
(* every change of an object that has an event handler was part of a       *)
(* publication or of no concern to it, whatever the four goroutines of     *)
(* controller.go interleave, and however often they fail.                  *)
(***************************************************************************)
THEOREM NoChangeIsLost == Spec => []NothingPendingAtRest
<1>1. Init => Tracking
  BY DEF Init, Tracking, Tracked
<1>2. WorkersInv /\ Tracking /\ [Next]_vars => Tracking'
  <2>. SUFFICES ASSUME WorkersInv, Tracking, [Next]_vars PROVE Tracking'
    OBVIOUS
  <2>1. CASE UNCHANGED vars
    BY <2>1, SMTT(30) DEF vars, caches, Tracking, Tracked, Duty, KeysOf, HandledObjects, SliceObjects, LabelledObjects,
                XdsObjects, Clusters, QueueOf, Excepted, Relabelled
  <2>. QED  BY <2>1, EventTracking, WorkerTracking DEF Next
<1>3. Tracking => NothingPendingAtRest
  <2>. SUFFICES ASSUME Tracking, AtRest, NEW o \in pending \cap HandledObjects
                PROVE  o \in RelabelledObjects
    BY DEF NothingPendingAtRest
  <2>1. PICK q \in Queues : \E k \in KeysOf(q) : Duty(o, q, k)
    BY SMTT(30) DEF HandledObjects, SliceObjects, LabelledObjects, XdsObjects, Duty, KeysOf, Queues, QueueOf
  <2>0. PICK k \in KeysOf(q) : Duty(o, q, k)
    BY <2>1
  <2>2. q \in {"local", "remote"} /\ k \in Relabelled(q)
    BY <2>0 DEF Tracking, Tracked, AtRest, Excepted
  <2>3. PICK c \in Clusters : o = <<"slice", c, k>> /\ q = QueueOf(c)
    BY <2>0, <2>2 DEF Duty
  <2>. QED  BY <2>2, <2>3, SMTT(30) DEF RelabelledObjects
<1>. QED  BY <1>1, <1>2, <1>3, WorkersInvariance, PTL DEF Spec

-----------------------------------------------------------------------------
(* Publications that do not overlap *)

StoreObjects == LabelledObjects \cup XdsObjects \cup ServiceObjects

(* The slices of names that have had the Service in their label *)
SlicesOf(s) == {o \in SliceObjects : s \in labels[QueueOf(o[2])][o[3]]}

Alone == ~Overlap /\ Unambiguous

Stored(store) == \A s \in Services : store[s] \in Entries(labelled, xdsServices, services, s)

(* Before the slices are listed, the only ones a worker has read are those of its key *)
ReadsKey(q) ==
  /\ worker[q].pc \in {"idle", "lookup"} => worker[q].fresh = {}
  /\ worker[q].pc \in {"labelled", "xds"} =>
       worker[q].fresh \cap SliceObjects \subseteq {<<"slice", c, worker[q].key>> : c \in Searched(q)}

(* What a worker has read is what the caches say, or has changed and is pending *)
ReadsLabelled(q) ==
  worker[q].pc = "xds" =>
    /\ LabelledObjects \ worker[q].fresh \subseteq pending
    /\ LabelledObjects \subseteq worker[q].fresh => worker[q].labelled = labelled

ReadsStore(q) ==
  worker[q].pc \in {"snapServices", "slices", "snapEndpoints"} =>
    /\ StoreObjects \ worker[q].fresh \subseteq pending
    /\ StoreObjects \subseteq worker[q].fresh => Stored(worker[q].store)

ReadsSlices(q) ==
  worker[q].pc = "snapEndpoints" =>
    /\ SliceObjects \ worker[q].fresh \subseteq pending
    /\ \A s \in Services :
         /\ worker[q].store[s] = Absent => worker[q].endpoints[s] = {}
         /\ SlicesOf(s) \subseteq worker[q].fresh =>
              worker[q].endpoints[s] = EndpointsFor(worker[q].store, slices)[s]

(* snapAll publishes the endpoints of the services that it has published *)
SnapsBoth(q) ==
  worker[q].pc \in {"slices", "snapEndpoints"} /\ worker[q].mode # "endpoints" => pubServices = worker[q].store

Reads(q) == ReadsKey(q) /\ ReadsLabelled(q) /\ ReadsStore(q) /\ ReadsSlices(q) /\ SnapsBoth(q)

(* What is published is what the caches say, except for what is pending *)
PublishedOf(s) ==
  /\ pubServices[s] = Absent => pubEndpoints[s] = {}
  /\ pending \cap SlicesOf(s) = {} => pubEndpoints[s] = EndpointsFor(pubServices, slices)[s]

Follows ==
  pending \cap StoreObjects = {} => Stored(pubServices) /\ \A s \in Services : PublishedOf(s)

AloneInv == Follows /\ \A q \in Queues : Reads(q)

(* Objects of different kinds are different. *)
LEMMA KindsDiffer ==
  /\ SliceObjects \cap StoreObjects = {}
  /\ LabelledObjects \cap (XdsObjects \cup ServiceObjects) = {}
  /\ LabelledObjects \subseteq StoreObjects /\ \A s : SlicesOf(s) \subseteq SliceObjects
  BY SMTT(30) DEF StoreObjects, SliceObjects, LabelledObjects, XdsObjects, ServiceObjects, SlicesOf

(* Without ambiguity there is one thing to store for a Service. *)
LEMMA OneEntry ==
  ASSUME WorkersInv, Unambiguous, NEW a \in ServiceStore, NEW b \in ServiceStore, Stored(a), Stored(b)
  PROVE  a = b
<1>1. ASSUME NEW s \in Services  PROVE a[s] = b[s]
  <2>1. \A x, y \in Selecting(xdsServices, s) : xdsServices[x].settings = xdsServices[y].settings
    BY DEF Selecting, Unambiguous
  <2>2. a[s] \in Entries(labelled, xdsServices, services, s) /\ b[s] \in Entries(labelled, xdsServices, services, s)
    BY DEF Stored
  <2>. QED  BY <2>1, <2>2 DEF Entries
<1>. QED  BY <1>1, SMTT(30) DEF ServiceStore

(* The endpoints of a Service depend on what is stored for it and on the slices with its label. *)
LEMMA EndpointsForFact ==
  ASSUME NEW s \in Services, NEW store
  PROVE  /\ \A sl : store[s] = Absent => EndpointsFor(store, sl)[s] = {}
         /\ \A a, b :
              (\A c \in Clusters, e \in SliceNames :
                 \/ a[c][e] = b[c][e]
                 \/ ~(a[c][e] # Absent /\ a[c][e].service = s) /\ ~(b[c][e] # Absent /\ b[c][e].service = s))
              => EndpointsFor(store, a)[s] = EndpointsFor(store, b)[s]
<1>. DEFINE of(sl, c) == {sl[c][e] : e \in {e \in SliceNames : sl[c][e] # Absent /\ sl[c][e].service = s}}
            value(sl) == IF store[s] = Absent THEN {}
                         ELSE endpointsStore(store[s].settings, of(sl, Local), UNION {of(sl, c) : c \in Remotes})
<1>1. \A sl : EndpointsFor(store, sl)[s] = value(sl)
  BY DEF EndpointsFor
<1>2. ASSUME NEW a, NEW b,
             \A c \in Clusters, e \in SliceNames :
               \/ a[c][e] = b[c][e]
               \/ ~(a[c][e] # Absent /\ a[c][e].service = s) /\ ~(b[c][e] # Absent /\ b[c][e].service = s)
      PROVE  value(a) = value(b)
  <2>1. ASSUME NEW c \in Clusters  PROVE of(a, c) = of(b, c)
    <3>1. ASSUME NEW v \in of(a, c)  PROVE v \in of(b, c)
      BY <1>2, <3>1
    <3>2. ASSUME NEW v \in of(b, c)  PROVE v \in of(a, c)
      BY <1>2, <3>2
    <3>. HIDE DEF of
    <3>. QED  BY <3>1, <3>2
  <2>. HIDE DEF of
  <2>2. of(a, Local) = of(b, Local) /\ {of(a, c) : c \in Remotes} = {of(b, c) : c \in Remotes}
    BY <2>1 DEF Clusters
  <2>. QED  BY <2>2
<1>3. \A sl : store[s] = Absent => value(sl) = {}
  OBVIOUS
<1>. HIDE DEF value
<1>. QED  BY <1>1, <1>2, <1>3

(***************************************************************************)
(* A change of an object is pending afterwards, and whoever has read the   *)
(* object before has not read it afresh.                                   *)
(***************************************************************************)
LEMMA ChangeFollows ==
  ASSUME WorkersInv, AloneInv, NEW kind, NEW o \in AllObjects, Changed(kind, o),
         o \notin LabelledObjects => UNCHANGED labelled,
         o \notin StoreObjects => UNCHANGED <<labelled, xdsServices, services>>,
         \A s \in Services : SlicesOf(s) \subseteq SlicesOf(s)',
         \A s \in Services : \A store :
           o \notin SlicesOf(s)' => EndpointsFor(store, slices')[s] = EndpointsFor(store, slices)[s]
  PROVE  AloneInv'
<1>1. /\ pending' = pending \cup {o} /\ UNCHANGED <<pubServices, pubEndpoints>>
      /\ \A q \in Queues : worker'[q] = [worker[q] EXCEPT !.fresh = @ \ {o}]
  BY DEF Changed, published
<1>2. Stored(pubServices) /\ o \notin StoreObjects => Stored(pubServices)'
  BY <1>1 DEF Stored
<1>3. ASSUME NEW s \in Services, PublishedOf(s)  PROVE PublishedOf(s)'
  <2>1. /\ pubServices'[s] = pubServices[s] /\ pubEndpoints'[s] = pubEndpoints[s]
        /\ pending' \cap SlicesOf(s)' = {} => pending \cap SlicesOf(s) = {} /\ o \notin SlicesOf(s)'
    BY <1>1
  <2>2. o \notin SlicesOf(s)' => EndpointsFor(pubServices, slices)[s]' = EndpointsFor(pubServices, slices)[s]
    BY <1>1
  <2>. QED  BY <1>3, <2>1, <2>2 DEF PublishedOf
<1>4. Follows'
  <2>. SUFFICES ASSUME pending' \cap StoreObjects = {}
                PROVE  Stored(pubServices)' /\ \A s \in Services : PublishedOf(s)'
    BY DEF Follows
  <2>1. pending \cap StoreObjects = {} /\ o \notin StoreObjects
    BY <1>1
  <2>. QED  BY <1>2, <1>3, <2>1 DEF AloneInv, Follows
<1>5. ASSUME NEW q \in Queues  PROVE Reads(q)'
  <2>. DEFINE w == worker[q]
  <2>1. Reads(q) /\ w \in WorkerState
    BY DEF AloneInv, WorkersInv, TypeOK
  <2>2. /\ worker'[q].pc = w.pc /\ worker'[q].key = w.key /\ worker'[q].mode = w.mode
        /\ worker'[q].fresh = w.fresh \ {o} /\ worker'[q].labelled = w.labelled
        /\ worker'[q].store = w.store /\ worker'[q].endpoints = w.endpoints
    BY <1>1, <2>1 DEF WorkerState
  <2>. HIDE DEF w
  <2>3. ASSUME NEW X
        PROVE  /\ X \ w.fresh \subseteq pending => X \ (w.fresh \ {o}) \subseteq pending'
               /\ X \subseteq w.fresh \ {o} => X \subseteq w.fresh /\ o \notin X
    BY <1>1
  <2>4. ReadsKey(q)'
    BY <2>1, <2>2 DEF Reads, ReadsKey, w
  <2>5. ReadsLabelled(q)'
    BY <2>1, <2>2, <2>3 DEF Reads, ReadsLabelled, w
  <2>6. ReadsStore(q)'
    <3>1. Stored(w.store) /\ o \notin StoreObjects => Stored(worker[q].store)'
      BY <2>2 DEF Stored
    <3>. QED  BY <2>1, <2>2, <2>3, <3>1 DEF Reads, ReadsStore, w
  <2>7. ReadsSlices(q)'
    <3>. SUFFICES ASSUME w.pc = "snapEndpoints"
                  PROVE  /\ SliceObjects \ (w.fresh \ {o}) \subseteq pending'
                         /\ \A s \in Services :
                              /\ w.store[s] = Absent => w.endpoints[s] = {}
                              /\ SlicesOf(s)' \subseteq w.fresh \ {o} =>
                                   w.endpoints[s] = EndpointsFor(w.store, slices')[s]
      BY <2>2, SMTT(30) DEF ReadsSlices, SliceObjects, Clusters
    <3>1. /\ SliceObjects \ w.fresh \subseteq pending
          /\ \A s \in Services :
                /\ w.store[s] = Absent => w.endpoints[s] = {}
                /\ SlicesOf(s) \subseteq w.fresh => w.endpoints[s] = EndpointsFor(w.store, slices)[s]
      BY <2>1 DEF Reads, ReadsSlices, w
    <3>. QED  BY <2>3, <3>1
  <2>8. SnapsBoth(q)'
    BY <1>1, <2>1, <2>2 DEF Reads, SnapsBoth, w
  <2>. QED  BY <2>4, <2>5, <2>6, <2>7, <2>8 DEF Reads
<1>. QED  BY <1>4, <1>5 DEF AloneInv

(* The events keep the invariant. *)
LEMMA EventFollows ==
  ASSUME WorkersInv, LabelsInv, AloneInv, Event  PROVE AloneInv'
<1>0. ASSUME NEW s \in Services  PROVE SlicesOf(s) \subseteq SlicesOf(s)'
  <2>. SUFFICES ASSUME NEW c \in Clusters, NEW e \in SliceNames, s \in labels[QueueOf(c)][e]
                PROVE  s \in labels'[QueueOf(c)][e]
    BY SMTT(30) DEF SlicesOf, SliceObjects, Clusters, QueueOf
  <2>. QED  BY LabelsGrow DEF Next, QueueOf
<1>1. ASSUME NEW c \in Clusters, NEW e \in SliceNames, NEW value, EndpointSliceEvent(c, e, value)
      PROVE  AloneInv'
  <2>. DEFINE o == <<"slice", c, e>>
  <2>1. o \in AllObjects /\ \A s : s \in labels'[QueueOf(c)][e] => o \in SlicesOf(s)'
    BY SMTT(30) DEF AllObjects, SliceObjects, SlicesOf, QueueOf, Clusters
  <2>2. Changed("slice", o) /\ UNCHANGED <<labelled, services, xdsServices>>
    BY <1>1 DEF EndpointSliceEvent
  <2>3. slices' = [slices EXCEPT ![c][e] = value]
        /\ slices \in [Clusters -> [SliceNames -> SliceValues \cup {Absent}]]
    BY <1>1 DEF EndpointSliceEvent, WorkersInv, TypeOK
  <2>4. slices[c][e] # Absent => slices[c][e].service \in labels'[QueueOf(c)][e]
    BY LabelsGrow DEF LabelsInv, QueueOf, Next
  <2>5. value # Absent => value.service \in labels'[QueueOf(c)][e]
    <3>1. LabelsInv'
      BY EventLabels
    <3>2. slices'[c][e] = value
      BY <2>3
    <3>. QED  BY <3>1, <3>2 DEF LabelsInv, QueueOf, Clusters
  <2>. HIDE DEF o
  <2>6. ASSUME NEW s \in Services, NEW store, o \notin SlicesOf(s)'
        PROVE  EndpointsFor(store, slices')[s] = EndpointsFor(store, slices)[s]
    <3>1. s \notin labels'[QueueOf(c)][e]
      BY <2>1, <2>6
    <3>2. \A d \in Clusters, f \in SliceNames :
            \/ slices'[d][f] = slices[d][f]
            \/ d = c /\ f = e /\ slices'[d][f] = value
      BY <2>3, SMTT(30)
    <3>3. \A d \in Clusters, f \in SliceNames :
            \/ slices'[d][f] = slices[d][f]
            \/ /\ ~(slices'[d][f] # Absent /\ slices'[d][f].service = s)
               /\ ~(slices[d][f] # Absent /\ slices[d][f].service = s)
      BY <2>4, <2>5, <3>1, <3>2, SMTT(30)
    <3>. QED  BY <3>3, EndpointsForFact, SMTT(30)
  <2>. QED  BY <1>0, <2>1, <2>2, <2>6, ChangeFollows
<1>2. ASSUME NEW x \in XdsNames, NEW value, XdsServiceEvent(x, value)
      PROVE  AloneInv'
  <2>1. <<"xds", x>> \in AllObjects /\ <<"xds", x>> \in StoreObjects
    BY DEF AllObjects, StoreObjects, XdsObjects
  <2>2. Changed("xds", <<"xds", x>>) /\ UNCHANGED <<labelled, services, slices>>
    BY <1>2 DEF XdsServiceEvent
  <2>. QED  BY <1>0, <2>1, <2>2, ChangeFollows
<1>3. ASSUME NEW s \in Services, NEW value, LabelledServiceEvent(s, value)
      PROVE  AloneInv'
  <2>1. <<"labelled", s>> \in AllObjects /\ <<"labelled", s>> \in LabelledObjects /\ LabelledObjects \subseteq StoreObjects
    BY DEF AllObjects, StoreObjects, LabelledObjects
  <2>2. Changed("labelled", <<"labelled", s>>) /\ UNCHANGED slices
    BY <1>3 DEF LabelledServiceEvent
  <2>. QED  BY <1>0, <2>1, <2>2, ChangeFollows
<1>4. ASSUME NEW s \in Services, NEW value, ServiceEvent(s, value)
      PROVE  AloneInv'
  <2>1. <<"service", s>> \in AllObjects /\ <<"service", s>> \in StoreObjects
    BY DEF AllObjects, StoreObjects, ServiceObjects
  <2>2. Changed("service", <<"service", s>>) /\ UNCHANGED <<labelled, slices>>
    BY <1>4 DEF ServiceEvent
  <2>. QED  BY <1>0, <2>1, <2>2, ChangeFollows
<1>. QED  BY <1>1, <1>2, <1>3, <1>4 DEF Event

(* While one worker steps, the others are idle and have read nothing. *)
LEMMA OthersIdle ==
  ASSUME AloneInv, Alone, Alone', NEW q \in Queues, NEW pc, NEW key, NEW mode, NEW fresh,
         Steps(q, pc, key, mode, fresh), worker[q].pc # "idle" \/ pc # "idle", Follows', Reads(q)'
  PROVE  AloneInv'
<1>1. ASSUME NEW p \in Queues \ {q}  PROVE Reads(p)'
  <2>1. worker'[p] = worker[p] /\ worker'[q].pc = pc
    BY DEF Steps
  <2>2. worker[p].pc = "idle"
    BY <2>1 DEF Alone, Overlap
  <2>3. worker[p].fresh = {}
    BY <2>2 DEF AloneInv, Reads, ReadsKey
  <2>. QED  BY <2>1, <2>2, <2>3 DEF Reads, ReadsKey, ReadsLabelled, ReadsStore, ReadsSlices, SnapsBoth
<1>. QED  BY <1>1 DEF AloneInv

(* A worker that has ended, or not begun to list, knows nothing that could be outdated. *)
LEMMA NothingRead ==
  ASSUME NEW q \in Queues, NEW pc \in {"idle", "lookup"}, NEW key, NEW mode, Steps(q, pc, key, mode, {})
  PROVE  Reads(q)'
  BY DEF Steps, Reads, ReadsKey, ReadsLabelled, ReadsStore, ReadsSlices, SnapsBoth

(* What is published and pending is left alone. *)
LEMMA SameFollows ==
  ASSUME Follows, UNCHANGED <<labelled, xdsServices, services, slices, labels, pubServices, pubEndpoints, pending>>
  PROVE  Follows'
<1>1. Stored(pubServices)' = Stored(pubServices)
  BY DEF Stored
<1>2. \A s \in Services : PublishedOf(s)' = PublishedOf(s)
  BY SMTT(30) DEF PublishedOf, SlicesOf, SliceObjects, Clusters, QueueOf
<1>3. (pending \cap StoreObjects)' = pending \cap StoreObjects
  BY SMTT(30) DEF StoreObjects, LabelledObjects, XdsObjects, ServiceObjects
<1>. QED  BY <1>1, <1>2, <1>3 DEF Follows

(* Taking a key, looking it up, listing the labelled Services, and failing. *)
LEMMA BeginFollows ==
  ASSUME WorkersInv, AloneInv, Alone, Alone', NEW q \in Queues,
         (\E k \in owed[q] : Take(q, k)) \/ Lookup(q) \/ ListLabelled(q) \/ ReconcileError(q)
  PROVE  AloneInv'
<1>1. Follows' /\ Reads(q)
  <2>1. UNCHANGED <<labelled, xdsServices, services, slices, labels, pubServices, pubEndpoints, pending>>
    BY DEF Take, Lookup, ListLabelled, ReconcileError, caches, published
  <2>. QED  BY <2>1, SameFollows DEF AloneInv
<1>2. ASSUME NEW k \in owed[q], Take(q, k)  PROVE AloneInv'
  <2>1. worker[q].pc = "idle" /\ worker[q].fresh = {}
    BY <1>1, <1>2 DEF Take, Reads, ReadsKey
  <2>2. Steps(q, IF q \in {"service", "crd"} THEN "labelled" ELSE "lookup", k, worker[q].mode, {})
    BY <1>2, <2>1, TakeFact
  <2>3. Reads(q)'
    BY <2>2 DEF Steps, Reads, ReadsKey, ReadsLabelled, ReadsStore, ReadsSlices, SnapsBoth
  <2>. QED  BY <1>1, <2>2, <2>3, OthersIdle
<1>3. CASE Lookup(q)
  <2>. DEFINE fresh == {<<"slice", c, worker[q].key>> : c \in Searched(q)}
  <2>1. PICK mode : Steps(q, "labelled", worker[q].key, mode, fresh)
    BY <1>3, LookupFact
  <2>3. Reads(q)'
    BY <2>1 DEF Steps, Reads, ReadsKey, ReadsLabelled, ReadsStore, ReadsSlices, SnapsBoth, Searched
  <2>. QED  BY <1>1, <2>1, <2>3, OthersIdle
<1>4. CASE ListLabelled(q)
  <2>1. Steps(q, "xds", worker[q].key, worker[q].mode, worker[q].fresh \cup LabelledObjects)
    BY <1>4, ListLabelledFact
  <2>2. worker[q].pc = "labelled" /\ worker'[q].labelled = labelled /\ labelled' = labelled
    BY <1>4, SMTT(30) DEF ListLabelled, caches, WorkersInv, TypeOK, WorkerState
  <2>3. (worker[q].fresh \cup LabelledObjects) \cap SliceObjects \subseteq {<<"slice", c, worker[q].key>> : c \in Searched(q)}
    BY <1>1, <2>2, KindsDiffer DEF Reads, ReadsKey
  <2>4. ReadsKey(q)'
    BY <2>1, <2>3, SMTT(30) DEF Steps, ReadsKey, SliceObjects, Clusters, Searched
  <2>5. ReadsLabelled(q)'
    BY <2>1, <2>2 DEF Steps, ReadsLabelled, LabelledObjects
  <2>6. Reads(q)'
    BY <2>1, <2>4, <2>5 DEF Steps, Reads, ReadsStore, ReadsSlices, SnapsBoth
  <2>. QED  BY <1>1, <2>1, <2>6, OthersIdle
<1>5. CASE ReconcileError(q)
  <2>1. Steps(q, "idle", Absent, "all", {}) /\ worker[q].pc # "idle"
    BY <1>5, IdleFact DEF ReconcileError
  <2>2. Reads(q)'
    BY <2>1, NothingRead
  <2>. QED  BY <1>1, <2>1, <2>2, OthersIdle
<1>. QED  BY <1>2, <1>3, <1>4, <1>5

(***************************************************************************)
(* The store is made of the list of XdsServices.  Where the filter of      *)
(* needToReconcileEndpointSlice ends the reconciliation, the Service of    *)
(* the slice has nothing published, or a change that makes it so, or a     *)
(* change that brings it back, is pending.                                 *)
(***************************************************************************)
LEMMA ListXdsServicesFollows ==
  ASSUME WorkersInv, LabelsInv, AloneInv, Alone, Alone', NEW q \in Queues, ListXdsServices(q)
  PROVE  AloneInv'
<1>. DEFINE w == worker[q]
            k == worker[q].key
<1>1. PICK store \in ServiceStore :
        /\ \A s \in Services : store[s] \in Entries(w.labelled, xdsServices, services, s)
        /\ \/ /\ w.mode = "slice"
              /\ w.parent \in Services => store[w.parent] = Absent
              /\ Steps(q, "idle", Absent, "all", {})
              /\ pending' = IF k \in Relabelled(q) THEN pending ELSE pending \ (w.fresh \cap SliceObjects)
           \/ /\ Steps(q, IF w.mode = "endpoints" THEN "slices" ELSE "snapServices",
                       k, w.mode, w.fresh \cup XdsObjects \cup ServiceObjects)
              /\ worker'[q].store = store
              /\ UNCHANGED pending
  BY ListXdsServicesFact
<1>2. /\ w.pc = "xds" /\ Reads(q)
      /\ UNCHANGED <<labelled, services, xdsServices, slices, labels, pubServices, pubEndpoints>>
  BY DEF ListXdsServices, caches, published, AloneInv
<1>3. /\ LabelledObjects \ w.fresh \subseteq pending
      /\ LabelledObjects \subseteq w.fresh => Stored(store)
      /\ w.fresh \cap SliceObjects \subseteq {<<"slice", c, k>> : c \in Searched(q)}
  BY <1>1, <1>2 DEF Reads, ReadsLabelled, ReadsKey, Stored
<1>4. w.mode = "slice" =>
        q \in {"local", "remote"} /\ k \in SliceNames /\ w.parent \in labels[q][k]
  BY <1>2 DEF LabelsInv, WorkersInv, KeysOf, Queues
<1>. HIDE DEF w
<1>5. ASSUME w.mode = "slice", w.parent \in Services => store[w.parent] = Absent, k \notin Relabelled(q),
             Steps(q, "idle", Absent, "all", {}), pending' = pending \ (w.fresh \cap SliceObjects)
      PROVE  AloneInv'
  <2>1. Reads(q)'
    BY <1>5, NothingRead
  <2>2. ASSUME pending' \cap StoreObjects = {}
        PROVE  Stored(pubServices)' /\ \A s \in Services : PublishedOf(s)'
    <3>1. pending \cap StoreObjects = {}
      BY <1>5, <2>2, KindsDiffer
    <3>2. Stored(pubServices) /\ \A s \in Services : PublishedOf(s)
      BY <3>1 DEF AloneInv, Follows
    <3>3. LabelledObjects \subseteq w.fresh
      BY <1>3, <3>1, KindsDiffer
    <3>4. pubServices = store
      BY <1>3, <3>2, <3>3, OneEntry DEF Alone, WorkersInv, TypeOK
    <3>5. Stored(pubServices)'
      BY <1>2, <3>2 DEF Stored
    <3>6. ASSUME NEW s \in Services  PROVE PublishedOf(s)'
      <4>1. CASE s \in labels[q][k]
        <5>1. w.parent = s
          BY <1>4, <1>5, <4>1 DEF Relabelled
        <5>2. pubServices[s] = Absent /\ pubEndpoints[s] = {}
          BY <1>5, <3>2, <3>4, <5>1 DEF PublishedOf
        <5>. QED  BY <1>2, <5>2, EndpointsForFact DEF PublishedOf
      <4>2. CASE s \notin labels[q][k]
        <5>1. \A c \in Searched(q) : QueueOf(c) = q
          BY <1>4, <1>5, ControllerAssumption DEF Searched, QueueOf
        <5>2. \A c \in Searched(q) : <<"slice", c, k>> \notin SlicesOf(s)
          BY <4>2, <5>1, SMTT(30) DEF SlicesOf
        <5>0. w.fresh \cap SliceObjects \cap SlicesOf(s) = {}
          BY <1>3, <5>2, SMTT(30)
        <5>3. pending' \cap SlicesOf(s) = {} => pending \cap SlicesOf(s) = {}
          BY <1>5, <5>0
        <5>4. pending' \cap SlicesOf(s) = {} => pubEndpoints[s] = EndpointsFor(pubServices, slices)[s]
          BY <3>2, <5>3 DEF PublishedOf
        <5>5. pubServices[s] = Absent => pubEndpoints[s] = {}
          BY <3>2 DEF PublishedOf
        <5>. QED  BY <1>2, <5>4, <5>5, SMTT(30) DEF PublishedOf, SlicesOf
      <4>. QED  BY <4>1, <4>2
    <3>. QED  BY <3>5, <3>6
  <2>3. Follows'
    BY <2>2 DEF Follows, StoreObjects, LabelledObjects, XdsObjects, ServiceObjects
  <2>. QED  BY <1>2, <1>5, <2>1, <2>3, OthersIdle DEF w
<1>6. ASSUME Steps(q, "idle", Absent, "all", {}), UNCHANGED pending  PROVE AloneInv'
  <2>1. Reads(q)'
    BY <1>6, NothingRead
  <2>2. Follows'
    BY <1>2, <1>6, SameFollows DEF AloneInv
  <2>. QED  BY <1>2, <1>6, <2>1, <2>2, OthersIdle DEF w
<1>7. ASSUME Steps(q, IF w.mode = "endpoints" THEN "slices" ELSE "snapServices",
                   k, w.mode, w.fresh \cup XdsObjects \cup ServiceObjects),
             worker'[q].store = store, UNCHANGED pending
      PROVE  AloneInv'
  <2>1. Follows'
    BY <1>2, <1>7, SameFollows DEF AloneInv
  <2>2. StoreObjects \ (w.fresh \cup XdsObjects \cup ServiceObjects) \subseteq pending
    BY <1>3 DEF StoreObjects
  <2>3. StoreObjects \subseteq w.fresh \cup XdsObjects \cup ServiceObjects => Stored(store)
    BY <1>3, KindsDiffer
  <2>4. Stored(store)' = Stored(store)
    BY <1>2 DEF Stored
  <2>5. ReadsStore(q)'
    BY <1>7, <2>2, <2>3, <2>4, SMTT(30) DEF ReadsStore, Steps, Stored
  <2>6. Reads(q)'
    BY <1>7, <2>5 DEF Steps, Reads, ReadsKey, ReadsLabelled, ReadsSlices, SnapsBoth
  <2>. QED  BY <1>2, <1>7, <2>1, <2>6, OthersIdle DEF w
<1>. QED  BY <1>1, <1>5, <1>6, <1>7

(* SnapServices changes what is published only if a change is pending. *)
LEMMA SnapServicesFollows ==
  ASSUME WorkersInv, AloneInv, Alone, Alone', NEW q \in Queues, SnapServices(q)
  PROVE  AloneInv'
<1>. DEFINE w == worker[q]
<1>1. Steps(q, "slices", w.key, w.mode, w.fresh)
  BY SnapServicesFact
<1>2. /\ w.pc = "snapServices" /\ pubServices' = w.store /\ Reads(q) /\ w.store \in ServiceStore
      /\ UNCHANGED <<labelled, services, xdsServices, slices, labels, pubEndpoints, pending>>
  BY DEF SnapServices, caches, AloneInv, WorkersInv, TypeOK, WorkerState
<1>3. worker'[q].store = w.store
  BY SMTT(30) DEF SnapServices, WorkersInv, TypeOK, WorkerState
<1>4. /\ StoreObjects \ w.fresh \subseteq pending
      /\ StoreObjects \subseteq w.fresh => Stored(w.store)
  BY <1>2 DEF Reads, ReadsStore
<1>. HIDE DEF w
<1>5. Follows'
  <2>1. CASE pending \cap StoreObjects = {}
    <3>1. Stored(pubServices) /\ Stored(w.store)
      BY <1>4, <2>1 DEF AloneInv, Follows
    <3>2. pubServices' = pubServices
      BY <1>2, <3>1, OneEntry DEF Alone, WorkersInv, TypeOK
    <3>. QED  BY <1>2, <3>2, SameFollows DEF AloneInv
  <2>2. CASE pending \cap StoreObjects # {}
    BY <1>2, <2>2 DEF Follows, StoreObjects, LabelledObjects, XdsObjects, ServiceObjects
  <2>. QED  BY <2>1, <2>2
<1>6. ReadsStore(q)'
  <2>1. Stored(worker[q].store)' = Stored(w.store)
    BY <1>2, <1>3 DEF Stored
  <2>. QED  BY <1>1, <1>2, <1>4, <2>1 DEF ReadsStore, Steps, StoreObjects, LabelledObjects, XdsObjects, ServiceObjects
<1>7. Reads(q)'
  BY <1>1, <1>2, <1>3, <1>6 DEF Steps, Reads, ReadsKey, ReadsLabelled, ReadsSlices, SnapsBoth
<1>. QED  BY <1>1, <1>5, <1>7, OthersIdle

(* The list of slices is what the caches say. *)
LEMMA ListEndpointSlicesFollows ==
  ASSUME WorkersInv, AloneInv, Alone, Alone', NEW q \in Queues, ListEndpointSlices(q)
  PROVE  AloneInv'
<1>. DEFINE w == worker[q]
<1>1. Steps(q, "snapEndpoints", w.key, w.mode, w.fresh \cup SliceObjects)
  BY ListEndpointSlicesFact
<1>2. /\ w.pc = "slices" /\ Reads(q)
      /\ UNCHANGED <<labelled, services, xdsServices, slices, labels, pubServices, pubEndpoints, pending>>
  BY DEF ListEndpointSlices, caches, published, AloneInv
<1>3. worker'[q].store = w.store /\ worker'[q].endpoints = EndpointsFor(w.store, slices)
  BY SMTT(30) DEF ListEndpointSlices, WorkersInv, TypeOK, WorkerState
<1>4. /\ StoreObjects \ w.fresh \subseteq pending
      /\ StoreObjects \subseteq w.fresh => Stored(w.store)
  BY <1>2 DEF Reads, ReadsStore
<1>5. SnapsBoth(q)'
  BY <1>1, <1>2, <1>3 DEF Reads, SnapsBoth, Steps
<1>. HIDE DEF w
<1>6. Follows'
  BY <1>2, SameFollows DEF AloneInv
<1>7. ReadsStore(q)'
  <2>1. Stored(worker[q].store)' = Stored(w.store)
    BY <1>2, <1>3 DEF Stored
  <2>2. /\ StoreObjects \ (w.fresh \cup SliceObjects) \subseteq pending
        /\ StoreObjects \subseteq w.fresh \cup SliceObjects => Stored(w.store)
    BY <1>4, KindsDiffer
  <2>. QED  BY <1>1, <1>2, <2>1, <2>2, SMTT(30) DEF ReadsStore, Steps
<1>8. ReadsSlices(q)'
  BY <1>1, <1>2, <1>3, EndpointsForFact, SMTT(30) DEF ReadsSlices, Steps
<1>9. Reads(q)'
  BY <1>1, <1>5, <1>7, <1>8 DEF Steps, Reads, ReadsKey, ReadsLabelled
<1>. QED  BY <1>1, <1>6, <1>9, OthersIdle

(***************************************************************************)
(* SnapEndpoints leaves pending what has changed since it was read, and    *)
(* publishes what the caches say of everything else.                       *)
(***************************************************************************)
LEMMA SnapEndpointsFollows ==
  ASSUME WorkersInv, AloneInv, Alone, Alone', NEW q \in Queues, SnapEndpoints(q)
  PROVE  AloneInv'
<1>. DEFINE w == worker[q]
<1>1. /\ w.pc = "snapEndpoints" /\ pubEndpoints' = w.endpoints /\ Reads(q) /\ w.store \in ServiceStore
      /\ pending' = pending \ (IF w.mode = "endpoints" THEN w.fresh \cap SliceObjects ELSE w.fresh)
      /\ UNCHANGED <<labelled, services, xdsServices, slices, labels, pubServices>>
  BY DEF SnapEndpoints, caches, AloneInv, WorkersInv, TypeOK, WorkerState
<1>2. Steps(q, "idle", Absent, "all", {})
  BY IdleFact DEF SnapEndpoints
<1>3. /\ StoreObjects \ w.fresh \subseteq pending
      /\ StoreObjects \subseteq w.fresh => Stored(w.store)
      /\ SliceObjects \ w.fresh \subseteq pending
      /\ \A s \in Services :
           /\ w.store[s] = Absent => w.endpoints[s] = {}
           /\ SlicesOf(s) \subseteq w.fresh => w.endpoints[s] = EndpointsFor(w.store, slices)[s]
      /\ w.mode # "endpoints" => pubServices = w.store
  BY <1>1 DEF Reads, ReadsStore, ReadsSlices, SnapsBoth
<1>4. ASSUME NEW X, X \ w.fresh \subseteq pending, pending' \cap X = {}  PROVE X \subseteq w.fresh
  BY <1>1, <1>4
<1>5. w.mode = "endpoints" /\ pending' \cap StoreObjects = {} => pending \cap StoreObjects = {}
  BY <1>1, KindsDiffer
<1>. HIDE DEF w
<1>6. ASSUME pending' \cap StoreObjects = {}
      PROVE  Stored(pubServices)' /\ \A s \in Services : PublishedOf(s)'
  <2>1. Stored(w.store)
    BY <1>3, <1>4, <1>6
  <2>2. pubServices = w.store
    <3>1. w.mode = "endpoints" => Stored(pubServices)
      BY <1>5, <1>6 DEF AloneInv, Follows
    <3>. QED  BY <1>1, <1>3, <2>1, <3>1, OneEntry DEF Alone, WorkersInv, TypeOK
  <2>3. Stored(pubServices)'
    BY <1>1, <2>1, <2>2 DEF Stored
  <2>4. ASSUME NEW s \in Services  PROVE PublishedOf(s)'
    <3>1. pending' \cap SlicesOf(s) = {} => SlicesOf(s) \subseteq w.fresh
      BY <1>3, <1>4, KindsDiffer
    <3>2. /\ pubServices[s] = Absent => w.endpoints[s] = {}
          /\ pending' \cap SlicesOf(s) = {} => w.endpoints[s] = EndpointsFor(pubServices, slices)[s]
      BY <1>3, <2>2, <3>1
    <3>. QED  BY <1>1, <3>2, SMTT(30) DEF PublishedOf, SlicesOf
  <2>. QED  BY <2>3, <2>4
<1>7. Follows'
  BY <1>6 DEF Follows, StoreObjects, LabelledObjects, XdsObjects, ServiceObjects
<1>8. Reads(q)'
  BY <1>2, NothingRead
<1>. QED  BY <1>1, <1>2, <1>7, <1>8, OthersIdle DEF w

(* The step of a worker that steps alone keeps the invariant. *)
LEMMA WorkerFollows ==
  ASSUME WorkersInv, LabelsInv, AloneInv, Alone, Alone', NEW q \in Queues, WorkerStep(q)
  PROVE  AloneInv'
  BY BeginFollows, ListXdsServicesFollows, SnapServicesFollows, ListEndpointSlicesFollows,
     SnapEndpointsFollows DEF WorkerStep

(***************************************************************************)
(* As long as no two workers reconcile at the same time, and XdsServices   *)
(* for the same Service agree, everything that is published is what the    *)
(* caches say whenever the queues are empty and the workers idle, for any  *)
(* objects and clusters, any changes between the reads and publications of *)
(* snapAll and snapEndpoints, and any errors between them.  The changes of *)
(* Services, that no handler sees, and of slices that do not keep their    *)
(* label, that needToReconcileEndpointSlice may ignore, are excepted until *)
(* a later publication takes them up.                                      *)
(***************************************************************************)
THEOREM UpToDateAtRest ==
  Spec /\ []Alone => [](AtRest /\ pending \cap Excused = {} => UpToDate)
<1>1. Init => AloneInv
  <2>. SUFFICES ASSUME Init PROVE AloneInv
    OBVIOUS
  <2>1. \A s \in Services : pubServices[s] = Absent /\ pubEndpoints[s] = {}
    BY DEF Init, NoServices, NoEndpoints
  <2>2. \A s \in Services : Entries(labelled, xdsServices, services, s) = {Absent}
    BY DEF Init, NoServices, Entries, Selecting
  <2>3. Follows
    BY <2>1, <2>2, EndpointsForFact DEF Follows, Stored, PublishedOf
  <2>4. \A q \in Queues : worker[q].pc = "idle" /\ worker[q].fresh = {}
    BY DEF Init, IdleWorker
  <2>. QED  BY <2>3, <2>4 DEF AloneInv, Reads, ReadsKey, ReadsLabelled, ReadsStore, ReadsSlices, SnapsBoth
<1>2. WorkersInv /\ LabelsInv /\ AloneInv /\ Alone /\ Alone' /\ [Next]_vars => AloneInv'
  <2>. SUFFICES ASSUME WorkersInv, LabelsInv, AloneInv, Alone, Alone', [Next]_vars PROVE AloneInv'
    OBVIOUS
  <2>1. CASE UNCHANGED vars
    <3>1. UNCHANGED <<labelled, xdsServices, services, slices, labels, pubServices, pubEndpoints, pending, worker>>
      BY <2>1 DEF vars, caches, published
    <3>2. Follows'
      BY <3>1, SameFollows DEF AloneInv
    <3>3. ASSUME NEW q \in Queues  PROVE Reads(q)'
      <4>1. Reads(q)
        BY DEF AloneInv
      <4>. QED  BY <3>1, <4>1 DEF Reads, ReadsKey, ReadsLabelled, ReadsStore, ReadsSlices, SnapsBoth, Stored, SlicesOf
    <3>. QED  BY <3>2, <3>3 DEF AloneInv
  <2>. QED  BY <2>1, EventFollows, WorkerFollows DEF Next
<1>3. WorkersInv /\ AloneInv /\ NothingPendingAtRest => (AtRest /\ pending \cap Excused = {} => UpToDate)
  <2>. SUFFICES ASSUME WorkersInv, AloneInv, NothingPendingAtRest, AtRest, pending \cap Excused = {}
                PROVE  UpToDate
    OBVIOUS
  <2>1. pending = {}
    BY DEF NothingPendingAtRest, HandledObjects, Excused, WorkersInv, TypeOK
  <2>2. Stored(pubServices) /\ \A s \in Services : pubEndpoints[s] = EndpointsFor(pubServices, slices)[s]
    BY <2>1 DEF AloneInv, Follows, PublishedOf
  <2>3. pubEndpoints \in EndpointsStore /\ EndpointsFor(pubServices, slices) \in EndpointsStore
    BY EndpointsForType DEF WorkersInv, TypeOK
  <2>4. pubEndpoints = EndpointsFor(pubServices, slices)
    BY <2>2, <2>3, SMTT(30) DEF EndpointsStore
  <2>. QED  BY <2>2, <2>4 DEF UpToDate, Stored
<1>. QED  BY <1>1, <1>2, <1>3, WorkersInvariance, LabelsInvariance, NoChangeIsLost, PTL DEF Spec

-----------------------------------------------------------------------------
(* The metrics collector *)

(* What the caches keep: nothing is cached without a version or a node *)
CacheInv ==
  /\ nodes \subseteq NodeIDs
  /\ versions \in [CacheIDs -> [Families -> Nat]]
  /\ contents \in [CacheIDs -> [Families -> SUBSET Resources]]
  /\ \A n \in CacheIDs, f \in Families : versions[n][f] = 0 => contents[n][f] = {}
  /\ \A n \in NodeIDs, f \in Families : versions[n][f] # 0 => n \in nodes

(* Outside a scrape nothing is reported; in its last phase no node is left *)
PhaseInv ==
  /\ scrape.phase = "idle" => reported = {} /\ changed = {}
  /\ scrape.phase # "idle" => WithoutServices \subseteq lacked
  /\ scrape.phase = "nodes" => scrape.todo = {}

(***************************************************************************)
(* A snapshot that has not changed is reported, or its node is still to    *)
(* come; the services of the present node are reported.                    *)
(***************************************************************************)
ProgressInv ==
  \A n \in CacheIDs \ lacked, f \in Families :
    scrape.phase # "idle" /\ <<n, f>> \notin changed =>
      \/ ReportedOf(n, f) = contents[n][f]
      \/ /\ n \in scrape.todo
         /\ ~(scrape.phase = "endpoints" /\ scrape.node = n /\ f = "services")

CollectorInv ==
  CollectorTypeOK /\ CacheInv /\ PhaseInv /\ ReportsOneSnapshot /\ ProgressInv

-----------------------------------------------------------------------------
(* The caches *)

(* What a SetSnapshots keeps: provided that its ids are cached under nodes. *)
LEMMA SetSnapshotsInv ==
  ASSUME CacheInv, NEW N \in SUBSET (nodes \cup {EmptyNodeID}), NEW F \in SUBSET Families,
         SetSnapshots(N, F)
  PROVE  CacheInv'
<1>1. /\ nodes' = nodes
      /\ versions' \in [CacheIDs -> [Families -> Nat]]
      /\ contents' \in [CacheIDs -> [Families -> SUBSET Resources]]
  BY CacheAssumption DEF SetSnapshots, CacheInv
<1>2. \A n \in CacheIDs, f \in Families :
        IF n \in N /\ f \in F
        THEN versions'[n][f] = versions[n][f] + 1
        ELSE versions'[n][f] = versions[n][f] /\ contents'[n][f] = contents[n][f]
  BY DEF SetSnapshots
<1>3. \A n \in CacheIDs, f \in Families : versions[n][f] + 1 # 0
  BY SMTT(30) DEF CacheInv
<1>4. \A n \in CacheIDs, f \in Families : versions'[n][f] = 0 => contents'[n][f] = {}
  BY <1>2, <1>3, SMTT(30) DEF CacheInv
<1>5. \A n \in NodeIDs, f \in Families : versions'[n][f] # 0 => n \in nodes'
  BY <1>1, <1>2, CacheAssumption, SMTT(30) DEF CacheInv, CacheIDs
<1>. QED  BY <1>1, <1>4, <1>5 DEF CacheInv

(***************************************************************************)
(* Every step of the caches keeps CacheInv, and changes the contents of a  *)
(* snapshot only together with its version.                                *)
(***************************************************************************)
LEMMA CacheNextFact ==
  ASSUME CacheInv, CacheNext
  PROVE  /\ CacheInv'
         /\ \A n \in CacheIDs, f \in Families :
              versions'[n][f] = versions[n][f] => contents'[n][f] = contents[n][f]
<1>1. ASSUME NEW N \in SUBSET (nodes \cup {EmptyNodeID}), NEW F \in SUBSET Families,
             SetSnapshots(N, F)
      PROVE  /\ CacheInv'
             /\ \A n \in CacheIDs, f \in Families :
                  versions'[n][f] = versions[n][f] => contents'[n][f] = contents[n][f]
  <2>1. \A n \in CacheIDs, f \in Families : versions[n][f] + 1 # versions[n][f]
    BY SMTT(30) DEF CacheInv
  <2>2. CacheInv'
    BY <1>1, SetSnapshotsInv
  <2>3. \A n \in CacheIDs, f \in Families :
          versions'[n][f] = versions[n][f] => contents'[n][f] = contents[n][f]
    BY <1>1, <2>1 DEF SetSnapshots
  <2>. QED  BY <2>2, <2>3
<1>2. ASSUME NEW n \in NodeIDs, Register(n)
      PROVE  CacheInv' /\ contents' = contents
  BY <1>2 DEF Register, CacheInv
<1>3. ASSUME NEW n \in NodeIDs, Forget(n)
      PROVE  /\ CacheInv'
             /\ \A m \in CacheIDs, f \in Families :
                  versions'[m][f] = versions[m][f] => contents'[m][f] = contents[m][f]
  <2>1. n \in CacheIDs
    BY DEF CacheIDs
  <2>2. /\ versions' \in [CacheIDs -> [Families -> Nat]]
        /\ contents' \in [CacheIDs -> [Families -> SUBSET Resources]]
        /\ nodes' = nodes \ {n}
    BY <1>3, <2>1 DEF Forget, CacheInv
  <2>3. \A m \in CacheIDs, f \in Families :
          IF m = n THEN versions'[m][f] = 0 /\ contents'[m][f] = {}
          ELSE versions'[m][f] = versions[m][f] /\ contents'[m][f] = contents[m][f]
    BY <1>3, <2>1 DEF Forget, CacheInv
  <2>4. CacheInv'
    BY <2>2, <2>3, SMTT(30) DEF CacheInv, CacheIDs
  <2>5. \A m \in CacheIDs, f \in Families :
          versions'[m][f] = versions[m][f] => contents'[m][f] = contents[m][f]
    <3>1. \A f \in Families : versions[n][f] = 0 => contents[n][f] = {}
      BY <2>1 DEF CacheInv
    <3>. QED  BY <2>3, <3>1
  <2>. QED  BY <2>4, <2>5
<1>4. ASSUME NEW f \in Families, PublishFull(f) \/ PublishNodes(f)
      PROVE  \E N \in SUBSET (nodes \cup {EmptyNodeID}), F \in SUBSET Families : SetSnapshots(N, F)
  BY <1>4 DEF PublishFull, PublishNodes
<1>5. ASSUME NEW n \in NodeIDs, (\E f \in Families : Update(n, f)) \/ CloseStream(n)
      PROVE  \E N \in SUBSET (nodes \cup {EmptyNodeID}), F \in SUBSET Families : SetSnapshots(N, F)
  BY <1>5 DEF Update, CloseStream
<1>. QED  BY <1>1, <1>2, <1>3, <1>4, <1>5 DEF CacheNext

-----------------------------------------------------------------------------
(* What is reported *)

(* The series of a snapshot are reported for that snapshot only. *)
LEMMA ReportedFact ==
  ASSUME NEW n \in CacheIDs, NEW g \in Families, reported' = reported \cup SeriesOf(n, g),
         NEW m \in CacheIDs, NEW f \in Families
  PROVE  ReportedOf(m, f)' = IF m = n /\ f = g THEN ReportedOf(m, f) \cup contents[n][g]
                             ELSE ReportedOf(m, f)
<1>. DEFINE Of(S) == {s.resource : s \in {s \in S : s.node = m /\ s.family = f}}
<1>1. Of(reported \cup SeriesOf(n, g)) = Of(reported) \cup Of(SeriesOf(n, g))
  OBVIOUS
<1>2. Of(SeriesOf(n, g)) = IF m = n /\ f = g THEN contents[n][g] ELSE {}
  <2>1. \A s \in SeriesOf(n, g) : s.node = n /\ s.family = g /\ s.resource \in contents[n][g]
    BY SMTT(30) DEF SeriesOf
  <2>2. ASSUME NEW r \in contents[n][g]
        PROVE  \E s \in SeriesOf(n, g) : s.node = n /\ s.family = g /\ s.resource = r
    <3>1. [node |-> n, family |-> g, resource |-> r] \in SeriesOf(n, g)
      BY DEF SeriesOf
    <3>. QED  BY <3>1
  <2>3. CASE m = n /\ f = g
    <3>1. Of(SeriesOf(n, g)) \subseteq contents[n][g]
      BY <2>1
    <3>2. contents[n][g] \subseteq Of(SeriesOf(n, g))
      BY <2>2, <2>3
    <3>. QED  BY <2>3, <3>1, <3>2
  <2>4. CASE ~(m = n /\ f = g)
    <3>1. {s \in SeriesOf(n, g) : s.node = m /\ s.family = f} = {}
      BY <2>1, <2>4
    <3>. QED  BY <2>4, <3>1
  <2>. QED  BY <2>3, <2>4
<1>3. ReportedOf(m, f) = Of(reported) /\ ReportedOf(m, f)' = Of(reported')
  BY DEF ReportedOf
<1>. HIDE DEF Of
<1>. QED  BY <1>1, <1>2, <1>3

(* Reporting a whole snapshot keeps ReportsOneSnapshot. *)
LEMMA ReportKeepsWhole ==
  ASSUME ReportsOneSnapshot, NEW n \in CacheIDs, NEW g \in Families,
         reported' = reported \cup SeriesOf(n, g), UNCHANGED <<changed, contents>>
  PROVE  ReportsOneSnapshot'
<1>. SUFFICES ASSUME NEW m \in CacheIDs, NEW f \in Families, <<m, f>> \notin changed
              PROVE  ReportedOf(m, f)' \in {{}, contents[m][f]}
  BY DEF ReportsOneSnapshot
<1>1. ReportedOf(m, f) \in {{}, contents[m][f]}
  BY DEF ReportsOneSnapshot
<1>2. ReportedOf(m, f)' = IF m = n /\ f = g THEN ReportedOf(m, f) \cup contents[n][g]
                          ELSE ReportedOf(m, f)
  BY ReportedFact, SMTT(30)
<1>. QED  BY <1>1, <1>2

-----------------------------------------------------------------------------
(* The steps of the collector *)

(* A copy of the node ids has every node that can have a snapshot. *)
LEMMA StartCollectInv ==
  ASSUME CollectorInv, StartCollect, UNCHANGED cacheVars
  PROVE  CollectorInv'
<1>1. /\ scrape' = [phase |-> "services", todo |-> {EmptyNodeID} \cup nodes, node |-> EmptyNodeID]
      /\ lacked' = WithoutServices /\ scrape.phase = "idle"
      /\ UNCHANGED <<reported, changed, nodes, versions, contents>>
  BY DEF StartCollect, NodesMap, cacheVars
<1>2. CollectorTypeOK'
  BY <1>1 DEF CollectorInv, CollectorTypeOK, CacheInv, Scrape, CacheIDs, WithoutServices
<1>3. CacheInv' /\ PhaseInv' /\ ReportsOneSnapshot'
  BY <1>1 DEF CollectorInv, CacheInv, PhaseInv, ReportsOneSnapshot, ReportedOf,
              WithoutServices, HasSnapshot
<1>4. ProgressInv'
  <2>. SUFFICES ASSUME NEW n \in CacheIDs \ WithoutServices
                PROVE  n \in {EmptyNodeID} \cup nodes
    BY <1>1 DEF ProgressInv
  <2>1. versions[n]["services"] # 0
    BY DEF WithoutServices, HasSnapshot
  <2>. QED  BY <2>1, FamiliesAssumption DEF CollectorInv, CacheInv, CacheIDs
<1>. QED  BY <1>2, <1>3, <1>4 DEF CollectorInv

(* What a step keeps that reports one snapshot and goes on from there. *)
LEMMA ReportInv ==
  ASSUME CollectorInv, NEW n \in CacheIDs, NEW g \in Families, scrape.phase # "idle",
         reported' = reported \cup SeriesOf(n, g), UNCHANGED <<changed, lacked, cacheVars>>,
         scrape' \in Scrape, scrape'.phase # "idle",
         scrape'.phase = "nodes" => scrape'.todo = {}
  PROVE  CollectorTypeOK' /\ CacheInv' /\ PhaseInv' /\ ReportsOneSnapshot'
<1>1. contents[n][g] \subseteq Resources
  BY SMTT(30) DEF CollectorInv, CacheInv
<1>2. SeriesOf(n, g) \subseteq Series
  BY <1>1, SMTT(30) DEF SeriesOf, Series
<1>3. CollectorTypeOK'
  BY <1>2 DEF CollectorInv, CollectorTypeOK
<1>4. CacheInv' /\ PhaseInv'
  BY DEF CollectorInv, CacheInv, PhaseInv, cacheVars, WithoutServices, HasSnapshot
<1>5. ReportsOneSnapshot'
  BY ReportKeepsWhole DEF CollectorInv, cacheVars
<1>. QED  BY <1>3, <1>4, <1>5

(* After a snapshot is reported, no unchanged one is less reported than before. *)
LEMMA ReportedStays ==
  ASSUME CollectorInv, NEW n \in CacheIDs, NEW g \in Families,
         reported' = reported \cup SeriesOf(n, g), UNCHANGED <<changed, contents>>,
         NEW m \in CacheIDs, NEW f \in Families, <<m, f>> \notin changed,
         ReportedOf(m, f) = contents[m][f] \/ (m = n /\ f = g)
  PROVE  ReportedOf(m, f)' = contents[m][f]
<1>1. ReportedOf(m, f) \in {{}, contents[m][f]}
  BY DEF CollectorInv, ReportsOneSnapshot
<1>2. ReportedOf(m, f)' = IF m = n /\ f = g THEN ReportedOf(m, f) \cup contents[n][g]
                          ELSE ReportedOf(m, f)
  BY ReportedFact, SMTT(30)
<1>3. CASE m = n /\ f = g
  BY <1>1, <1>2, <1>3
<1>4. CASE ~(m = n /\ f = g)
  BY <1>2, <1>4
<1>. QED  BY <1>3, <1>4

(* AfterNode ends the loop when it has taken the last node. *)
LEMMA AfterNodeFact ==
  ASSUME CollectorInv, NEW n \in CacheIDs
  PROVE  /\ AfterNode(n) \in Scrape
         /\ AfterNode(n).phase \in {"services", "nodes"}
         /\ AfterNode(n).todo = scrape.todo \ {n}
         /\ AfterNode(n).phase = "nodes" => AfterNode(n).todo = {}
BY DEF AfterNode, CollectorInv, CollectorTypeOK, Scrape, CacheIDs

(* The services of a node are read from the snapshot that it has now. *)
LEMMA CollectServicesInv ==
  ASSUME CollectorInv, NEW n \in CacheIDs, CollectServices(n), UNCHANGED cacheVars
  PROVE  CollectorInv'
<1>1. /\ scrape.phase = "services" /\ n \in NextNodes(scrape.todo)
      /\ reported' = reported \cup SeriesOf(n, "services")
      /\ scrape' = IF HasSnapshot(n, "services")
                    THEN [scrape EXCEPT !.phase = "endpoints", !.node = n]
                    ELSE AfterNode(n)
      /\ UNCHANGED <<changed, lacked, nodes, versions, contents>>
  BY DEF CollectServices, cacheVars
<1>2. "services" \in Families /\ scrape \in Scrape
  BY FamiliesAssumption DEF CollectorInv, CollectorTypeOK
<1>3. /\ scrape' \in Scrape /\ scrape'.phase # "idle"
      /\ scrape'.phase = "nodes" => scrape'.todo = {}
  BY <1>1, <1>2, AfterNodeFact DEF Scrape
<1>4. CollectorTypeOK' /\ CacheInv' /\ PhaseInv' /\ ReportsOneSnapshot'
  BY <1>1, <1>2, <1>3, ReportInv
<1>5. ASSUME NEW m \in CacheIDs \ lacked, NEW f \in Families, <<m, f>> \notin changed
      PROVE  \/ ReportedOf(m, f)' = contents[m][f]
             \/ /\ m \in scrape'.todo
                /\ ~(scrape'.phase = "endpoints" /\ scrape'.node = m /\ f = "services")
  <2>1. ReportedOf(m, f) = contents[m][f] \/ (m = n /\ f = "services")
        => ReportedOf(m, f)' = contents[m][f]
    BY <1>1, <1>2, <1>5, ReportedStays, SMTT(30)
  <2>2. ReportedOf(m, f) = contents[m][f] \/ m \in scrape.todo
    BY <1>1, <1>5 DEF CollectorInv, ProgressInv
  <2>3. CASE HasSnapshot(n, "services")
    BY <1>1, <1>2, <2>1, <2>2, <2>3 DEF Scrape
  <2>4. CASE ~HasSnapshot(n, "services")
    <3>1. n \in lacked
      BY <1>1, <2>4 DEF CollectorInv, PhaseInv, WithoutServices
    <3>. QED  BY <1>1, <2>1, <2>2, <2>4, <3>1, AfterNodeFact, SMTT(30)
  <2>. QED  BY <2>3, <2>4
<1>6. ProgressInv'
  BY <1>1, <1>5 DEF ProgressInv
<1>. QED  BY <1>4, <1>6 DEF CollectorInv

(* The endpoints of a node are read from the snapshot that it has now. *)
LEMMA CollectEndpointsInv ==
  ASSUME CollectorInv, CollectEndpoints, UNCHANGED cacheVars
  PROVE  CollectorInv'
<1>. DEFINE n == scrape.node
<1>1. /\ scrape.phase = "endpoints"
      /\ reported' = reported \cup SeriesOf(n, "endpoints")
      /\ scrape' = AfterNode(n)
      /\ UNCHANGED <<changed, lacked, nodes, versions, contents>>
  BY DEF CollectEndpoints, cacheVars
<1>2. "endpoints" \in Families /\ n \in CacheIDs
  BY FamiliesAssumption DEF CollectorInv, CollectorTypeOK, Scrape
<1>3. /\ scrape' \in Scrape /\ scrape'.phase \in {"services", "nodes"}
      /\ scrape'.todo = scrape.todo \ {n}
      /\ scrape'.phase = "nodes" => scrape'.todo = {}
  BY <1>1, <1>2, AfterNodeFact
<1>4. CollectorTypeOK' /\ CacheInv' /\ PhaseInv' /\ ReportsOneSnapshot'
  BY <1>1, <1>2, <1>3, ReportInv
<1>5. ASSUME NEW m \in CacheIDs \ lacked, NEW f \in Families, <<m, f>> \notin changed
      PROVE  ReportedOf(m, f)' = contents[m][f] \/ m \in scrape'.todo
  <2>1. ReportedOf(m, f) = contents[m][f] \/ (m = n /\ f = "endpoints")
        => ReportedOf(m, f)' = contents[m][f]
    BY <1>1, <1>2, <1>5, ReportedStays, SMTT(30)
  <2>2. \/ ReportedOf(m, f) = contents[m][f]
        \/ m \in scrape.todo /\ ~(m = n /\ f = "services")
    BY <1>1, <1>5 DEF CollectorInv, ProgressInv
  <2>3. f = "services" \/ f = "endpoints"
    BY FamiliesAssumption
  <2>. QED  BY <1>3, <2>1, <2>2, <2>3
<1>6. ProgressInv'
  BY <1>1, <1>3, <1>5 DEF ProgressInv
<1>. QED  BY <1>4, <1>6 DEF CollectorInv

(* The end of a scrape leaves nothing of it. *)
LEMMA CollectNodesInv ==
  ASSUME CollectorInv, CollectNodes, UNCHANGED cacheVars
  PROVE  CollectorInv'
<1>1. /\ scrape' = NoScrape /\ NoScrape \in Scrape /\ NoScrape.phase = "idle"
      /\ reported' = {} /\ changed' = {} /\ lacked' = {}
      /\ UNCHANGED <<nodes, versions, contents>>
  BY DEF CollectNodes, cacheVars, NoScrape, Scrape, CacheIDs
<1>2. ReportsOneSnapshot'
  BY <1>1 DEF ReportsOneSnapshot, ReportedOf
<1>. QED  BY <1>1, <1>2 DEF CollectorInv, CollectorTypeOK, CacheInv, PhaseInv, ProgressInv

-----------------------------------------------------------------------------
(* The steps of the snapshotter between two reads: what it replaces is in changed. *)
LEMMA SnapshotterStepInv ==
  ASSUME CollectorInv, SnapshotterStep
  PROVE  CollectorInv'
<1>1. /\ CacheInv'
      /\ \A n \in CacheIDs, f \in Families :
           versions'[n][f] = versions[n][f] => contents'[n][f] = contents[n][f]
  BY CacheNextFact DEF SnapshotterStep, CollectorInv
<1>2. UNCHANGED <<scrape, reported>> /\ \A n, f : ReportedOf(n, f)' = ReportedOf(n, f)
  BY DEF SnapshotterStep, ReportedOf
<1>3. CASE scrape.phase = "idle"
  <2>1. UNCHANGED <<changed, lacked>> /\ reported = {}
    BY <1>3 DEF SnapshotterStep, CollectorInv, PhaseInv
  <2>2. ReportsOneSnapshot'
    BY <1>2, <2>1 DEF ReportsOneSnapshot, ReportedOf
  <2>. QED  BY <1>1, <1>2, <1>3, <2>1, <2>2
            DEF CollectorInv, CollectorTypeOK, PhaseInv, ProgressInv
<1>4. CASE scrape.phase # "idle"
  <2>1. /\ changed' = changed \cup {p \in CacheIDs \X Families :
                        versions'[p[1]][p[2]] # versions[p[1]][p[2]]}
        /\ lacked' = lacked \cup WithoutServices'
    BY <1>4 DEF SnapshotterStep
  <2>2. \A n \in CacheIDs, f \in Families :
          <<n, f>> \notin changed' => <<n, f>> \notin changed /\ contents'[n][f] = contents[n][f]
    BY <1>1, <2>1
  <2>3. CollectorTypeOK' /\ PhaseInv'
    BY <1>2, <1>4, <2>1 DEF CollectorInv, CollectorTypeOK, PhaseInv, WithoutServices
  <2>4. ReportsOneSnapshot'
    BY <1>2, <2>2 DEF CollectorInv, ReportsOneSnapshot
  <2>5. ProgressInv'
    BY <1>2, <2>1, <2>2, SMTT(30) DEF CollectorInv, ProgressInv
  <2>. QED  BY <1>1, <2>3, <2>4, <2>5 DEF CollectorInv
<1>. QED  BY <1>3, <1>4

(* Every step of the scrape and of the caches keeps the invariant. *)
LEMMA CollectorNextInv == CollectorInv /\ [CollectorNext]_allVars => CollectorInv'
<1>. SUFFICES ASSUME CollectorInv, [CollectorNext]_allVars  PROVE CollectorInv'
  OBVIOUS
<1>1. CASE CollectorStep /\ UNCHANGED cacheVars
  BY <1>1, StartCollectInv, CollectServicesInv, CollectEndpointsInv, CollectNodesInv
     DEF CollectorStep
<1>2. CASE SnapshotterStep
  BY <1>2, SnapshotterStepInv
<1>3. CASE UNCHANGED allVars
  <2>1. UNCHANGED <<nodes, versions, contents, scrape, reported, changed, lacked>>
    BY <1>3 DEF allVars, cacheVars, collectorVars
  <2>2. \A n, f : ReportedOf(n, f)' = ReportedOf(n, f)
    BY <2>1 DEF ReportedOf
  <2>3. CollectorTypeOK' /\ CacheInv' /\ PhaseInv'
    BY <2>1 DEF CollectorInv, CollectorTypeOK, CacheInv, PhaseInv, WithoutServices, HasSnapshot
  <2>4. ReportsOneSnapshot' /\ ProgressInv'
    BY <2>1, <2>2 DEF CollectorInv, ReportsOneSnapshot, ProgressInv
  <2>. QED  BY <2>3, <2>4 DEF CollectorInv
<1>. QED  BY <1>1, <1>2, <1>3 DEF CollectorNext

(***************************************************************************)
(* In every reachable state what has been cached, changed and reported     *)
(* fits together; the type invariant is a part of this.                    *)
(***************************************************************************)
THEOREM CollectorInvariance == CollectorSpec => []CollectorInv
<1>1. CollectorInit => CollectorInv
  <2>. SUFFICES ASSUME CollectorInit  PROVE CollectorInv
    OBVIOUS
  <2>1. CacheInv
    <3>1. /\ nodes = {}
          /\ \A n \in CacheIDs, f \in Families : versions[n][f] = 0 /\ contents[n][f] = {}
      BY DEF CollectorInit, CacheInit
    <3>2. /\ versions \in [CacheIDs -> [Families -> Nat]]
          /\ contents \in [CacheIDs -> [Families -> SUBSET Resources]]
      BY DEF CollectorInit, CacheInit
    <3>. QED  BY <3>1, <3>2 DEF CacheInv, CacheIDs
  <2>2. CollectorTypeOK /\ PhaseInv /\ ProgressInv
    BY DEF CollectorInit, CollectorTypeOK, PhaseInv, ProgressInv, NoScrape, Scrape, CacheIDs
  <2>3. ReportsOneSnapshot
    BY DEF CollectorInit, ReportsOneSnapshot, ReportedOf
  <2>. QED  BY <2>1, <2>2, <2>3 DEF CollectorInv
<1>. QED  BY <1>1, CollectorNextInv, PTL DEF CollectorSpec

(***************************************************************************)
(* A scrape never reports a part of a snapshot, nor what another node is   *)
(* served, however Collect interleaves with the snapshotter.               *)
(***************************************************************************)
THEOREM ReportsWhole == CollectorSpec => []ReportsOneSnapshot
<1>1. CollectorInv => ReportsOneSnapshot
  BY DEF CollectorInv
<1>. QED  BY <1>1, CollectorInvariance, PTL

(***************************************************************************)
(* A scrape that ends has reported every snapshot that was cached during   *)
(* all of it (Collect).                                                    *)
(***************************************************************************)
THEOREM ReportsStable == CollectorSpec => StableIsReported
<1>1. ASSUME CollectorInv, CollectNodes  PROVE StableAtEnd
  <2>. SUFFICES ASSUME NEW n \in CacheIDs \ lacked, NEW f \in Families, <<n, f>> \notin changed
                PROVE  ReportedOf(n, f) = contents[n][f] /\ (n # EmptyNodeID => n \in NodesMap)
    BY DEF StableAtEnd
  <2>1. scrape.phase = "nodes" /\ scrape.todo = {}
    BY <1>1 DEF CollectNodes, CollectorInv, PhaseInv
  <2>2. ReportedOf(n, f) = contents[n][f]
    BY <1>1, <2>1 DEF CollectorInv, ProgressInv
  <2>3. versions[n]["services"] # 0
    BY <1>1, <2>1 DEF CollectorInv, PhaseInv, WithoutServices, HasSnapshot
  <2>4. n # EmptyNodeID => n \in NodesMap
    BY <1>1, <2>3, FamiliesAssumption DEF CollectorInv, CacheInv, CacheIDs, NodesMap
  <2>. QED  BY <2>2, <2>4
<1>2. CollectorInv => [CollectNodes => StableAtEnd]_allVars
  BY <1>1
<1>. QED  BY <1>2, CollectorInvariance, PTL DEF StableIsReported

=============================================================================
