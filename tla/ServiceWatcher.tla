--------------------------- MODULE ServiceWatcher ---------------------------
(***************************************************************************)
(* The watcher of labelled Services (kube/service_watcher.go): an informer *)
(* of client-go lists and watches Services, keeps a store of them, and     *)
(* calls the handlers of Init one change at a time; the handler sets a     *)
(* gauge and adds the key to the queue of the controller.                  *)
(*                                                                         *)
(* Of client-go is modelled what the handlers depend on: changes come in   *)
(* order; the store is updated before the handler is called; a watch that  *)
(* breaks is taken up where it was, or, if that is too long ago, begun     *)
(* anew with a list, and an object that is not on this list but known is   *)
(* reported as a DeletedFinalStateUnknown (a tombstone).                   *)
(***************************************************************************)
EXTENDS Integers, Sequences, FiniteSets

CONSTANTS
  Svcs,        \* namespace and name of the Services with the label
  Values,      \* what a Service may say
  Absent,
  MaxChanges,  \* bound: changes of Services
  MaxBreaks    \* bound: watches that break

Event == [type : {"set", "deleted", "tombstone"}, svc : Svcs, value : Values \cup {Absent}]

ASSUME WatcherAssumption ==
  /\ Absent \notin Values \cup Event
  /\ IsFiniteSet(Svcs)
  /\ MaxChanges \in Nat /\ MaxBreaks \in Nat

VARIABLES
  api,       \* api[s]: the Service in the cluster
  watch,     \* "off", "list", "watching", "broken"
  events,    \* events of the watch that were not received
  fifo,      \* received and not handled
  store,     \* the store of the informer
  handling,  \* the event whose handler is to be called, or Absent
  initial,   \* events of the first list still to be handled, or -1 before it
  gauge,     \* semaphore_xds_kube_watcher_objects
  owed,      \* keys in the service queue
  seen,      \* seen[s]: the Service that the last reconciliation listed
  crashed,   \* a handler has panicked, which ends the process
  changes,
  breaks

watcherVars == <<watch, events, fifo, store, handling, initial, gauge>>
svcVars == <<api, watcherVars, owed, seen, crashed, changes, breaks>>

NoServices == [s \in Svcs |-> Absent]
Known(st) == {s \in Svcs : st[s] # Absent}

WatcherInit ==
  /\ watch = "off"
  /\ events = <<>>
  /\ fifo = <<>>
  /\ store = NoServices
  /\ handling = Absent
  /\ initial = -1
  /\ gauge = 0
  /\ owed = {}
  /\ seen = NoServices
  /\ api \in [Svcs -> Values \cup {Absent}]
  /\ crashed = FALSE
  /\ changes = 0
  /\ breaks = 0

(* The process is started again and holds nothing *)
WatcherRestart ==
  /\ watch' = "off"
  /\ events' = <<>>
  /\ fifo' = <<>>
  /\ store' = NoServices
  /\ handling' = Absent
  /\ initial' = -1
  /\ gauge' = 0
  /\ owed' = {}
  /\ seen' = NoServices
  /\ crashed' = FALSE
  /\ UNCHANGED <<api, changes, breaks>>

-----------------------------------------------------------------------------
(* The cluster *)

ApiChange(s, v) ==
  /\ changes < MaxChanges
  /\ v # api[s]
  /\ changes' = changes + 1
  /\ api' = [api EXCEPT ![s] = v]
  /\ events' = IF watch \in {"watching", "broken"}
               THEN Append(events, [type |-> IF v = Absent THEN "deleted" ELSE "set",
                                    svc |-> s, value |-> v])
               ELSE events
  /\ UNCHANGED <<watch, fifo, store, handling, initial, gauge, owed, seen, crashed, breaks>>

WatchBreaks ==
  /\ watch = "watching"
  /\ breaks < MaxBreaks
  /\ breaks' = breaks + 1
  /\ watch' = "broken"
  /\ UNCHANGED <<api, events, fifo, store, handling, initial, gauge, owed, seen, crashed, changes>>

-----------------------------------------------------------------------------
(* The informer *)

(* Run *)
RunWatcher ==
  /\ watch = "off"
  /\ watch' = "list"
  /\ UNCHANGED <<api, events, fifo, store, handling, initial, gauge, owed, seen, crashed, changes, breaks>>

(* What is known of s when all that was received is handled *)
Latest(s) ==
  LET of == {i \in DOMAIN fifo : fifo[i].svc = s}
  IN  IF of = {} THEN store[s] ELSE fifo[CHOOSE i \in of : \A j \in of : j <= i].value

(* Known Services that the list does not have: their deletion was missed *)
Missed == {s \in Svcs : Latest(s) # Absent /\ api[s] = Absent}

(* Some Services, each once and in any order, and an event for each *)
Orders(S) ==
  {f \in UNION {[1..n -> S] : n \in 0..Cardinality(S)} :
     /\ {f[i] : i \in DOMAIN f} = S
     /\ \A i, j \in DOMAIN f : f[i] = f[j] => i = j}
EventsOf(type, order) ==
  [i \in DOMAIN order |-> [type |-> type, svc |-> order[i], value |-> api[order[i]]]]

(* The objects on the list, then the ones that are missing *)
List ==
  /\ watch = "list"
  /\ handling = Absent
  /\ \E listed \in Orders(Known(api)), gone \in Orders(Missed) :
       fifo' = fifo \o EventsOf("set", listed) \o EventsOf("tombstone", gone)
  /\ initial' = IF initial = -1 THEN Cardinality(Known(api)) ELSE initial
  /\ events' = <<>>
  /\ watch' = "watching"
  /\ UNCHANGED <<api, store, handling, gauge, owed, seen, crashed, changes, breaks>>

(* A broken watch is taken up again, or is too old for that *)
WatchAgain ==
  /\ watch = "broken"
  /\ watch' \in {"watching", "list"}
  /\ UNCHANGED <<api, events, fifo, store, handling, initial, gauge, owed, seen, crashed, changes, breaks>>

(* The lock of the fifo is held while a handler runs *)
Receive ==
  /\ watch = "watching"
  /\ handling = Absent
  /\ events # <<>>
  /\ fifo' = Append(fifo, Head(events))
  /\ events' = Tail(events)
  /\ UNCHANGED <<api, watch, store, handling, initial, gauge, owed, seen, crashed, changes, breaks>>

Pop ==
  /\ watch # "off"
  /\ handling = Absent
  /\ fifo # <<>>
  /\ store' = [store EXCEPT ![Head(fifo).svc] = Head(fifo).value]
  /\ handling' = Head(fifo)
  /\ fifo' = Tail(fifo)
  /\ UNCHANGED <<api, watch, events, initial, gauge, owed, seen, crashed, changes, breaks>>

(* The items of the first list are counted down *)
CountDown == IF initial > 0 THEN initial - 1 ELSE initial

metricSetKubeWatcherObjects(v) == gauge' = v

(* Mutant of HandleEvent: a deletion adds nothing to the queue *)
HandleEventUnlessDeleted ==
  /\ handling # Absent
  /\ IF handling.type = "tombstone"
     THEN crashed' = TRUE /\ UNCHANGED <<handling, initial, gauge, owed>>
     ELSE /\ metricSetKubeWatcherObjects(Cardinality(Known(store)))
          /\ owed' = IF handling.type = "set" THEN owed \cup {handling.svc} ELSE owed
          /\ handling' = Absent
          /\ initial' = CountDown
          /\ UNCHANGED crashed
  /\ UNCHANGED <<api, watch, events, fifo, store, seen, changes, breaks>>

(***************************************************************************)
(* The handlers of Init with handleEvent and the controller's              *)
(* serviceEventHandler.  The one for deletions takes its argument for a    *)
(* Service, which a tombstone is not.                                      *)
(***************************************************************************)
HandleEvent ==
  /\ handling # Absent
  /\ IF handling.type = "tombstone"
     THEN crashed' = TRUE /\ UNCHANGED <<handling, initial, gauge, owed>>
     ELSE /\ metricSetKubeWatcherObjects(Cardinality(Known(store)))
          /\ owed' = owed \cup {handling.svc}
          /\ handling' = Absent
          /\ initial' = CountDown
          /\ UNCHANGED crashed
  /\ UNCHANGED <<api, watch, events, fifo, store, seen, changes, breaks>>

HasSynced == initial = 0

(* A reconciliation takes a key and lists the Services *)
ListStore(s) ==
  /\ s \in owed
  /\ owed' = owed \ {s}
  /\ seen' = store

InformerStep == List \/ WatchAgain \/ Receive \/ Pop \/ HandleEvent

-----------------------------------------------------------------------------
(* Properties *)

(***************************************************************************)
(* Whenever no handler is due, the gauge of watched objects is the number  *)
(* of Services in the store, however lists and watches alternate           *)
(* (handleEvent sets it after every change of the store).                  *)
(***************************************************************************)
GaugeCountsTheStore == handling = Absent => gauge = Cardinality(Known(store))

(***************************************************************************)
(* A Service in the store that no reconciliation has listed has its key in *)
(* the queue or is about to: no change of the store is left to chance      *)
(* (serviceEventHandler adds the key for every event).                     *)
(***************************************************************************)
EveryStoreChangeIsQueued ==
  \A s \in Svcs :
    store[s] # seen[s] => s \in owed \/ (handling # Absent /\ handling.svc = s)

=============================================================================
