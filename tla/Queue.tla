-------------------------------- MODULE Queue --------------------------------
(***************************************************************************)
(* A queue of the controller (queue/queue.go): event handlers add the keys *)
(* of changed objects, and one goroutine takes them off and reconciles     *)
(* them.  The rate limiting work queue of client-go underneath is modelled *)
(* from how queue.go uses it: a FIFO of keys with a set of dirty ones, so  *)
(* that a key is never queued twice and never taken while it is being      *)
(* processed, and keys that wait for the delay of a retry.                 *)
(***************************************************************************)
EXTENDS Naturals, Sequences, SequencesExt

CONSTANTS
  Keys,        \* namespace/name of the objects
  NoKey,
  MaxFailures  \* bound: reconciliations that fail

ASSUME QueueAssumption == NoKey \notin Keys /\ MaxFailures \in Nat

VARIABLES
  queue,        \* work queue: keys to be taken, in order
  dirty,        \* work queue: keys to be processed
  processing,   \* work queue: keys taken and not done
  waiting,      \* work queue: keys that wait for the delay of a retry
  shuttingDown,
  requeued,     \* Queue.requeued
  pc,           \* where the goroutine of Run is
  key,          \* the key it has taken
  unseen,       \* history: keys added since their last reconciliation began
  owing,        \* history: keys whose last reconciliation failed
  failures      \* reconciliations that failed

workQueue == <<queue, dirty, processing, waiting, shuttingDown>>
history == <<unseen, owing, failures>>
vars == <<workQueue, requeued, pc, key, history>>

Init ==
  /\ queue = <<>>
  /\ dirty = {}
  /\ processing = {}
  /\ waiting = {}
  /\ shuttingDown = FALSE
  /\ requeued = <<>>
  /\ pc = "get"
  /\ key = NoKey
  /\ unseen = {}
  /\ owing = {}
  /\ failures = 0

-----------------------------------------------------------------------------
(* Mutant of Enqueue: a key that is being processed is not marked dirty *)
EnqueueUnlessProcessing(k) ==
  IF shuttingDown \/ k \in dirty \cup processing
  THEN UNCHANGED <<queue, dirty>>
  ELSE /\ dirty' = dirty \cup {k}
       /\ queue' = Append(queue, k)

(* Mutant of Enqueue: a key that is being processed is queued at once *)
EnqueueWhileProcessing(k) ==
  IF shuttingDown \/ k \in dirty
  THEN UNCHANGED <<queue, dirty>>
  ELSE /\ dirty' = dirty \cup {k}
       /\ queue' = Append(queue, k)

(* Add of the work queue: at most once, and not while it is processed *)
Enqueue(k) ==
  IF shuttingDown \/ k \in dirty
  THEN UNCHANGED <<queue, dirty>>
  ELSE /\ dirty' = dirty \cup {k}
       /\ queue' = IF k \in processing THEN queue ELSE Append(queue, k)

(* Queue.Add, called by an event handler of an informer *)
Add(k) ==
  /\ Enqueue(k)
  /\ unseen' = IF shuttingDown THEN unseen ELSE unseen \cup {k}
  /\ UNCHANGED <<processing, waiting, shuttingDown, requeued, pc, key, owing, failures>>

(* Mutant of DelayOver: the key is not added when the delay is over *)
DelayOverDrops(k) ==
  /\ k \in waiting
  /\ ~shuttingDown
  /\ waiting' = waiting \ {k}
  /\ UNCHANGED <<queue, dirty, processing, shuttingDown, requeued, pc, key, history>>

(* The delay of a retry is over *)
DelayOver(k) ==
  /\ k \in waiting
  /\ ~shuttingDown
  /\ waiting' = waiting \ {k}
  /\ Enqueue(k)
  /\ UNCHANGED <<processing, shuttingDown, requeued, pc, key, history>>

Stop ==
  /\ ~shuttingDown
  /\ shuttingDown' = TRUE
  /\ UNCHANGED <<queue, dirty, processing, waiting, requeued, pc, key, history>>

-----------------------------------------------------------------------------
(* processItem *)

(* Get returns the next key; while there is none it waits *)
Get ==
  /\ pc = "get"
  /\ queue # <<>>
  /\ key' = Head(queue)
  /\ queue' = Tail(queue)
  /\ processing' = processing \cup {Head(queue)}
  /\ dirty' = dirty \ {Head(queue)}
  /\ pc' = "reconcile"
  /\ unseen' = unseen \ {Head(queue)}
  /\ owing' = owing \ {Head(queue)}
  /\ UNCHANGED <<waiting, shuttingDown, requeued, failures>>

(* Get reports the shutdown once the queue is drained, and Run returns *)
Exit ==
  /\ pc = "get"
  /\ queue = <<>>
  /\ shuttingDown
  /\ pc' = "exited"
  /\ UNCHANGED <<workQueue, requeued, key, history>>

(* Mutant of removeRequeued: nothing is removed *)
removeRequeuedNever(k) == requeued

(* removeRequeued: the first occurrence of the key goes *)
removeRequeued(k) ==
  IF Contains(requeued, k) THEN RemoveAt(requeued, SelectInSeq(requeued, LAMBDA x : x = k))
                           ELSE requeued

(* addRequeued: at most once *)
addRequeued(k) ==
  IF Contains(requeued, k) THEN requeued ELSE Append(requeued, k)

(***************************************************************************)
(* reconcileFunc returned no error: forget.  (The key that cannot be split *)
(* into namespace and name, which Add never makes, is forgotten too.)      *)
(***************************************************************************)
ReconcileOk ==
  /\ pc = "reconcile"
  /\ requeued' = removeRequeued(key)
  /\ pc' = "done"
  /\ UNCHANGED <<workQueue, key, history>>

(* Mutant of ReconcileError: AddRateLimited is not called *)
ReconcileErrorDrops ==
  /\ pc = "reconcile"
  /\ failures < MaxFailures
  /\ failures' = failures + 1
  /\ requeued' = addRequeued(key)
  /\ owing' = owing \cup {key}
  /\ pc' = "done"
  /\ UNCHANGED <<workQueue, key, unseen>>

(* It returned an error: requeue, which a stopped work queue ignores *)
ReconcileError ==
  /\ pc = "reconcile"
  /\ failures < MaxFailures
  /\ failures' = failures + 1
  /\ waiting' = IF shuttingDown THEN waiting ELSE waiting \cup {key}
  /\ requeued' = addRequeued(key)
  /\ owing' = owing \cup {key}
  /\ pc' = "done"
  /\ UNCHANGED <<queue, dirty, processing, shuttingDown, key, unseen>>

(* Mutant of Done: the key is taken off, whatever was added meanwhile *)
DoneDrops ==
  /\ pc = "done"
  /\ processing' = processing \ {key}
  /\ key' = NoKey
  /\ pc' = "get"
  /\ UNCHANGED <<queue, dirty, waiting, shuttingDown, requeued, history>>

(* The deferred Done: a key that was added meanwhile is queued again *)
Done ==
  /\ pc = "done"
  /\ processing' = processing \ {key}
  /\ queue' = IF key \in dirty THEN Append(queue, key) ELSE queue
  /\ key' = NoKey
  /\ pc' = "get"
  /\ UNCHANGED <<dirty, waiting, shuttingDown, requeued, history>>

-----------------------------------------------------------------------------
Next ==
  \/ \E k \in Keys : Add(k) \/ DelayOver(k)
  \/ Stop
  \/ Get
  \/ Exit
  \/ ReconcileOk
  \/ ReconcileError
  \/ Done

Spec == Init /\ [][Next]_vars

(***************************************************************************)
(* Fairness: the goroutine of Run keeps running, a reconciliation returns, *)
(* and the timer of a retry fires.  Nothing makes objects change, and      *)
(* nothing makes a reconciliation fail.                                    *)
(***************************************************************************)
Fairness ==
  /\ WF_vars(Get)
  /\ WF_vars(Exit)
  /\ WF_vars(ReconcileOk \/ ReconcileError)
  /\ WF_vars(Done)
  /\ \A k \in Keys : WF_vars(DelayOver(k))

FairSpec == Spec /\ Fairness

-----------------------------------------------------------------------------
(* Properties *)

(* Every variable has its type. *)
TypeOK ==
  /\ queue \in Seq(Keys)
  /\ dirty \subseteq Keys
  /\ processing \subseteq Keys
  /\ waiting \subseteq Keys
  /\ shuttingDown \in BOOLEAN
  /\ requeued \in Seq(Keys)
  /\ pc \in {"get", "reconcile", "done", "exited"}
  /\ key \in Keys \cup {NoKey}
  /\ unseen \subseteq Keys
  /\ owing \subseteq Keys
  /\ failures \in Nat

(***************************************************************************)
(* Whatever is added while a key is queued, waits or is being reconciled:  *)
(* a change that no reconciliation has seen yet is still in the work       *)
(* queue, and so is a key whose last reconciliation failed.                *)
(***************************************************************************)
NothingIsLost ==
  /\ unseen \subseteq dirty
  /\ ~shuttingDown => owing \subseteq waiting \cup dirty

(***************************************************************************)
(* The queue never holds a key twice, and holds exactly the dirty keys     *)
(* that are not being processed: a key is never reconciled by a second     *)
(* call that overlaps the first.                                           *)
(***************************************************************************)
QueuedOnce ==
  /\ IsInjective(queue)
  /\ ToSet(queue) = dirty \ processing
  /\ processing = (IF pc \in {"reconcile", "done"} THEN {key} ELSE {})

(***************************************************************************)
(* Queue.requeued, whose length is exported as a metric, lists each key    *)
(* whose last finished reconciliation failed, and lists it once.           *)
(***************************************************************************)
RequeuedIsExact ==
  /\ IsInjective(requeued)
  /\ owing \subseteq ToSet(requeued)
  /\ ToSet(requeued) \subseteq
       owing \cup (IF pc = "reconcile" THEN {key} ELSE {})

(* Every change is reconciled: no key stays unseen, even when Stop is called. *)
EveryChangeIsReconciled == \A k \in Keys : k \in unseen ~> k \notin unseen

(* A failed reconciliation is retried, unless the queue is stopped. *)
EveryFailureIsRetried == \A k \in Keys : k \in owing ~> k \notin owing \/ shuttingDown

(***************************************************************************)
(* The queue implements ReconcileSpec.  A key is owed while it is dirty or *)
(* waits for a retry; it stops running when reconcileFunc returns.         *)
(***************************************************************************)
owed == dirty \cup (IF shuttingDown THEN {} ELSE waiting)
running == IF pc = "reconcile" THEN key ELSE NoKey

R == INSTANCE ReconcileSpec WITH stopped <- shuttingDown

ImplementsReconcileSpec == R!Spec

=============================================================================
