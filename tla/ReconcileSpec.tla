---------------------------- MODULE ReconcileSpec ----------------------------
(***************************************************************************)
(* What a queue of the controller promises, without saying how: a key that *)
(* is added is owed a reconciliation that starts afterwards, one           *)
(* reconciliation runs at a time, and a failed one is owed again.  Once    *)
(* the queue is stopped nothing new is owed, and a key whose retry was     *)
(* delayed may be dropped.                                                 *)
(***************************************************************************)
CONSTANTS Keys, NoKey

VARIABLES
  owed,     \* keys owed a reconciliation
  running,  \* the key being reconciled, or NoKey
  stopped

vars == <<owed, running, stopped>>

Init ==
  /\ owed = {}
  /\ running = NoKey
  /\ stopped = FALSE

Owe(k) ==
  /\ ~stopped
  /\ owed' = owed \cup {k}
  /\ UNCHANGED <<running, stopped>>

(* The retry of a failure may stay owed when a later change comes first *)
Start(k) ==
  /\ running = NoKey
  /\ k \in owed
  /\ running' = k
  /\ owed' \in {owed, owed \ {k}}
  /\ UNCHANGED stopped

Succeed ==
  /\ running # NoKey
  /\ running' = NoKey
  /\ UNCHANGED <<owed, stopped>>

Fail ==
  /\ running # NoKey
  /\ running' = NoKey
  /\ owed' = IF stopped THEN owed ELSE owed \cup {running}
  /\ UNCHANGED stopped

Stop ==
  /\ ~stopped
  /\ stopped' = TRUE
  /\ owed' \in SUBSET owed
  /\ UNCHANGED running

Next ==
  \/ \E k \in Keys : Owe(k) \/ Start(k)
  \/ Succeed
  \/ Fail
  \/ Stop

Spec == Init /\ [][Next]_vars

=============================================================================
