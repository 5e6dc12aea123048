SPECIFICATION FairSpec
CONSTANTS
  Keys = {a, b, c}
  NoKey = NoKey
  MaxFailures = 3
INVARIANTS
  NothingIsLost
  QueuedOnce
  RequeuedIsExact
PROPERTIES
  ImplementsReconcileSpec
  EveryChangeIsReconciled
  EveryFailureIsRetried
