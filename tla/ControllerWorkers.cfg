SPECIFICATION FairSpec
CONSTANTS
  Services = {"s1"}
  XdsNames = {x1}
  SliceNames <- OneSlice
  Local = Local
  Remotes = {r1, r2}
  Objects = {o1}
  SliceValues <- EitherLabel
  Settings <- LocalFirstSettings
  Absent = Absent
  Kinds = {"labelled", "xds", "slice", "service"}
  MaxChanges = 3
  MaxFailures = 1
INVARIANTS
  TypeOK
  NothingPendingAtRest
PROPERTIES
  EveryChangeIsPublished
  UpToDateWithoutOverlap
CHECK_DEADLOCK FALSE
