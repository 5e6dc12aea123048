SPECIFICATION FairSpec
CONSTANTS
  Services = {"s1"}
  XdsNames = {x1}
  SliceNames <- OneSlice
  Local = Local
  Remotes = {r1}
  Objects = {o1}
  SliceValues <- OneValue
  Settings <- LocalFirstSettings
  Absent = Absent
  Kinds = {"xds", "service"}
  MaxChanges = 2
  MaxFailures = 0
PROPERTIES
  EveryServiceChangeIsPublished
CHECK_DEADLOCK FALSE
