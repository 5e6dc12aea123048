SPECIFICATION FairSpec
CONSTANTS
  Services = {"s1"}
  XdsNames = {x1}
  SliceNames <- OneSlice
  Local = Local
  Remotes = {r1}
  Objects = {o1}
  SliceValues <- OneValue
  Settings <- LocalFirstSettings
  Absent = Absent
  Kinds = {"xds", "slice"}
  MaxChanges = 3
  MaxFailures = 0
PROPERTIES
  DeletedSlicesAreDropped
CHECK_DEADLOCK FALSE
