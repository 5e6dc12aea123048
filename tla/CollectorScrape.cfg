SPECIFICATION CollectorSpec
CONSTANTS
  NodeIDs = {n1}
  EmptyNodeID = EmptyNodeID
  Families = {"services", "endpoints"}
  Resources = {r1}
  Versions = {0, 1, 2}
INVARIANTS
  ReportsOneSnapshot
PROPERTIES
  StableIsReported
