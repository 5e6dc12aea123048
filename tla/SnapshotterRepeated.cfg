SPECIFICATION Spec
CONSTANTS
  k1 = k1
  k2 = k2
  NodeIDs = {n1}
  Streams = {s1}
  Keys = {k1, k2}
  Contents = {c1}
  Absent = Absent
  Dummy = Dummy
  Authorities = {}
  ServiceTypes = {"listener"}
  EndpointTypes = {}
  OtherTypes = {}
  RequestNames <- RepeatedName
  LocalhostEndpoints = FALSE
  MaxSnaps <- ServicesTwice
  MaxNodeVersion = 3
INVARIANTS
  KeepsTheSetAsked
