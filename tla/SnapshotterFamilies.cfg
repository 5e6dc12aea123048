SPECIFICATION Spec
CONSTANTS
  k1 = k1
  k2 = k2
  NodeIDs = {n1, n2}
  Streams = {s1, s2}
  Keys = {k1}
  Contents = {c1, c2}
  Absent = Absent
  Dummy = Dummy
  Authorities = {"authority"}
  ServiceTypes = {"listener"}
  EndpointTypes = {"endpoint"}
  OtherTypes = {"secret"}
  RequestNames <- EitherName
  LocalhostEndpoints = FALSE
  MaxSnaps <- BothOnce
  MaxNodeVersion = 1
INVARIANTS
  NothingLeaks
  EntrySurvivesHandler
  DeltaAgrees
PROPERTIES
  ImplementsCache
SYMMETRY Symmetry
