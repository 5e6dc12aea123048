SPECIFICATION FairSpec
CONSTANTS
  k1 = k1
  k2 = k2
  NodeIDs = {n1}
  Streams = {s1, s2}
  Keys = {k1}
  Contents = {c1, c2}
  Absent = Absent
  Dummy = Dummy
  Authorities = {"authority"}
  ServiceTypes = {"listener"}
  EndpointTypes = {}
  OtherTypes = {}
  RequestNames <- EitherName
  LocalhostEndpoints = FALSE
  MaxSnaps <- ServicesThrice
  MaxNodeVersion = 2
INVARIANTS
  IInv
  ServesWhatWasAsked
  ServesNothingElse
  AtMostOneBehind
PROPERTIES
  FailedStreamIsForgotten
  NodesCatchUp
