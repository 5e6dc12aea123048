SPECIFICATION Spec
CONSTANTS
  Services = {"s1"}
  XdsNames = {x1, x2}
  PortSets <- SomePortSets
  Labels <- SomeLabels
  Specs <- SomeSpecs
  SlicePorts <- TwoSlicePorts
  Authority = "authority"
  Absent = Absent
  Unset = Unset
  Invalid = Invalid
  DurationLimit = 512
  DefaultBase = 25
  MaxChanges = 1
INVARIANTS
  SettingsFromOneSource
  UndisturbedBuildIsExact
  RetryIntervalsInOrder
  ListenersLeadToEndpoints
  DeltaLeadsToTheSame
  HashedRoutesHaveRings
SYMMETRY Symmetry
