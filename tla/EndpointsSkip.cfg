SPECIFICATION EndpointsSpec
CONSTANTS
  Ports <- TwoPorts
  PodsOf <- SomePods
  LocalSlices = {"l1"}
  RemoteSlices = {"r1"}
INVARIANTS
  PrioritiesDoNotSkip
