SPECIFICATION EndpointsSpec
CONSTANTS
  Ports <- TwoPorts
  PodsOf <- SomePods
  LocalSlices = {"l1", "l2"}
  RemoteSlices = {"r1"}
INVARIANTS
  EveryEndpointIsServed
  ServedExists
  LocalFirst
  PrioritiesDoNotSkipSamePorts
