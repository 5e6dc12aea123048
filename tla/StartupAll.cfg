SPECIFICATION FairSpec
CONSTANTS
  Svcs = {"s1"}
  Values = {v1}
  Absent = Absent
  MaxChanges = 1
  MaxBreaks = 1
  DefaultMin = 1
  DefaultMax = 10
  Local = Local
  Remotes = {r1}
  Configs <- TwoConfigs
  RetryConfig <- SmallBackoff
  MaxAttempts = 2
  MaxRaces = 1
INVARIANTS
  EveryStoreChangeIsQueued
  PanicsAreTheKnownOnes
  ListersAreFed
  ServesAfterFirstLists
  OneFactoryPerRemote
PROPERTIES
  RemotesDoNotBlock
  RemotesAreWatched
  WatcherCatchesUp
CHECK_DEADLOCK FALSE
