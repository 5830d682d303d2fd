SPECIFICATION PartSpec
CONSTANTS
  Pollers = {p1, p2}
  Stages = {s1}
  Duration = 3
  Skew = 0
  MaxTime = 7
  MaxCuts = 2
  Families <- Dual
  Addresses = 2
  Runners = {"timer", "operator"}
  Units = {"dev", "test"}
  Versions = {1, 2, 3}
  Broken = {2}
  First = 1
  MaxFaults = 2
  MaxOrders = 1
INVARIANTS  FailureNamesItsLayer CleanMeansAnswered LeavesUnitsServed
PROPERTIES ChannelComesBack GoodReleaseIsInstalled
CHECK_DEADLOCK FALSE
