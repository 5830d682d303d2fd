SPECIFICATION NetSpec
CONSTANTS
  PingTimeout = 2
  DeadAfter = 4
  MinBackoff = 1
  MaxBackoff = 4
  MaxTime = 9
  Routes <- MCRoutes
  Brief = {"w"}
  Vague = {"v"}
  Starts = {560, 620}
  MaxHops = 4
  ProbesPerHop = 2
  MaxSilent = 2
  MinMTU = 576
  Headers = 28
  MaxWire = 2
  MaxTraces = 2
  MaxReroutes = 1
  TraceInterval = 6
  TraceMinGap = 2
  TraceTimeout = 1
  Levels = {1, 2, 3}
  Targets = {"t1", "t2", "t3"}
  TputInterval = 3
  TputTimeout = 2
  Resolvers = 2
  ARecords = {1, 2}
PROPERTY LostProbeIsNoChange
CHECK_DEADLOCK FALSE
