SPECIFICATION Spec
CONSTANTS
  wf = wf
  app = app
  other = other
  Envs <- MCEnvs
  Pair <- MCPair
  DeniedTargets <- MCDenied
  Configs <- MCStarts
  Creds <- MCCreds
  AllTargets <- MCTargets
  Ladder <- MCLadder
  PrintLadder <- MCPrintLadder
  ArgSet <- RunArgs
  Chosen <- Extreme
  Families <- Ipv4
  Addresses = 1
  Slots = 2
  ProbeQueue = 4
  MaxCycles = 2
INVARIANT LastCycleIsKept
