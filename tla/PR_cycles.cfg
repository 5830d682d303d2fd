SPECIFICATION FairSpec
CONSTANTS
  wf = wf
  app = app
  other = other
  Envs <- MCEnvs
  Pair <- MCPair
  DeniedTargets <- MCDenied
  Configs <- MCStarts
  Creds <- MCCreds
  AllTargets <- MCTargets
  Ladder <- MCLadder
  PrintLadder <- MCPrintLadder
  ArgSet <- RunArgs
  Chosen <- Extreme
  Families <- Ipv4
  Addresses = 1
  Slots = 2
  ProbeQueue = 1
  MaxCycles = 3
CHECK_DEADLOCK FALSE
INVARIANTS ExitCodeIsTheLog RunAddsUp HandoverKeepsOrder OneLabel
PROPERTY Stops
