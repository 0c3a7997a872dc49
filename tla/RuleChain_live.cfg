SPECIFICATION FairSpec
CONSTANTS
  Cpus = {c1}
  c1 = c1
  Packets <- MCPackets
  MaxVersion = 2
  Content <- MCContent
  NotRule = NotRule
  Faults = {}
CHECK_DEADLOCK FALSE
PROPERTIES PolledEditApplied UnloadEnds
