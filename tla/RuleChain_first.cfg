SPECIFICATION FairSpec
CONSTANTS
  Cpus = {c1}
  c1 = c1
  Packets <- MCPackets
  MaxVersion = 1
  Content <- MCContent
  NotRule = NotRule
  Faults = {}
CHECK_DEADLOCK FALSE
PROPERTIES EditApplied
