SPECIFICATION Spec
CONSTANTS
  Cpus = {c1, c2}
  c1 = c1
  c2 = c2
  Packets <- MCPackets
  MaxVersion = 2
  Content <- MCContent
  NotRule = NotRule
  Faults = {"read", "rule", "query", "thread", "entry", "share"}
CHECK_DEADLOCK FALSE
INVARIANTS WalkSafe OneVersion NoLeak Quiesced
PROPERTIES AnswersFirstMatch
