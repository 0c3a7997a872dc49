SPECIFICATION Spec
CONSTANTS
  Nodes = {n1, n2}
  n1 = n1
  n2 = n2
  Rules <- MCRules
  Packets <- MCPackets
  Cpus = {c1}
  c1 = c1
  Faults = {"register", "pool", "device", "link", "memory", "file", "scm", "service", "stop", "delete", "open"}
  Wild = Wild
  NULL = NULL
  Garbage = Garbage
  MaxRules = 2
  Files <- MCFiles
SYMMETRY NodesAlike
INVARIANTS ListIsLive NothingAfterUnload KnowsTheDriver
PROPERTIES AnswersFirstMatch
CHECK_DEADLOCK FALSE
