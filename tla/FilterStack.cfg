CONSTANTS
  Filters = {f1, f2}
  Cpus = {c1, c2}
  Packets = {p1, p2}
  NULL = NULL
SPECIFICATION FairSpec
INVARIANTS Linked SeenByAll CalledWhileAttached OneOutcome
PROPERTY Decided
CHECK_DEADLOCK FALSE
