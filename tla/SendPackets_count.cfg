CONSTANTS
  Cpus = {c1}
  Packets = {p1, p2}
  p1 = p1
  Again = p1
  MaxSends <- MCMaxSends
SPECIFICATION Spec
INVARIANT CountIsLength
CHECK_DEADLOCK FALSE
