CONSTANTS
  Cpus = {c1, c2}
  Packets = {p1, p2, p3}
  p1 = p1
  Again = p1
  MaxSends <- MCMaxSends
SPECIFICATION FairSpec
INVARIANTS HoldsPending DeniedNeverSent
PROPERTIES KeepsPromise ComesBack
CHECK_DEADLOCK FALSE
