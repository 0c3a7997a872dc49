SPECIFICATION FairSpec
CONSTANTS
  HookFn <- MCHookFn
  NULL = NULL
  Size = 3
  Producers = {p1, p2}
  p1 = p1
  p2 = p2
  MaxMsg = 5
  MaxAdapters = 2
  Cards = 2
  MaxFaults = 2
  Faults = {"packetpool", "bufferpool", "av", "device", "find", "findmem", "write", "name", "logfile", "ring", "logthread", "rulethread", "connect", "iface", "buf", "key", "memory"}
CHECK_DEADLOCK FALSE
INVARIANTS LeavesNothing CrashesOnlyAfter HooksUndone KeepsNewest
PROPERTIES DropsOldest EventuallyWritten LifeGoesOn
