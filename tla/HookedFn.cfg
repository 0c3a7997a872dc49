CONSTANTS
  Protocols = {"TCPIP", "TCPIP_WANARP", "NWLINK"}
  Hooked = {"TCPIP", "TCPIP_WANARP"}
  Tcpip = "TCPIP"
  Contexts = {"x1", "x2", "y1"}
  ProtocolOf <- MCProtocolOf
  NameOf <- MCNameOf
  MaxBlocks = 4
  NULL = NULL
SPECIFICATION Spec
INVARIANTS NothingFreedIsReached OneAdapter IndexIsName Accounted
CHECK_DEADLOCK FALSE
