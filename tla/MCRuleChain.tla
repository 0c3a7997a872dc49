---------------------------- MODULE MCRuleChain ----------------------------
(***************************************************************************)
(* Instances of RuleChain for TLC: three small versions of the rules file  *)
(* and the packets that tell their rules apart.                            *)
(***************************************************************************)
EXTENDS RuleChain

MCPacket(proto, flags) ==
  [direction |-> "in", iface |-> 1, src |-> {2}, dst |-> {1}, proto |-> proto,
   srcPort |-> 1, dstPort |-> 2, flags |-> flags, type |-> 8, code |-> 0]

MCPackets ==
  {MCPacket("tcp", {"S"}), MCPacket("udp", {}), MCPacket("gre", {})}

MCRule(k, res) ==
  [kind |-> k, result |-> res, direction |-> "in", iface |-> 0,
   src |-> {}, srcMask |-> {}, dst |-> {}, dstMask |-> {},
   srcPort1 |-> 0, srcPort2 |-> 0, dstPort1 |-> 0, dstPort2 |-> 0,
   flagsSet |-> {}, flagsUnset |-> {}, useProto |-> FALSE, proto |-> "none",
   useType |-> FALSE, type |-> 0, useCode |-> FALSE, code |-> 0]

Syn(res) == [MCRule("tcp", res) EXCEPT !.flagsSet = {"S"}]
NoUdp       == [MCRule("ip", "deny") EXCEPT !.useProto = TRUE, !.proto = "udp"]

MCContent == [v \in 0..MaxVersion |->
  CASE v = 0 -> <<NotRule, Syn("deny"), MCRule("tcp", "allow")>>
    [] v = 1 -> <<NoUdp, NotRule, MCRule("tcp", "deny")>>
    [] v = 2 -> <<Syn("allow"), Syn("deny")>>]
=============================================================================
