----------------------------- MODULE RuleMatch -----------------------------
(***************************************************************************)
(* The matching of one packet against the rule chain of ndis_flt:          *)
(* filter_ip, filter_tcp, filter_udp and filter_icmp of ndis_flt/filter.c. *)
(*                                                                         *)
(* An address or a mask is the set of its one bits, so that C's bitwise    *)
(* "and" is \cap; the TCP flags byte is a set of flag names.  A rule is a  *)
(* struct flt_rule: the union of the four rule kinds is one record, and a  *)
(* kind looks only at the fields it has.                                   *)
(***************************************************************************)
EXTENDS Naturals, Sequences, FiniteSets

Transports == {"tcp", "udp", "icmp"}
Tables     == {"ip"} \cup Transports
Verdicts   == {"allow", "deny"}

(* (rule addr & mask) == (packet addr & mask) *)
AddrMatch(addr, mask, ip) == (addr \cap mask) = (ip \cap mask)

(* The port test: 0 is "no port given" in both bounds. *)
PortMatch(port1, port2, port) ==
  \/ port1 = 0
  \/ port2 = 0 /\ port = port1
  \/ port2 # 0 /\ port1 <= port /\ port <= port2

PortsMatch(r, p) ==
  /\ PortMatch(r.srcPort1, r.srcPort2, p.srcPort)
  /\ PortMatch(r.dstPort1, r.dstPort2, p.dstPort)

FlagsMatch(set, unset, flags) ==
  /\ set = {}   \/ flags \cap set # {}
  /\ unset = {} \/ flags \cap unset = {}

(* What the four walks test in common. *)
IpMatch(r, p) ==
  /\ r.direction = p.direction
  /\ r.iface \in {0, p.iface}
  /\ AddrMatch(r.src, r.srcMask, p.src)
  /\ AddrMatch(r.dst, r.dstMask, p.dst)

MatchIp(r, p)   == IpMatch(r, p) /\ (r.useProto => r.proto = p.proto)
MatchTcp(r, p)  == IpMatch(r, p) /\ PortsMatch(r, p)
                   /\ FlagsMatch(r.flagsSet, r.flagsUnset, p.flags)
MatchUdp(r, p)  == IpMatch(r, p) /\ PortsMatch(r, p)
MatchIcmp(r, p) == IpMatch(r, p) /\ (r.useType => r.type = p.type)
                                 /\ (r.useCode => r.code = p.code)

(* The condition of the walk of one table ("ip" before the transports). *)
RuleMatches(r, table, p) ==
  /\ r.kind = table
  /\ CASE table = "ip"   -> MatchIp(r, p)
       [] table = "tcp"  -> MatchTcp(r, p)
       [] table = "udp"  -> MatchUdp(r, p)
       [] table = "icmp" -> MatchIcmp(r, p)

(* What a whole walk answers: the first rule that matches, else allow. *)
Verdict(rules, table, p) ==
  LET hits == {i \in DOMAIN rules : RuleMatches(rules[i], table, p)}
  IN  IF hits = {} THEN "allow"
      ELSE rules[CHOOSE i \in hits : \A j \in hits : i <= j].result

=============================================================================
