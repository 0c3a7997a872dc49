---------------------------- MODULE MCRuleParse ----------------------------
(***************************************************************************)
(* An instance of RuleParse for TLC: at each clause the words of the       *)
(* grammar, wrong ones and the empty one, and addresses at the edges of    *)
(* octets, masks and ports.                                                *)
(***************************************************************************)
EXTENDS RuleParse

Addr(host, mask, port, port2) == [host |-> host, mask |-> mask, port |-> port, port2 |-> port2]
Net10  == <<"10", "0", "0", "0">>
Host1  == <<"10", "0", "0", "1">>
Zeros  == <<"0", "0", "0", "0">>
Ones   == <<"255", "255", "255", "255">>

MCAddress ==
  [w \in {"any", "any:53", "10.0.0.1", "10.0.0.0/25", "10.0.0.0/24x", "0.0.0.0/0:53", "10.0.0.1/32:53-65535",
          "10.0.0.1:65536", "10.0.0.0/33", "300.0.0.1", "255.255.255.255", "10.0.0.1.5", "10.0"} |->
   CASE w = "any"          -> Addr(<<"any">>, NULL, NULL, NULL)
     [] w = "any:53"       -> Addr(<<"any">>, NULL, "53", NULL)
     [] w = "10.0.0.1"     -> Addr(Host1, NULL, NULL, NULL)
     [] w = "10.0.0.0/25"  -> Addr(Net10, "25", NULL, NULL)
     [] w = "10.0.0.0/24x" -> Addr(Net10, "24x", NULL, NULL)
     [] w = "0.0.0.0/0:53" -> Addr(Zeros, "0", "53", NULL)
     [] w = "10.0.0.1/32:53-65535" -> Addr(Host1, "32", "53", "65535")
     [] w = "10.0.0.1:65536"       -> Addr(Host1, NULL, "65536", NULL)
     [] w = "10.0.0.0/33"          -> Addr(Net10, "33", NULL, NULL)
     [] w = "300.0.0.1"            -> Addr(<<"300", "0", "0", "1">>, NULL, NULL, NULL)
     [] w = "255.255.255.255"      -> Addr(Ones, NULL, NULL, NULL)
     [] w = "10.0.0.1.5"           -> Addr(Host1 \o <<"5">>, NULL, NULL, NULL)
     [] w = "10.0"                 -> Addr(<<"10", "0">>, NULL, NULL, NULL)]

MCNumber ==
  [w \in {"0", "1", "5", "8", "10", "24x", "25", "32", "33", "53", "100", "101", "255", "256", "300", "1x", "65535", "65536"} |->
   CASE w = "0"  -> 0  [] w = "1"  -> 1  [] w = "5"  -> 5  [] w = "8"   -> 8  [] w = "10" -> 10 [] w = "24x" -> 24
     [] w = "25" -> 25 [] w = "32" -> 32 [] w = "33" -> 33 [] w = "53"  -> 53 [] w = "100" -> 100
     [] w = "101" -> 101 [] w = "255" -> 255 [] w = "256" -> 256 [] w = "300" -> 300 [] w = "1x" -> 1
     [] w = "65535" -> 65535 [] w = "65536" -> 65536]
MCNumerals == DOMAIN MCNumber \ {"24x", "1x"}

MCPairs == [w \in {"", "S+", "S+A-", "S+F+", "S", "X+"} |->
   CASE w = "" -> <<>> [] w = "S+" -> << <<"S", "+">> >> [] w = "S+A-" -> << <<"S", "+">>, <<"A", "-">> >>
     [] w = "S+F+" -> << <<"S", "+">>, <<"F", "+">> >> [] w = "S" -> << <<"S", "">> >> [] w = "X+" -> << <<"X", "+">> >>]

MCDotted == [w \in {"0.0", "8.255", "8.256", "300.1", "8.x"} |->
   CASE w = "0.0" -> <<"0", "0">> [] w = "8.255" -> <<"8", "255">> [] w = "8.256" -> <<"8", "256">>
     [] w = "300.1" -> <<"300", "1">> [] w = "8.x" -> <<"8", "x">>]

OptionWords == {"", "ipproto", "icmp", "flags", "from", "type", "to", "nolog"}

MCTried == [c \in Clauses \ {"code"} |->
   CASE c = "verdict"   -> Verdicts \cup {"", "nolog"}
     [] c = "proto"     -> Tables \cup {"", "in"}
     [] c = "direction" -> Directions \cup {"", "if"}
     [] c = "iface"     -> {"", "if", "in", "from"}
     [] c = "ifarg"     -> {"0", "1", "100", "101", "1x", ""}
     [] c = "from"      -> {"", "from", "to"}
     [] c \in {"src", "dst"} -> DOMAIN MCAddress \cup {""}
     [] c = "to"        -> {"", "from", "to"}
     [] c = "option"    -> OptionWords
     [] c = "ipproto"   -> {"0", "1", "1x", "255", "256", ""}
     [] c = "flags"     -> DOMAIN MCPairs \cup {"nolog"}
     [] c = "type"      -> DOMAIN MCDotted \cup {"0", "1x", "8", "255", "256", "nolog"}
     [] c = "nolog"     -> {"", "nolog", "8.255"}]

MCWords == UNION {MCTried[c] : c \in DOMAIN MCTried} \cup DOMAIN MCNumber \cup {"x"}

MCInitial == [w \in MCWords |->
   CASE w \in {"if", "in", "ip", "icmp", "ipproto"} -> "i" [] w \in {"flags", "from"} -> "f"
     [] w \in {"tcp", "type", "to"} -> "t" [] w = "nolog" -> "n"
     [] OTHER -> "other"]

Octets(a, b, c, d) == OctetBits(1, a) \cup OctetBits(2, b) \cup OctetBits(3, c) \cup OctetBits(4, d)
One    == Octets(10, 0, 0, 1)
Hosts  == {One, Octets(10, 0, 0, 129), Octets(10, 0, 1, 1), Octets(0, 0, 0, 0), Bits}

MCPacket == [direction |-> "in", iface |-> 1, src |-> One, dst |-> One, proto |-> 1,
             srcPort |-> 53, dstPort |-> 53, flags |-> {"S"}, type |-> 8, code |-> 255]

(* The same as MCPacket but in one way, for each direction. *)
Variants(pkt) ==
  {[pkt EXCEPT !.src = h] : h \in Hosts} \cup {[pkt EXCEPT !.dst = h] : h \in Hosts}
    \cup {[pkt EXCEPT !.srcPort = n] : n \in {52, 54, 65535}} \cup {[pkt EXCEPT !.dstPort = n] : n \in {52, 54, 65535}}
    \cup {[pkt EXCEPT !.flags = f] : f \in {{}, {"S", "A"}, {"A"}}} \cup {[pkt EXCEPT !.iface = 100]}
    \cup {[pkt EXCEPT !.proto = 255]} \cup {[pkt EXCEPT !.type = 0, !.code = n] : n \in {0, 255}}
    \cup {[pkt EXCEPT !.type = 255], [pkt EXCEPT !.code = 0]}

MCProbes == Variants(MCPacket) \cup Variants([MCPacket EXCEPT !.direction = "out"])
              \cup Variants([MCPacket EXCEPT !.src = Bits, !.type = 0, !.code = 0])
              \cup Variants([MCPacket EXCEPT !.dst = Bits])
=============================================================================
