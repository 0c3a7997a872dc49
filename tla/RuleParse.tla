----------------------------- MODULE RuleParse -----------------------------
(***************************************************************************)
(* One line of ndis_fw.conf becomes a rule: parse_rule and get_amp of      *)
(* ndis_flt/flt_rule.c, with inet_addr of sock.c.                          *)
(*                                                                         *)
(* The parser cuts the line at blanks, one word at a time, so a step is a  *)
(* clause of the grammar and takes the next word when the code cuts it     *)
(* off.  Two blanks in a row are a word with no letters, "".  What the C   *)
(* library and the cuts inside a word see in it are tables over words:     *)
(* Number is atoi (0 for a word that it does not have), Address the cuts   *)
(* at "/", ":", "-" and ".", Pairs the letters and signs of flags, Dotted  *)
(* what stands before and after the first point.                           *)
(*                                                                         *)
(* A struct flt_rule is the record of RuleMatch with its log bit, and an   *)
(* address the set of its one bits, bit 31 first on the wire.              *)
(***************************************************************************)
EXTENDS RuleMatch, Integers

CONSTANTS
  Tried,     \* for each clause the words that may come next
  Initial,   \* the first letter of a word
  Number, Address, Pairs, Dotted,
  Numerals,  \* the words that are a number and nothing else
  Probes,    \* the packets that tell rules apart
  NULL       \* p at the end of the line

VARIABLES
  clause,    \* the clause that comes next, or what parse_rule returned
  p,         \* the word at p; NULL when the line has ended
  line,      \* the words cut off so far, p the last of them
  rule       \* *rule

parseVars == <<clause, p, line, rule>>

Kinds      == Tables
Directions == {"in", "out"}
Words      == DOMAIN Initial
Keywords   == Verdicts \cup Kinds \cup Directions \cup
              {"if", "from", "to", "ipproto", "flags", "type", "nolog"}
FlagNames  == {"F", "S", "R", "P", "A", "U"}
Bits       == 0..31
Clauses    == {"verdict", "proto", "direction", "iface", "ifarg", "from", "src", "to",
               "dst", "option", "ipproto", "flags", "type", "code", "nolog"}
Returned   == {"accepted", "rejected", "crashed"}

(* The tables see what is written in a word: a numeral is written without  *)
(* zeros in front, and a keyword is no number, address or set of flags.    *)
ASSUME WordsAssumption ==
  /\ Keywords \cup DOMAIN Address \cup DOMAIN Dotted \subseteq Words
  /\ NULL \notin Words
  /\ \A c \in Clauses \ {"code"} : Tried[c] \subseteq Words
  /\ Initial["if"] = "i" /\ Initial["ipproto"] = "i" /\ Initial["from"] = "f"
  /\ Initial["flags"] = "f" /\ Initial["type"] = "t" /\ Initial["nolog"] = "n"
ASSUME NumberAssumption ==
  /\ \A w \in DOMAIN Number : Number[w] \in Int
  /\ Numerals \subseteq DOMAIN Number \ Keywords
  /\ {"0", "255"} \subseteq Numerals /\ Number["0"] = 0 /\ Number["255"] = 255
  /\ \A v, w \in Numerals : Number[v] = Number[w] => v = w
ASSUME AddressAssumption ==
  /\ Keywords \cap DOMAIN Address = {}
  /\ \A w \in DOMAIN Address :
       /\ Address[w].host \in Seq(STRING)
       /\ Address[w].port = NULL => Address[w].port2 = NULL
  /\ "any" \in DOMAIN Address
  /\ Address["any"] = [host |-> <<"any">>, mask |-> NULL, port |-> NULL, port2 |-> NULL]
ASSUME PartsAssumption ==
  /\ \A w \in DOMAIN Dotted : w \notin Keywords \cup Numerals /\ Dotted[w] \in Words \X Words
  /\ \A w \in Keywords \cap DOMAIN Pairs :
       \E i \in DOMAIN Pairs[w] : Pairs[w][i] \notin FlagNames \X {"+", "-"}
ASSUME PortsAssumption == \A pkt \in Probes : pkt.srcPort \in Nat /\ pkt.dstPort \in Nat

MaxIface == 100
MaxPort  == 65535

(* struct flt_rule: each field has its width. *)
FltRules ==
  [kind : Kinds, result : Verdicts \cup {"unknown"}, direction : Directions,
   iface : 0..MaxIface, log : BOOLEAN,
   src : SUBSET Bits, srcMask : SUBSET Bits, dst : SUBSET Bits, dstMask : SUBSET Bits,
   srcPort1 : 0..MaxPort, srcPort2 : 0..MaxPort, dstPort1 : 0..MaxPort, dstPort2 : 0..MaxPort,
   flagsSet : SUBSET FlagNames, flagsUnset : SUBSET FlagNames,
   useProto : BOOLEAN, proto : 0..255, useType : BOOLEAN, type : 0..255,
   useCode : BOOLEAN, code : 0..255]

NoRule ==
  [kind |-> "ip", result |-> "unknown", direction |-> "in", iface |-> 0, log |-> TRUE,
   src |-> {}, srcMask |-> {}, dst |-> {}, dstMask |-> {},
   srcPort1 |-> 0, srcPort2 |-> 0, dstPort1 |-> 0, dstPort2 |-> 0,
   flagsSet |-> {}, flagsUnset |-> {}, useProto |-> FALSE, proto |-> 0,
   useType |-> FALSE, type |-> 0, useCode |-> FALSE, code |-> 0]

-----------------------------------------------------------------------------
(* What the text says. *)

Atoi(w) == IF w \in DOMAIN Number THEN Number[w] ELSE 0

(* atoi answers 0 for a word that is no number: only "0" itself may be 0.  *)
(* Text behind the word that nobody cut off makes it differ from "0".      *)
InRange_bug(w, behind, top) == Atoi(w) \in 1..(top - 1) \/ (w = "0" /\ behind = NULL)  \* < for <=
InRange(w, behind, top) == Atoi(w) \in 1..top \/ (w = "0" /\ behind = NULL)

(* A word without a point or a cut is all host. *)
Parts(w) == IF w \in DOMAIN Address THEN Address[w]
            ELSE [host |-> <<w>>, mask |-> NULL, port |-> NULL, port2 |-> NULL]

(* The one bits of octet k of an address. *)
OctetBits(k, n) == {b \in 8 * (4 - k) .. 8 * (4 - k) + 7 : (n \div 2^(b - 8 * (4 - k))) % 2 = 1}

(* inet_addr: an address with an octet that is out of range is 0.0.0.0. *)
InetAddr(host) ==
  IF \E k \in 1..4 : Atoi(host[k]) \notin 0..255 THEN {}
  ELSE UNION {OctetBits(k, Atoi(host[k])) : k \in 1..4}

(* inet_addr wants three points; INADDR_NONE is an error
   unless the text is 255.255.255.255. *)
HostOK(host, behind) ==
  /\ Len(host) >= 4
  /\ InetAddr(host) = Bits => host = [k \in 1..4 |-> "255"] /\ behind = NULL

(* mask |= mask >> 1, n - 1 times *)
MaskStep_bug(mask) == {b - 1 : b \in mask \ {0}}  \* shifts the bit and forgets the ones above
MaskStep(mask) == mask \cup {b - 1 : b \in mask \ {0}}

MaskOf[n \in 0..32] ==
  CASE n = 0 -> {} [] n = 1 -> {31} [] OTHER -> MaskStep(MaskOf[n - 1])

(* get_amp fails, and what it stores.  Without a place for ports, ":port"  *)
(* is not cut off and stays behind the piece before it.                    *)
PortKinds == {"tcp", "udp"}

AmpOK(w, kind) ==
  LET a == Parts(w)
      tail == IF kind \in PortKinds THEN NULL ELSE a.port
      behind == IF a.mask = NULL THEN tail ELSE NULL
      isAny == a.host = <<"any">> /\ behind = NULL
  IN  /\ isAny \/ HostOK(a.host, behind)
      /\ isAny \/ a.mask = NULL \/ InRange(a.mask, tail, 32)
      /\ kind \in PortKinds => /\ a.port = NULL \/ InRange(a.port, NULL, MaxPort)
                               /\ a.port2 = NULL \/ InRange(a.port2, NULL, MaxPort)

AmpAddr(w) == IF Parts(w).host = <<"any">> THEN {} ELSE InetAddr(Parts(w).host)
AmpMask(w) == CASE Parts(w).host = <<"any">> -> {}
                [] Parts(w).host # <<"any">> /\ Parts(w).mask = NULL -> Bits
                [] OTHER -> MaskOf[Atoi(Parts(w).mask)]
PortOf(kind, piece) == IF kind \in PortKinds /\ piece # NULL THEN Atoi(piece) ELSE 0

-----------------------------------------------------------------------------
(* The clauses. *)

ParseInit == /\ clause = "verdict"
             /\ p \in Tried["verdict"]
             /\ line = <<p>>
             /\ rule = NoRule

(* _strpbrk cuts the next word off, or there is none. *)
NextWord(c) ==
  \E w \in Tried[c] \cup {NULL} :
    /\ clause' = c
    /\ p' = w
    /\ line' = IF w = NULL THEN line ELSE Append(line, w)

Returns(result) == clause' = result /\ UNCHANGED <<p, line, rule>>

(* A word that must be one of a table or a keyword, and the end of the line. *)
Expect(c, ok) == clause = c /\ p # NULL /\ ok
Unless(c, ok) == clause = c /\ p # NULL /\ ~ok /\ Returns("rejected")

(* allow|deny *)
Filter == /\ Expect("verdict", p \in Verdicts)
          /\ rule' = [rule EXCEPT !.result = p]
          /\ NextWord("proto")

(* ip|tcp|udp|icmp *)
Proto == /\ Expect("proto", p \in Kinds)
         /\ rule' = [rule EXCEPT !.kind = p]
         /\ NextWord("direction")

(* in|out *)
Direction == /\ Expect("direction", p \in Directions)
             /\ rule' = [rule EXCEPT !.direction = p]
             /\ NextWord("iface")

(* [if <n>]: only a word that begins with "i" is looked at. *)
NoIf   == clause = "iface" /\ p # NULL /\ Initial[p] # "i" /\ clause' = "from" /\ UNCHANGED <<p, line, rule>>
If     == Expect("iface", p = "if") /\ NextWord("ifarg") /\ UNCHANGED rule
BadIf  == Unless("iface", Initial[p] = "i" => p = "if")

IfArg  == /\ Expect("ifarg", Atoi(p) \in 1..MaxIface)
          /\ rule' = [rule EXCEPT !.iface = Atoi(p)]
          /\ NextWord("from")

From == Expect("from", p = "from") /\ NextWord("src") /\ UNCHANGED rule
To   == Expect("to", p = "to")     /\ NextWord("dst") /\ UNCHANGED rule

(* The first and the second port of the word at p. *)
Port1 == PortOf(rule.kind, Parts(p).port)
Port2 == PortOf(rule.kind, Parts(p).port2)

Src == /\ Expect("src", AmpOK(p, rule.kind))
       /\ rule' = [rule EXCEPT !.src = AmpAddr(p), !.srcMask = AmpMask(p),
                     !.srcPort1 = Port1, !.srcPort2 = Port2]
       /\ NextWord("to")

(* "any" as the destination is not looked at: *rule is 0 there. *)
Dst == /\ Expect("dst", p = "any" \/ AmpOK(p, rule.kind))
       /\ rule' = IF p = "any" THEN rule
                  ELSE [rule EXCEPT !.dst = AmpAddr(p), !.dstMask = AmpMask(p),
                          !.dstPort1 = Port1, !.dstPort2 = Port2]
       /\ NextWord("option")

(* [ipproto <n>], [flags <flags>] or [type <type>], by the first letter. *)
Keyword == CASE rule.kind = "ip" -> "ipproto" [] rule.kind = "tcp" -> "flags"
             [] rule.kind = "icmp" -> "type" [] rule.kind = "udp" -> "nolog"
Looked  == p # NULL /\ rule.kind # "udp" /\ Initial[p] = Initial[Keyword]

NoOption  == clause = "option" /\ ~Looked /\ clause' = "nolog" /\ UNCHANGED <<p, line, rule>>
Option    == Expect("option", Looked /\ p = Keyword) /\ NextWord(Keyword) /\ UNCHANGED rule
BadOption == Unless("option", Looked => p = Keyword)

(* A byte; "ipproto 0" is refused. *)
IpProto == /\ Expect("ipproto", Atoi(p) \in 1..255)
           /\ rule' = [rule EXCEPT !.proto = Atoi(p), !.useProto = TRUE]
           /\ NextWord("nolog")

(* A loop over letter and sign; no letters are no flags. *)
FlagsOK_bug(w) == w \in DOMAIN Pairs /\ \A i \in DOMAIN Pairs[w] : Pairs[w][i][1] \in FlagNames  \* no look at the sign
FlagsOK(w) == w \in DOMAIN Pairs /\
              \A i \in DOMAIN Pairs[w] : Pairs[w][i] \in FlagNames \X {"+", "-"}
With(w, sign) == {f \in FlagNames : \E i \in DOMAIN Pairs[w] : Pairs[w][i] = <<f, sign>>}

Flags == /\ Expect("flags", FlagsOK(p))
         /\ rule' = [rule EXCEPT !.flagsSet = With(p, "+"), !.flagsUnset = With(p, "-")]
         /\ NextWord("nolog")

(* The type ends at the first point of the rest of the line, or else at a  *)
(* blank.  A point in a later word makes the words before it part of the   *)
(* type, and what is behind it the code.  Bound: one word between the two. *)
TypeAlone == /\ Expect("type", p \notin DOMAIN Dotted /\ InRange(p, NULL, 255))
             /\ rule' = [rule EXCEPT !.type = Atoi(p), !.useType = TRUE]
             /\ NextWord("nolog")
             /\ p' \notin DOMAIN Dotted

Between   == {<<>>} \cup {<<w>> : w \in Tried["nolog"] \ DOMAIN Dotted}
ToPoint   == IF p \in DOMAIN Dotted THEN {<<>>} ELSE {Append(s, d) : s \in Between, d \in DOMAIN Dotted}
Pointed(s) == IF s = <<>> THEN p ELSE s[Len(s)]
BehindType(s) == IF s = <<>> THEN NULL ELSE s
TypeOf(w) == IF w \in DOMAIN Dotted THEN Dotted[w][1] ELSE w

TypeAndCode ==
  /\ Expect("type", TRUE)
  /\ \E s \in ToPoint :
       /\ InRange(TypeOf(p), BehindType(s), 255)
       /\ rule' = [rule EXCEPT !.type = Atoi(TypeOf(p)), !.useType = TRUE]
       /\ line' = line \o s
       /\ clause' = "code" /\ p' = Dotted[Pointed(s)][2]

BadType ==
  \/ Unless("type", p \in DOMAIN Dotted \/ InRange(p, NULL, 255))
  \/ /\ Expect("type", TRUE)
     /\ \E s \in ToPoint : ~InRange(TypeOf(p), BehindType(s), 255) /\ line' = line \o s
     /\ clause' = "rejected" /\ UNCHANGED <<p, rule>>

(* The code is cut to a byte and not checked. *)
UChar(n) == n % 256

Code == /\ Expect("code", Atoi(p) # 0 \/ p = "0")
        /\ rule' = [rule EXCEPT !.code = UChar(Atoi(p)), !.useCode = TRUE]
        /\ NextWord("nolog")

(* p is the whole rest of the line: it is "nolog" or the line is refused.  *)
(* Behind a type that ended at a blank there is no point.                  *)
NoLog == /\ clause = "nolog"
         /\ \/ p = NULL /\ rule' = rule /\ clause' = "accepted" /\ UNCHANGED <<p, line>>
            \/ p = "nolog" /\ rule' = [rule EXCEPT !.log = FALSE] /\ clause' = "accepted" /\ UNCHANGED <<p, line>>
            \/ p = "nolog" /\ clause' = "rejected" /\ UNCHANGED <<p, rule>>
               /\ \E w \in Tried["nolog"] : /\ rule.useType /\ ~rule.useCode => w \notin DOMAIN Dotted
                                            /\ line' = Append(line, w)

(* The line ends where a word must be: the code looks whether p is NULL,   *)
(* except where the protocol must be (line 92): there it reads through it. *)
Unchecked_bug == {"proto", "to"}  \* no look before "to"
Unchecked == {"proto"}

Ends == /\ clause \notin {"option", "nolog"} \cup Returned
        /\ p = NULL
        /\ Returns(IF clause \in Unchecked THEN "crashed" ELSE "rejected")

Reject ==
  \/ Unless("verdict", p \in Verdicts)      \/ Unless("proto", p \in Kinds)
  \/ Unless("direction", p \in Directions)  \/ BadIf
  \/ Unless("ifarg", Atoi(p) \in 1..MaxIface)
  \/ Unless("from", p = "from")             \/ Unless("to", p = "to")
  \/ Unless("src", AmpOK(p, rule.kind))      \/ Unless("dst", p = "any" \/ AmpOK(p, rule.kind))
  \/ BadOption                              \/ Unless("ipproto", Atoi(p) \in 1..255)
  \/ Unless("flags", FlagsOK(p))            \/ BadType
  \/ Unless("code", Atoi(p) # 0 \/ p = "0") \/ Unless("nolog", p = "nolog")

ParseNext == \/ Filter \/ Proto \/ Direction \/ NoIf \/ If \/ IfArg \/ From \/ Src \/ To \/ Dst
             \/ NoOption \/ Option \/ IpProto \/ Flags \/ TypeAlone \/ TypeAndCode \/ Code \/ NoLog
             \/ Ends \/ Reject

ParseSpec == ParseInit /\ [][ParseNext]_parseVars

-----------------------------------------------------------------------------
(* What ndis_fw.conf documents, from its words alone.  The interface is    *)
(* "if <n>" here, as the code has it: the document says <if> in brackets.  *)

Octet(w) == w \in Numerals /\ Number[w] \in 0..255
AnyAddr  == {w \in DOMAIN Address : Address[w].host = <<"any">>
               /\ Address[w].mask = NULL /\ Address[w].port = NULL}
IpAddr   == {w \in DOMAIN Address :
               LET a == Address[w] IN
               /\ Len(a.host) = 4 /\ \A k \in 1..4 : Octet(a.host[k])
               /\ a.mask = NULL \/ (a.mask \in Numerals /\ Number[a.mask] \in 0..32)
               /\ a.port = NULL \/ (a.port \in Numerals /\ Number[a.port] \in 1..MaxPort)
               /\ a.port2 = NULL \/ (a.port2 \in Numerals /\ Number[a.port2] \in Number[a.port]..MaxPort)}
Addrs(kind) == AnyAddr \cup {w \in IpAddr : kind \in PortKinds \/ Address[w].port = NULL}

Index     == {w \in Numerals : Number[w] \in 1..MaxIface}
ProtoNums == {w \in Numerals : Number[w] \in 1..255}
FlagWords == {w \in DOMAIN Pairs : w # "" /\ \A i \in DOMAIN Pairs[w] : Pairs[w][i] \in FlagNames \X {"+", "-"}}
Byte      == {w \in Numerals : Number[w] \in 0..255}
TypeWords == Byte \cup {w \in DOMAIN Dotted : Dotted[w][1] \in Byte /\ Dotted[w][2] \in Byte}

(* The forms of a rule: sequences of the sets of words at each place. *)
Options(kind, proto, flags, type) ==
  {<<>>} \cup CASE kind = "ip" -> {<<{"ipproto"}, proto>>} [] kind = "tcp" -> {<<{"flags"}, flags>>}
               [] kind = "icmp" -> {<<{"type"}, type>>}   [] kind = "udp" -> {}

FormsOf(kind, index, addrs, proto, flags, type) ==
  {<<Verdicts, {kind}, Directions>> \o i \o <<{"from"}, addrs, {"to"}, addrs>> \o o \o n :
     i \in {<<>>, <<{"if"}, index>>}, o \in Options(kind, proto, flags, type), n \in {<<>>, <<{"nolog"}>>}}

Forms == UNION {FormsOf(k, Index, Addrs(k), ProtoNums, FlagWords, TypeWords) : k \in Kinds}

Fits(form) == \A i \in DOMAIN line : i \in DOMAIN form /\ line[i] \in form[i]
Documented == \E form \in Forms : Len(form) = Len(line) /\ Fits(form)
Begins     == \E form \in Forms : Fits(form)

(* What a documented line says of a packet. *)
Has(w)   == \E i \in DOMAIN line : line[i] = w
After(w) == line[(CHOOSE i \in DOMAIN line : line[i] = w) + 1]

BitOf(host, b) == (Number[host[4 - b \div 8]] \div 2^(b % 8)) % 2 = 1
InNet(w, ip) ==
  w \in AnyAddr \/
  LET bits == IF Address[w].mask = NULL THEN 32 ELSE Number[Address[w].mask]
  IN  \A b \in (32 - bits)..31 : BitOf(Address[w].host, b) <=> b \in ip

PortIn(w, port) ==
  LET a == Address[w] IN
  a.port = NULL \/ port \in Number[a.port]..Number[IF a.port2 = NULL THEN a.port ELSE a.port2]

Says(pkt) ==
  /\ pkt.direction = line[3]
  /\ Has("if") => pkt.iface = Number[After("if")]
  /\ InNet(After("from"), pkt.src) /\ InNet(After("to"), pkt.dst)
  /\ rule.kind \in PortKinds => PortIn(After("from"), pkt.srcPort) /\ PortIn(After("to"), pkt.dstPort)
  /\ Has("ipproto") => pkt.proto = Number[After("ipproto")]
  /\ Has("flags") => \A i \in DOMAIN Pairs[After("flags")] :
       LET pair == Pairs[After("flags")][i] IN (pair[1] \in pkt.flags) = (pair[2] = "+")
  /\ Has("type") => /\ pkt.type = Number[TypeOf(After("type"))]
                    /\ After("type") \in DOMAIN Dotted => pkt.code = Number[Dotted[After("type")][2]]

(* "S+F+": the document has both set, the code is content with one. *)
OneSetFlag == Has("flags") => Cardinality(With(After("flags"), "+")) <= 1

-----------------------------------------------------------------------------
(* Every field of a rule has its width, whatever the line is. *)
RuleTypeOK ==
  /\ clause \in Clauses \cup Returned
  /\ p \in Words \cup {NULL}
  /\ line \in Seq(Words)
  /\ rule \in FltRules

(* The rule of a documented line matches exactly the packets that the line *)
(* says, in the walks of filter.c: masks, port ranges, flags, types and    *)
(* the fields that are left 0, from the text to the comparison.            *)
MeansWhatItSays ==
  clause = "accepted" /\ Documented /\ OneSetFlag =>
    /\ rule.result = line[1] /\ rule.log = ~Has("nolog")
    /\ \A pkt \in Probes : RuleMatches(rule, line[2], pkt) <=> Says(pkt)

(* No documented line is refused: where the parser gives up, no documented *)
(* line begins with the words that it has read, or the line ends too soon. *)
TakesEveryRule ==
  clause \in {"rejected", "crashed"} => IF p = NULL THEN ~Documented ELSE ~Begins

(* The lines that are taken though one of their words is wrong. *)
Loose(set) == set \cup {w \in Words : Atoi(w) \in 1..255}
LooseAddr  == {w \in DOMAIN Address : Len(Address[w].host) >= 4 \/ Address[w].host = <<"any">>}
LooseForms ==
  UNION {FormsOf(k, Loose(Index), LooseAddr, Loose(ProtoNums), FlagWords \cup {""}, Loose(TypeWords) \cup DOMAIN Dotted) :
           k \in Kinds}

(* The words between "type" and the one with the point are not looked at. *)
Skipped(i) == /\ line[i - 1] = "type" /\ line[i] \notin DOMAIN Dotted
              /\ \E j \in i + 1 .. Len(line) : line[j] \in DOMAIN Dotted

(* A line that is not documented and is taken all the same has the shape   *)
(* of a rule, and only what is behind a number, an octet that is too big,  *)
(* the port of a rule without ports, an empty word of flags, a code above  *)
(* 255 or words before the point of a type can be wrong with it.  No line  *)
(* that ends too soon is read past its end, but for the one that ends      *)
(* behind the verdict (line 92 of flt_rule.c).                             *)
LaxOnlyInPlaces ==
  /\ clause = "accepted" =>
       \/ \E form \in LooseForms : Len(form) = Len(line) /\ Fits(form)
       \/ \E i \in 2..Len(line) : Skipped(i)
  /\ clause = "crashed" => \E v \in Verdicts : line = <<v>>
=============================================================================
