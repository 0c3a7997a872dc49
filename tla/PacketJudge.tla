----------------------------- MODULE PacketJudge -----------------------------
(***************************************************************************)
(* How filter_packet of ndis_flt/packet.c finds the headers of a frame in  *)
(* its chain of buffers, and which of them it puts to the rules.  A        *)
(* datagram comes in one frame or in fragments, in any order and more than *)
(* once, and each frame is laid out in buffers of its own.                 *)
(*                                                                         *)
(* RuleChain has the walk of a table, and FilterStack what becomes of the  *)
(* verdict and the RST that a denied segment is answered with.             *)
(***************************************************************************)
EXTENDS Integers, FiniteSetsExt

CONSTANTS
  HeaderLengths,  \* values of ip_hl
  Lengths,        \* bytes of the last, or only, frame of a datagram
  Cuts,           \* where one buffer may end and the next begin
  MaxCuts,        \* how many times in a frame
  Unit,           \* units of 8 bytes of a datagram in a frame that is not the last
  MaxFragments    \* frames of a datagram

Transports == {"tcp", "udp", "icmp"}
Size       == [ether |-> 14, ip |-> 20, tcp |-> 20, udp |-> 8, icmp |-> 4]
Verdicts   == {"allow", "deny"}

ASSUME LayoutAssumption ==
  /\ HeaderLengths \subseteq 0..15
  /\ IsFiniteSet(Lengths) /\ Lengths \subseteq Nat \ {0}
  /\ IsFiniteSet(Cuts) /\ Cuts \subseteq Nat \ {0} /\ MaxCuts \in Nat
  /\ Unit \in Nat \ {0} /\ MaxFragments \in Nat \ {0}
  /\ Unit * MaxFragments <= 8192      \* an offset has 13 bits

VARIABLES
  dgram,    \* the datagram, and what the rules say of its two headers
  nth,      \* the fragment that the frame carries
  ends,     \* its buffers, each by the place where it ends
  pc,       \* the header that filter_packet is about to read
  buffer,   \* the buffer it is in
  pointer,  \* the next header, in bytes of the frame
  asked,    \* the header that was last put to a table
  result,
  through   \* the fragments that the child was given

frame == <<nth, ends>>
vars  == <<dgram, frame, pc, buffer, pointer, asked, result, through>>

Layouts   == {at \in SUBSET Cuts : Cardinality(at) <= MaxCuts}
Datagrams == [type : {"ip", "other"}, ip_hl : HeaderLengths,
              ip_p : Transports \cup {"other"}, fragments : 1..MaxFragments,
              length : Lengths, ip : Verdicts, transp : Verdicts]
NotAsked  == [table |-> "none", at |-> 0]

Init ==
  /\ dgram \in {d \in Datagrams : d.type = "other" => d.fragments = 1}
  /\ nth = 1 /\ ends = {1}
  /\ pc = "idle" /\ buffer = 1 /\ pointer = 0
  /\ asked = NotAsked /\ result = "unknown"
  /\ through = {}
-----------------------------------------------------------------------------
(* filter_packet is called with a frame.  A fragment that is not the last  *)
(* is full.                                                                *)
hdr_len == dgram.ip_hl * 4
packet_len(k) == IF k < dgram.fragments THEN Size.ether + hdr_len + 8 * Unit
                                        ELSE dgram.length

Arrive ==
  /\ pc = "idle"
  /\ \E k \in 1..dgram.fragments, at \in Layouts :
       /\ \A c \in at : c < packet_len(k)
       /\ nth' = k
       /\ ends' = at \cup {packet_len(k)}
       /\ buffer' = Min(ends')
  /\ pc' = "ether" /\ pointer' = 0
  /\ asked' = NotAsked /\ result' = "unknown"
  /\ UNCHANGED <<dgram, through>>

buffer_len == buffer - pointer
Beyond     == {e \in ends : e > buffer}

(* A header that is not the last one is followed by the next, in the same  *)
(* buffer or in the next one, which need not be there.                     *)
Inside_bug(len) == buffer_len >= len    \* one that ends the buffer is not looked at
Inside(len)     == buffer_len > len

StepOver(len, header) ==
  IF Inside(len)
    THEN pointer' = pointer + len /\ pc' = header /\ UNCHANGED buffer
    ELSE IF Beyond # {}
      THEN pointer' = buffer /\ buffer' = Min(Beyond) /\ pc' = header
      ELSE pc' = "crashed" /\ UNCHANGED <<buffer, pointer>>

Judged(v) ==
  /\ pc' = "judged" /\ result' = v
  /\ through' = IF v = "allow" THEN through \cup {nth} ELSE through
  /\ UNCHANGED <<buffer, pointer>>
-----------------------------------------------------------------------------
ReadEther ==
  /\ pc = "ether"
  /\ IF buffer_len < Size.ether
       THEN Judged("unknown")
       ELSE StepOver(Size.ether, "ip") /\ UNCHANGED <<result, through>>
  /\ UNCHANGED <<dgram, frame, asked>>

NotIP ==
  /\ pc = "ip" /\ dgram.type # "ip"
  /\ Judged("allow")
  /\ UNCHANGED <<dgram, frame, asked>>

(* ip_off: the offset is taken from it in the order of the host, IP_DF in  *)
(* that of the network, where 0x4000 is bit 6 of the offset.               *)
Offset(k)  == (k - 1) * Unit
DFBit(k)   == (Offset(k) \div 64) % 2 = 1
MoreFragments(k) == k < dgram.fragments

AtIP == pc = "ip" /\ dgram.type = "ip"
IPCut == buffer_len < Size.ip \/ buffer_len < hdr_len

IsLater_bug == Offset(nth) # 0 \/ MoreFragments(nth)   \* IP_OFFMASK takes in IP_MF
IsLater     == Offset(nth) # 0 /\ ~DFBit(nth)

CutIP ==
  /\ AtIP /\ IPCut
  /\ Judged("unknown")
  /\ UNCHANGED <<dgram, frame, asked>>

LaterFragment ==
  /\ AtIP /\ ~IPCut /\ IsLater
  /\ Judged("allow")
  /\ UNCHANGED <<dgram, frame, asked>>

AskIP ==
  /\ AtIP /\ ~IPCut /\ ~IsLater
  /\ asked' = [table |-> "ip", at |-> pointer]
  /\ IF dgram.ip = "deny"
       THEN Judged("deny")
       ELSE StepOver(hdr_len, "transp") /\ UNCHANGED <<result, through>>
  /\ UNCHANGED <<dgram, frame>>
-----------------------------------------------------------------------------
TranspCut_bug == FALSE                  \* takes the header to be there
TranspCut     == buffer_len < Size[dgram.ip_p]

NoTable ==
  /\ pc = "transp" /\ dgram.ip_p \notin Transports
  /\ Judged("unknown")
  /\ UNCHANGED <<dgram, frame, asked>>

CutTransp ==
  /\ pc = "transp" /\ dgram.ip_p \in Transports /\ TranspCut
  /\ Judged("unknown")
  /\ UNCHANGED <<dgram, frame, asked>>

(* What is not the header of the datagram may look like any header. *)
Own(k, at) == k = 1 /\ at = Size.ether + hdr_len /\ hdr_len >= Size.ip

AskTransp ==
  /\ pc = "transp" /\ dgram.ip_p \in Transports /\ ~TranspCut
  /\ asked' = [table |-> dgram.ip_p, at |-> pointer]
  /\ \E v \in IF Own(nth, pointer) THEN {dgram.transp} ELSE Verdicts : Judged(v)
  /\ UNCHANGED <<dgram, frame>>

(* filter_packet returns. *)
Return ==
  /\ pc = "judged"
  /\ pc' = "idle"
  /\ UNCHANGED <<dgram, frame, buffer, pointer, asked, result, through>>

Next ==
  \/ Arrive \/ ReadEther \/ NotIP \/ CutIP \/ LaterFragment \/ AskIP
  \/ NoTable \/ CutTransp \/ AskTransp \/ Return

Spec == Init /\ [][Next]_vars
-----------------------------------------------------------------------------
TypeOK ==
  /\ dgram \in Datagrams /\ nth \in 1..dgram.fragments
  /\ ends \subseteq Nat \ {0}
  /\ pc \in {"idle", "ether", "ip", "transp", "judged", "crashed"}
  /\ buffer \in Nat \ {0} /\ pointer \in Nat
  /\ result \in Verdicts \cup {"unknown"}
  /\ through \subseteq 1..dgram.fragments

Proper  == dgram.type = "ip" /\ hdr_len >= Size.ip

Allowed == dgram.type = "ip" => /\ dgram.ip = "allow" /\ dgram.transp = "allow"
                                /\ dgram.ip_p \in Transports

(* What the rules do not allow never arrives in one piece: no history of   *)
(* reordered, repeated and lost fragments lets all of a datagram through   *)
(* that a table denies, or that no table knows.  (filter_packet passes     *)
(* later fragments unjudged, so all rests on the first.)                   *)
DeniedStaysOut == Proper /\ through = 1..dgram.fragments => Allowed

(* Where the headers are, told by the frame and not by the way there, and  *)
(* whether one can be read: all of it is in one buffer.                    *)
Readable(at, n) == /\ \E e \in ends : e >= at + n
                   /\ \A e \in ends : e <= at \/ e >= at + n
TranspAt        == Size.ether + hdr_len
EndsAt(at)      == at \in ends /\ \A e \in ends : e <= at

(* "check we've got the first fragment (doesn't work with another!)"       *)
(* (packet.c:112): it does work with another when IP_DF, in the order of    *)
(* the network, is a bit of its offset.  A header length below 5 words     *)
(* leads back into the header itself.                                      *)
Misread == \/ nth > 1 /\ DFBit(nth)
           \/ dgram.type = "ip" /\ hdr_len < Size.ip

Unreadable ==
  \/ ~Readable(0, Size.ether)
  \/ dgram.type = "ip" /\ ~Readable(Size.ether, Size.ip)
  \/ dgram.type = "ip" /\ ~Readable(Size.ether, hdr_len)
  \/ /\ dgram.type = "ip" /\ nth = 1 /\ dgram.ip_p \in Transports
     /\ ~Readable(TranspAt, Size[dgram.ip_p])

(* A table is asked about a header of the datagram that is all in one      *)
(* buffer, or about what Misread names, which is in one buffer as well.    *)
(* What is stopped is denied, or has no table, or has a header that is not *)
(* in one buffer.  NdisGetNextBuffer is called at the end of the chain     *)
(* only when the frame ends with one of the first two headers.             *)
JudgesItsHeaders ==
  /\ asked # NotAsked =>
       /\ Readable(asked.at, Size[asked.table])
       /\ asked.table = "ip" => asked.at = Size.ether
       /\ asked.table # "ip" => Own(nth, asked.at) \/ Misread
  /\ pc = "judged" /\ result # "allow" =>
       Unreadable \/ Misread \/ (nth = 1 /\ ~Allowed)
  /\ pc = "crashed" =>
       EndsAt(Size.ether) \/ (dgram.type = "ip" /\ EndsAt(TranspAt))
=============================================================================
