---------------------------- MODULE SendPackets ----------------------------
(***************************************************************************)
(* What the hooks of ndis_hk do with the packets that TCP/IP sends         *)
(* (ndis_hk/hooked_fn.c): new_SendPacketsHandler, which hands an array to  *)
(* the miniport, or the part of it that the filters allow, new_SendHandler *)
(* for one packet, and new_SendCompleteHandler.                            *)
(*                                                                         *)
(* The verdict of filter_packet is any.  The miniport and the protocol are *)
(* external: NDIS gives a packet to the miniport with the call, and back   *)
(* with a status or with SendComplete; then the protocol may send it again.*)
(***************************************************************************)
EXTENDS Naturals, Sequences, FiniteSets, SequencesExt

CONSTANTS
  Cpus,      \* processors on which the protocol sends
  Packets,   \* packets of the protocol
  MaxSends   \* bound: how often each is sent

ASSUME MaxSendsAssumption == MaxSends \in [Packets -> Nat]
ASSUME CpusAssumption     == "protocol" \notin Cpus /\ "miniport" \notin Cpus

VARIABLES
  owner,      \* per packet: "protocol", "miniport" or the processor of a handler
  sends, completions,  \* per packet, how often it was sent and given back
  status,     \* per packet: its NDIS_STATUS out-of-band field
  pc,         \* per processor: where the handler is
  array,      \* PacketArray, of NumberOfPackets entries
  i, n_allow, \* the locals of the handler
  kept,       \* new_PacketArray up to j
  denied,     \* packets that were denied when last sent (not in the code)
  handed,     \* the last array given to the miniport, and its count
  crashed     \* the miniport has used an entry that is no packet

packets == <<owner, sends, completions, status, denied>>
locals  == <<array, i, n_allow, kept>>
vars    == <<packets, pc, locals, handed, crashed>>

Arrays == {s \in UNION {[1..n -> Packets] : n \in 1..Cardinality(Packets)} :
             IsInjective(s)}

Init ==
  /\ owner = [p \in Packets |-> "protocol"]
  /\ sends = [p \in Packets |-> 0] /\ completions = [p \in Packets |-> 0]
  /\ status = [p \in Packets |-> "other"]
  /\ pc = [c \in Cpus |-> "idle"]
  /\ array = [c \in Cpus |-> <<>>] /\ kept = [c \in Cpus |-> <<>>]
  /\ i = [c \in Cpus |-> 1] /\ n_allow = [c \in Cpus |-> 0]
  /\ denied = {} /\ handed = [entries |-> <<>>, count |-> 0] /\ crashed = FALSE

At(c, l)     == ~crashed /\ pc[c] = l
Goto(c, l)   == pc' = [pc EXCEPT ![c] = l]
Advance(c)   == i' = [i EXCEPT ![c] = @ + 1]
Count(c)     == Len(array[c])
Packet(c)    == array[c][i[c]]
GiveTo(x, s) == owner' = [p \in Packets |-> IF p \in s THEN x ELSE owner[p]]
Counted(f, s) == [p \in Packets |-> IF p \in s THEN f[p] + 1 ELSE f[p]]

(* The packet is the protocol's again, which may write into it. *)
GiveBack(p) == GiveTo("protocol", {p}) /\ completions' = Counted(completions, {p})
-----------------------------------------------------------------------------
(* new_SendPacketsHandler: the packets are filtered in turn. *)
Accept(c, s) ==
  /\ At(c, "idle")
  /\ \A p \in Range(s) : owner[p] = "protocol" /\ sends[p] < MaxSends[p]
  /\ GiveTo(c, Range(s)) /\ sends' = Counted(sends, Range(s))
  /\ array' = [array EXCEPT ![c] = s]
  /\ kept' = [kept EXCEPT ![c] = <<>>]
  /\ i' = [i EXCEPT ![c] = 1]
  /\ n_allow' = [n_allow EXCEPT ![c] = Len(s)]
  /\ UNCHANGED <<completions, status, handed, crashed>>

SendPackets(c, s) == Accept(c, s) /\ Goto(c, "filter") /\ UNCHANGED denied

(* adapter_index is 0: add_adapter had no memory for a name, and what is   *)
(* sent on the adapter is not filtered.                                    *)
SendUnfiltered(c, s) ==
  Accept(c, s) /\ Goto(c, "send") /\ denied' = denied \ Range(s)

Filter(c, pass) ==
  /\ At(c, "filter") /\ i[c] <= Count(c)
  /\ n_allow' = [n_allow EXCEPT ![c] = IF pass THEN @ ELSE @ - 1]
  /\ status' = [status EXCEPT ![Packet(c)] = IF pass THEN "success" ELSE "failure"]
  /\ denied' = IF pass THEN denied \ {Packet(c)} ELSE denied \cup {Packet(c)}
  /\ Advance(c)
  /\ UNCHANGED <<owner, sends, completions, pc, array, kept, handed, crashed>>

(* No packet is left, or there is no memory for the new array: all are     *)
(* completed.  When some are left, they are put in a new array.            *)
Decide(c) ==
  /\ At(c, "filter") /\ i[c] > Count(c)
  /\ i' = [i EXCEPT ![c] = 1]
  /\ \/ n_allow[c] = Count(c) /\ Goto(c, "send")
     \/ n_allow[c] < Count(c) /\ Goto(c, "complete")
     \/ n_allow[c] < Count(c) /\ n_allow[c] > 0 /\ Goto(c, "fill")
  /\ UNCHANGED <<packets, array, n_allow, kept, handed, crashed>>

Complete(c) ==
  /\ At(c, "complete") /\ i[c] <= Count(c)
  /\ GiveBack(Packet(c))
  /\ Advance(c)
  /\ UNCHANGED <<sends, status, denied, pc, array, n_allow, kept, handed, crashed>>

AfterComplete_bug == "send"                  \* forgets to return
AfterComplete     == "idle"

Completed(c) ==
  /\ At(c, "complete") /\ i[c] > Count(c)
  /\ Goto(c, AfterComplete)
  /\ UNCHANGED <<packets, locals, handed, crashed>>

IsAllowed_bug(p) == status[p] # "other"      \* any verdict will do
IsAllowed(p)     == status[p] = "success"

Room(c)     == Len(kept[c]) < n_allow[c]

Keep(c) ==
  /\ At(c, "fill") /\ i[c] <= Count(c) /\ IsAllowed(Packet(c))
  /\ IF Room(c)
     THEN kept' = [kept EXCEPT ![c] = Append(@, Packet(c))] /\ Advance(c)
     ELSE i' = [i EXCEPT ![c] = Count(c) + 1] /\ UNCHANGED kept
  /\ UNCHANGED <<packets, pc, array, n_allow, handed, crashed>>

Discard_bug(p) == UNCHANGED <<owner, completions>>  \* never completes the denied
Discard(p)     == GiveBack(p)

Drop(c) ==
  /\ At(c, "fill") /\ i[c] <= Count(c) /\ ~IsAllowed(Packet(c))
  /\ Discard(Packet(c))
  /\ Advance(c)
  /\ UNCHANGED <<sends, status, denied, pc, array, n_allow, kept, handed, crashed>>

SendAll(c) ==
  /\ At(c, "send")
  /\ handed' = [entries |-> array[c], count |-> Count(c)]
  /\ GiveTo("miniport", Range(array[c]))
  /\ Goto(c, "idle")
  /\ UNCHANGED <<sends, completions, status, denied, locals, crashed>>

(* The new array goes to the miniport with the count of the old one.  What *)
(* is read beyond its end is undefined: the miniport may fail, or see that *)
(* it is no packet.                                                        *)
SendKept(c) ==
  /\ At(c, "fill") /\ i[c] > Count(c)
  /\ handed' = [entries |-> kept[c], count |-> Count(c)]
  /\ crashed' \in {TRUE, FALSE}
  /\ GiveTo("miniport", Range(kept[c]))
  /\ Goto(c, "idle")
  /\ UNCHANGED <<sends, completions, status, denied, locals>>
-----------------------------------------------------------------------------
(* new_SendHandler.  A denied packet is the protocol's when the call       *)
(* returns success; so is one that the miniport does not keep.             *)
Send(c, p, pass) ==
  /\ At(c, "idle") /\ owner[p] = "protocol" /\ sends[p] < MaxSends[p]
  /\ sends' = Counted(sends, {p})
  /\ denied' = IF pass THEN denied \ {p} ELSE denied \cup {p}
  /\ \/ GiveBack(p)
     \/ pass /\ GiveTo("miniport", {p}) /\ UNCHANGED completions
  /\ UNCHANGED <<status, pc, locals, handed, crashed>>

(* new_SendCompleteHandler for a packet of the protocol. *)
SendComplete(p) ==
  /\ ~crashed /\ owner[p] = "miniport"
  /\ GiveBack(p)
  /\ UNCHANGED <<sends, status, denied, pc, locals, handed, crashed>>
-----------------------------------------------------------------------------
Handler(c) == \/ \E pass \in BOOLEAN : Filter(c, pass)
              \/ Decide(c) \/ Complete(c) \/ Completed(c)
              \/ Keep(c) \/ Drop(c) \/ SendAll(c) \/ SendKept(c)

Next ==
  \/ \E c \in Cpus, s \in Arrays : SendPackets(c, s) \/ SendUnfiltered(c, s)
  \/ \E c \in Cpus, p \in Packets, pass \in BOOLEAN : Send(c, p, pass)
  \/ \E c \in Cpus : Handler(c)
  \/ \E p \in Packets : SendComplete(p)

Spec == Init /\ [][Next]_vars

(* The handlers run at raised IRQL to their end; a miniport has to         *)
(* complete what it was given.                                             *)
FairSpec ==
  /\ Spec
  /\ \A c \in Cpus : WF_vars(Handler(c))
  /\ \A p \in Packets : WF_vars(SendComplete(p))
-----------------------------------------------------------------------------
(* The type invariant. *)
TypeOK ==
  /\ owner \in [Packets -> {"protocol", "miniport"} \cup Cpus]
  /\ sends \in [Packets -> Nat] /\ completions \in [Packets -> Nat]
  /\ status \in [Packets -> {"other", "success", "failure"}]
  /\ pc \in [Cpus -> {"idle", "filter", "complete", "fill", "send"}]
  /\ array \in [Cpus -> Seq(Packets)] /\ kept \in [Cpus -> Seq(Packets)]
  /\ i \in [Cpus -> Nat] /\ n_allow \in [Cpus -> Nat]
  /\ denied \subseteq Packets /\ crashed \in BOOLEAN

(* Each send of a packet is answered exactly once, by a status, by a       *)
(* SendComplete of the hook or by one of the miniport.                     *)
OwedOnce ==
  \A p \in Packets :
    sends[p] = completions[p] + (IF owner[p] = "protocol" THEN 0 ELSE 1)

(* The packets a handler still has to look at or has kept are those that   *)
(* it owns: it reads no status of a packet it has given back, and it       *)
(* returns with none in its hands.                                         *)
Pending(c) ==
  CASE pc[c] = "idle" -> {}
    [] pc[c] \in {"filter", "send"} -> Range(array[c])
    [] OTHER -> {array[c][k] : k \in i[c]..Count(c)} \cup Range(kept[c])
HoldsPending == \A c \in Cpus : {p \in Packets : owner[p] = c} = Pending(c)

(* No packet that the filters denied reaches the miniport, and the new     *)
(* array has the allowed packets, all of them, in their order.             *)
DeniedStayBack == \A p \in Packets : owner[p] = "miniport" => p \notin denied

AllowedSoFar(c) == {p \in {array[c][k] : k \in 1..i[c] - 1} : p \notin denied /\ owner[p] = c}
InOrder(c) ==
  \A x, y \in 1..Len(kept[c]), j, k \in 1..Count(c) :
    x < y /\ kept[c][x] = array[c][j] /\ kept[c][y] = array[c][k] => j < k

DeniedNeverSent ==
  /\ DeniedStayBack
  /\ \A c \in Cpus : pc[c] = "fill" =>
       /\ Range(kept[c]) = AllowedSoFar(c) /\ InOrder(c)
       /\ i[c] > Count(c) => Len(kept[c]) = n_allow[c]

(* The handlers keep the promise of SendPromise: an allowed packet is given *)
(* back unsent only by a call that has denied another and has given up, the *)
(* others go to the miniport together, and each send is answered once.      *)
Seen(p) == pc[owner[p]] = "filter" =>
             p \in {array[owner[p]][k] : k \in 1..i[owner[p]] - 1}
Verdict(p) == IF owner[p] \notin Cpus \/ ~Seen(p) THEN "none"
              ELSE IF p \in denied THEN "denied" ELSE "allowed"
GivenUp == {c \in Cpus : pc[c] = "complete" /\ i[c] <= Count(c)}

Promise == INSTANCE SendPromise
             WITH Calls <- Cpus, place <- owner, givenUp <- GivenUp,
                  verdict <- [p \in Packets |-> Verdict(p)],
                  sent <- sends, answered <- completions
KeepsPromise == Promise!Spec

(* Every packet that is sent comes back, unless the miniport has failed. *)
ComesBack == \A p \in Packets : owner[p] # "protocol" ~> owner[p] = "protocol" \/ crashed

(* "call it with modified array of packets": the miniport is given an      *)
(* array and the number of its entries.                                    *)
CountIsLength == handed.count = Len(handed.entries)
=============================================================================
