----------------------------- MODULE OwnPackets -----------------------------
(***************************************************************************)
(* The packets that ndis_hk makes itself (ndis_hk/hooked_fn.c), all from   *)
(* one pool of packets and one of buffers:                                 *)
(*   "out"   send_out_packet: a copy that is sent to the adapter;          *)
(*   "whole" new_ReceiveHandler, when the lookahead is the whole frame;    *)
(*   "part"  new_ReceiveHandler, when the rest of the frame has to be      *)
(*           fetched from the miniport first.                              *)
(* "out" and "part" hand their packet to the miniport, which returns a     *)
(* final status or NDIS_STATUS_PENDING.  In that case it completes the     *)
(* packet, perhaps on another processor even before it returns, and        *)
(* new_SendCompleteHandler or new_TransferDataCompleteHandler ends what    *)
(* the call began.  The verdict of filter_packet is any.                   *)
(***************************************************************************)
EXTENDS Naturals, Sequences, FiniteSets, SequencesExt

CONSTANTS
  Calls,     \* calls of send_out_packet and new_ReceiveHandler
  PoolSize   \* packets of g_packet_pool, and buffers of g_buffer_pool

ASSUME PoolAssumption == PoolSize \in Nat

Parts == {"data", "hdr_buffer", "buffer", "packet"}
Kinds == {"out", "whole", "part"}

(* What each kind allocates, in this order. *)
Plan == [out   |-> <<"data", "buffer", "packet">>,
         whole |-> <<"hdr_buffer", "buffer", "packet">>,
         part  |-> <<"data", "hdr_buffer", "buffer", "packet">>]

VARIABLES
  kind, pc,  \* per call: what it is, and where
  locals,    \* per call: which of its pointers are not NULL
  memory,    \* per call: which parts are allocated
  miniport,  \* per call: "no", "has" or "completed" (for the packet)
  arrived,   \* per call: the frame is in memory ("part": was transferred)
  filtered, indicated, \* per call: how often its frame went to the filters
             \* and to the ReceiveHandler of the protocol
  twice      \* parts that were freed when they were not allocated

frames == <<arrived, filtered, indicated>>
vars   == <<kind, pc, locals, memory, miniport, frames, twice>>

Init ==
  /\ kind \in [Calls -> Kinds]
  /\ pc = [k \in Calls |-> "new"]
  /\ locals = [k \in Calls |-> {}] /\ memory = [k \in Calls |-> {}]
  /\ miniport = [k \in Calls |-> "no"]
  /\ arrived = [k \in Calls |-> FALSE]
  /\ filtered = [k \in Calls |-> 0] /\ indicated = [k \in Calls |-> 0]
  /\ twice = {}

Whole(k)    == Range(Plan[kind[k]])
Packets     == Cardinality({k \in Calls : "packet" \in memory[k]})
Buffers     == Cardinality({x \in Calls \X {"buffer", "hdr_buffer"} : x[2] \in memory[x[1]]})
InPool(part) == CASE part = "packet" -> Packets < PoolSize
                  [] part = "data"   -> TRUE
                  [] OTHER           -> Buffers < PoolSize
Goto(k, l) == pc' = [pc EXCEPT ![k] = l]
Free(k, parts) ==
  /\ memory' = [memory EXCEPT ![k] = @ \ parts]
  /\ twice' = twice \cup (parts \ memory[k])
-----------------------------------------------------------------------------
(* No protocol or no such adapter: the call returns. *)
GiveUp(k) ==
  /\ pc[k] = "new"
  /\ Goto(k, "done")
  /\ UNCHANGED <<kind, locals, memory, miniport, frames, twice>>

Begin(k) ==
  /\ pc[k] = "new"
  /\ Goto(k, "allocate")
  /\ arrived' = [arrived EXCEPT ![k] = kind[k] # "part"]
  /\ UNCHANGED <<kind, locals, memory, miniport, filtered, indicated, twice>>

Allocate(k) ==
  /\ pc[k] = "allocate" /\ locals[k] # Whole(k)
  /\ LET part == Plan[kind[k]][Cardinality(locals[k]) + 1] IN
     /\ InPool(part)
     /\ memory' = [memory EXCEPT ![k] = @ \cup {part}]
     /\ locals' = [locals EXCEPT ![k] = @ \cup {part}]
  /\ UNCHANGED <<kind, pc, miniport, frames, twice>>

AfterFailure     == "cleanup"

Fail(k) ==
  /\ pc[k] = "allocate" /\ locals[k] # Whole(k)
  /\ Goto(k, AfterFailure)
  /\ UNCHANGED <<kind, locals, memory, miniport, frames, twice>>

Allocated(k) ==
  /\ pc[k] = "allocate" /\ locals[k] = Whole(k)
  /\ Goto(k, IF kind[k] = "whole" THEN "filter" ELSE "hand")
  /\ UNCHANGED <<kind, locals, memory, miniport, frames, twice>>

(* The original SendHandler or TransferDataHandler is called. *)
Hand(k) ==
  /\ pc[k] = "hand"
  /\ miniport' = [miniport EXCEPT ![k] = "has"]
  /\ Goto(k, "handed")
  /\ UNCHANGED <<kind, locals, memory, frames, twice>>

(* It returns a status that is final: success only means more for "part". *)
Returns(k, success) ==
  /\ pc[k] = "handed" /\ miniport[k] = "has"
  /\ miniport' = [miniport EXCEPT ![k] = "no"]
  /\ arrived' = [arrived EXCEPT ![k] = @ \/ success]
  /\ Goto(k, IF success /\ kind[k] = "part" THEN "filter" ELSE "cleanup")
  /\ UNCHANGED <<kind, locals, memory, filtered, indicated, twice>>

LeftToCompletion_bug(k) == locals[k] \ {"packet"}  \* the packet is not left alone
LeftToCompletion(k)     == locals[k]
AfterPending_bug(k) == IF kind[k] = "part" THEN "filter" ELSE "cleanup"  \* takes it for success
AfterPending(k)     == "cleanup"

Pends(k) ==
  /\ pc[k] = "handed" /\ miniport[k] \in {"has", "completed"}
  /\ locals' = [locals EXCEPT ![k] = @ \ LeftToCompletion(k)]
  /\ Goto(k, AfterPending(k))
  /\ UNCHANGED <<kind, memory, miniport, frames, twice>>

Filter(k, pass) ==
  /\ pc[k] = "filter"
  /\ filtered' = [filtered EXCEPT ![k] = @ + 1]
  /\ Goto(k, IF pass THEN "indicate" ELSE "cleanup")
  /\ UNCHANGED <<kind, locals, memory, miniport, arrived, indicated, twice>>

(* The ReceiveHandler of the protocol is given the frame, and returns. *)
Indicate(k) ==
  /\ pc[k] = "indicate"
  /\ indicated' = [indicated EXCEPT ![k] = @ + 1]
  /\ Goto(k, "cleanup")
  /\ UNCHANGED <<kind, locals, memory, miniport, arrived, filtered, twice>>

CleanedUp_bug(k) == locals[k] \ {"hdr_buffer"}  \* forgets one of the buffers
CleanedUp(k)     == locals[k]

Cleanup(k) ==
  /\ pc[k] = "cleanup"
  /\ Free(k, CleanedUp(k))
  /\ locals' = [locals EXCEPT ![k] = {}]
  /\ Goto(k, "done")
  /\ UNCHANGED <<kind, miniport, frames>>
-----------------------------------------------------------------------------
(* new_SendCompleteHandler, for a packet with the magic of send_out_packet,*)
(* and new_TransferDataCompleteHandler, which does not look at the status  *)
(* of the transfer: the frame is filtered whether it has arrived or not.   *)
FreedOnCompletion_bug(k) == Whole(k) \ {"data"}  \* forgets the memory of the frame
FreedOnCompletion(k)     == Whole(k)

Finish(k) ==
  /\ miniport[k] = "has"
  /\ Free(k, FreedOnCompletion(k))
  /\ miniport' = [miniport EXCEPT ![k] = "completed"]
  /\ UNCHANGED <<kind, pc, locals>>

SendComplete(k) ==
  /\ kind[k] = "out"
  /\ Finish(k)
  /\ UNCHANGED frames

TransferDataComplete(k, success, found, pass) ==
  /\ kind[k] = "part"
  /\ Finish(k)
  /\ arrived' = [arrived EXCEPT ![k] = success]
  /\ filtered' = [filtered EXCEPT ![k] = IF found THEN @ + 1 ELSE @]
  /\ indicated' = [indicated EXCEPT ![k] = IF found /\ pass THEN @ + 1 ELSE @]
-----------------------------------------------------------------------------
Call(k) == \/ GiveUp(k) \/ Begin(k) \/ Allocate(k) \/ Fail(k) \/ Allocated(k)
           \/ Hand(k) \/ Pends(k) \/ Indicate(k) \/ Cleanup(k)
           \/ \E b \in BOOLEAN : Returns(k, b) \/ Filter(k, b)

Completion(k) ==
  SendComplete(k) \/ \E s, f, p \in BOOLEAN : TransferDataComplete(k, s, f, p)

Next == \E k \in Calls : Call(k) \/ Completion(k)

Spec == Init /\ [][Next]_vars

(* A call runs to its end, and a miniport completes what it has kept. *)
FairSpec == /\ Spec
            /\ \A k \in Calls : WF_vars(Call(k)) /\ WF_vars(Completion(k))
-----------------------------------------------------------------------------
(* The type invariant. *)
TypeOK ==
  /\ kind \in [Calls -> Kinds]
  /\ pc \in [Calls -> {"new", "allocate", "hand", "handed", "filter", "indicate",
                       "cleanup", "done"}]
  /\ locals \in [Calls -> SUBSET Parts] /\ memory \in [Calls -> SUBSET Parts]
  /\ miniport \in [Calls -> {"no", "has", "completed"}]
  /\ arrived \in [Calls -> BOOLEAN]
  /\ filtered \in [Calls -> Nat] /\ indicated \in [Calls -> Nat]
  /\ twice \subseteq Parts

(* Data, buffers and packet are freed once, by the call or by the          *)
(* completion, wherever the completion comes, and not before the miniport, *)
(* the filters and the protocol have done with the packet.                 *)
FreedOnce ==
  /\ twice = {}
  /\ \A k \in Calls :
       miniport[k] = "has" \/ pc[k] \in {"filter", "indicate"} => memory[k] = Whole(k)

(* Nothing is allocated that neither the call nor the miniport will free:  *)
(* what is lost is lost for the pools.                                     *)
Owned == \A k \in Calls :
  memory[k] # {} => miniport[k] = "has" \/ memory[k] \subseteq locals[k]

(* A received frame is filtered at most once, whether it is fetched at     *)
(* once or later, and the protocol sees it only after that; nothing that   *)
(* is sent is indicated.  "We got the whole packet and call original       *)
(* ReceiveHandler" (hooked_fn.c:882): so it is, but for the one handler    *)
(* that does not look at the status of the transfer.                       *)
IndicatedOnce ==
  \A k \in Calls : /\ indicated[k] <= filtered[k] /\ filtered[k] <= 1
                   /\ kind[k] = "out" => filtered[k] = 0
                   /\ indicated[k] > 0 => arrived[k] \/ miniport[k] = "completed"

(* The pools are full again in the end, however the calls ended. *)
PoolsRefill == <>[](Packets = 0 /\ Buffers = 0)
=============================================================================
