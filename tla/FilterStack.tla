----------------------------- MODULE FilterStack -----------------------------
(***************************************************************************)
(* The stack of packet filters of ndis_hk (ndis_hk/filter.c): the doubly   *)
(* linked list between the adapter ("top") and TCP/IP ("bottom"), the way  *)
(* a packet goes through it under the spin lock, the RST that a filter     *)
(* sends back while it denies a segment (ndis_flt/packet.c), and the two   *)
(* ends, which pass an unchanged packet and queue a copy of a changed one. *)
(*                                                                         *)
(* A packet in flight is a frame on the stack of its processor: a filter   *)
(* that sends an RST calls into the list again before it returns.          *)
(***************************************************************************)
EXTENDS Naturals, Sequences, FiniteSets, SequencesExt

CONSTANTS
  Filters,   \* struct filter_nfo that drivers attach
  Cpus,      \* processors on which NDIS hands over packets
  Packets,   \* packets, each filtered once
  NULL

Ends == {"top", "bottom"}
Dirs == {"in", "out"}
ASSUME NamesAssumption == Filters \cap Ends = {} /\ NULL \notin Filters \cup Ends \cup Cpus

VARIABLES
  upper, lower,  \* the pointers of struct filter_nfo
  order,         \* the attached filters from top to bottom (not in the code)
  guard,         \* holder of the spin lock, or NULL
  calls,         \* per processor, the packets it is carrying, innermost last
  verdict,       \* per packet: "none", or what filter_packet returned for it
  work,          \* work items of send_in_packet_delayed
  sent           \* what the ends gave to the adapter or to TCP/IP, in order

list == <<upper, lower, order>>
vars == <<list, guard, calls, verdict, work, sent>>

Nodes == Filters \cup Ends
Kinds == {"packet", "rst"}

(* path: the filters that passed it; below: what there was to pass when it *)
(* entered the list; changed: a filter has changed it.  None is in the     *)
(* code, where a frame is the arguments of process_packet.                 *)
Frame == [pkt : Packets, kind : Kinds, dir : Dirs, at : Nodes,
          unchanged : BOOLEAN, changed : BOOLEAN,
          path : Seq(Filters), below : Seq(Filters)]

Init ==
  /\ upper = [n \in Nodes |-> IF n = "bottom" THEN "top" ELSE NULL]
  /\ lower = [n \in Nodes |-> IF n = "top" THEN "bottom" ELSE NULL]
  /\ order = <<>>
  /\ guard = NULL
  /\ calls = [c \in Cpus |-> <<>>]
  /\ verdict = [p \in Packets |-> "none"]
  /\ work = {} /\ sent = <<>>
-----------------------------------------------------------------------------
(* attach_filter.  A filter is attached at most once: its pointers are in  *)
(* the structure, so its driver must not attach it twice.                  *)
Free_bug == TRUE                             \* the list changes without the lock
Free     == guard = NULL

AttachTop(f) ==
  /\ Free /\ f \notin Range(order)
  /\ upper' = [upper EXCEPT ![lower["top"]] = f, ![f] = "top"]
  /\ lower' = [lower EXCEPT ![f] = lower["top"], !["top"] = f]
  /\ order' = <<f>> \o order
  /\ UNCHANGED <<guard, calls, verdict, work, sent>>

AttachBottom(f) ==
  /\ Free /\ f \notin Range(order)
  /\ lower' = [lower EXCEPT ![upper["bottom"]] = f, ![f] = "bottom"]
  /\ upper' = [upper EXCEPT ![f] = upper["bottom"], !["bottom"] = f]
  /\ order' = Append(order, f)
  /\ UNCHANGED <<guard, calls, verdict, work, sent>>

(* The filters that the loop of attach_filter meets: the least set that it *)
(* cannot leave.                                                           *)
Followed == {S \in SUBSET Nodes : /\ lower["top"] \in S
                                  /\ \A g \in S \cap Filters : lower[g] \in S}
Below    == {f \in Filters : \A S \in Followed : f \in S}

UpperAfterDetach_bug(f) == upper             \* the upward list still has f
UpperAfterDetach(f) == [upper EXCEPT ![lower[f]] = upper[f]]

Detach(f) ==
  /\ Free
  /\ f \in Below
  /\ lower' = [lower EXCEPT ![upper[f]] = lower[f]]
  /\ upper' = UpperAfterDetach(f)
  /\ order' = RemoveFirst(order, f)
  /\ UNCHANGED <<guard, calls, verdict, work, sent>>
-----------------------------------------------------------------------------
(* filter_packet of ndis_hk/filter.c: the lock is held until the call of   *)
(* the first filter returns.                                               *)
Onward(n, d)   == IF d = "in" THEN lower[n] ELSE upper[n]
Opposite(d)     == IF d = "in" THEN "out" ELSE "in"
Entry(d)       == IF d = "in" THEN lower["top"] ELSE upper["bottom"]
Along(s, d)    == IF d = "in" THEN s ELSE Reverse(s)

Enter(c, p, d) ==
  /\ guard = NULL /\ calls[c] = <<>>
  /\ verdict[p] = "none"
  /\ guard' = c
  /\ calls' = [calls EXCEPT ![c] =
                 <<[pkt |-> p, kind |-> "packet", dir |-> d, at |-> Entry(d),
                    unchanged |-> TRUE, changed |-> FALSE,
                    path |-> <<>>, below |-> Along(order, d)]>>]
  /\ UNCHANGED <<list, verdict, work, sent>>

Top(c) == Last(calls[c])

Unlocked_bug == guard                        \* returns with the lock held
Unlocked     == NULL

(* A return gives its value to the caller of the list or, when the frame   *)
(* is an RST, to send_packet, after which the filter that denied the       *)
(* segment returns FALSE to its own caller.                                *)
Return(c, passed) ==
  LET first == Head(calls[c]) IN
  /\ calls' = [calls EXCEPT ![c] = <<>>]
  /\ verdict' = [verdict EXCEPT ![first.pkt] =
                   IF Len(calls[c]) = 1 /\ passed THEN "pass" ELSE "stop"]
  /\ guard' = Unlocked

AtFilter(c) == calls[c] # <<>> /\ Top(c).at \in Filters

(* A filter passes the packet on, as it is or changed.  ndis_flt never     *)
(* changes one; the interface lets a filter do it.                         *)
Handed(fr, change)     == fr.unchanged /\ ~change

Pass(c, change) ==
  LET fr == Top(c) IN
  /\ AtFilter(c)
  /\ calls' = [calls EXCEPT ![c][Len(calls[c])] =
                 [fr EXCEPT !.at = Onward(fr.at, fr.dir),
                            !.unchanged = Handed(fr, change),
                            !.changed = fr.changed \/ change,
                            !.path = Append(fr.path, fr.at)]]
  /\ UNCHANGED <<list, guard, verdict, work, sent>>

(* result # FILTER_ALLOW: the packet goes no further. *)
Deny(c) ==
  /\ AtFilter(c)
  /\ Return(c, FALSE)
  /\ UNCHANGED <<list, work, sent>>

(* process_tcp and send_packet: an RST starts at the parent, the filter    *)
(* that the segment came from, and counts as changed.  An RST is not       *)
(* answered.  When there is no MDL for it, this is Deny.                   *)
Parent_bug(fr) == Onward(fr.at, fr.dir)        \* sends to the child
Parent(fr)     == IF fr.dir = "in" THEN upper[fr.at] ELSE lower[fr.at]

DenyWithRst(c) ==
  LET fr == Top(c) IN
  /\ AtFilter(c) /\ fr.kind = "packet"
  /\ calls' = [calls EXCEPT ![c] = Append(@,
                 [pkt |-> fr.pkt, kind |-> "rst", dir |-> Opposite(fr.dir),
                  at |-> Parent(fr), unchanged |-> FALSE, changed |-> TRUE,
                  path |-> <<>>, below |-> Reverse(fr.path)])]
  /\ UNCHANGED <<list, guard, verdict, work, sent>>

(* The process_packet of the two ends.  send_out_packet may fail, and so   *)
(* may the allocation of a work item: the packet is then lost.             *)
PassUnchanged(c) ==
  LET fr == Top(c) IN
  /\ calls[c] # <<>> /\ fr.at \in Ends
  /\ fr.unchanged \/ fr.dir # (IF fr.at = "top" THEN "out" ELSE "in")
  /\ Return(c, fr.unchanged)
  /\ UNCHANGED <<list, work, sent>>

CopyReturn_bug == TRUE                       \* the original goes with the copy
CopyReturn     == FALSE

QueueForNet(c) ==
  LET fr == Top(c) IN
  /\ calls[c] # <<>> /\ fr.at = "top" /\ fr.dir = "out" /\ ~fr.unchanged
  /\ sent' \in {sent, Append(sent, fr)}
  /\ Return(c, CopyReturn)
  /\ UNCHANGED <<list, work>>

QueueForTcp(c) ==
  LET fr == Top(c) IN
  /\ calls[c] # <<>> /\ fr.at = "bottom" /\ fr.dir = "in" /\ ~fr.unchanged
  /\ work' \in {work, work \cup {fr}}
  /\ Return(c, CopyReturn)
  /\ UNCHANGED <<list, sent>>

(* send_in_packet_delayed, in a system worker thread.  send_in_packet may  *)
(* find no protocol or adapter.                                            *)
Delayed(w) ==
  /\ w \in work
  /\ work' = work \ {w}
  /\ sent' \in {sent, Append(sent, w)}
  /\ UNCHANGED <<list, guard, calls, verdict>>
-----------------------------------------------------------------------------
Change(f) == AttachTop(f) \/ AttachBottom(f) \/ Detach(f)
Carry(c)  == \/ Pass(c, FALSE) \/ Pass(c, TRUE) \/ Deny(c) \/ DenyWithRst(c)
             \/ PassUnchanged(c) \/ QueueForNet(c) \/ QueueForTcp(c)

Next ==
  \/ \E f \in Filters : Change(f)
  \/ \E c \in Cpus, p \in Packets, d \in Dirs : Enter(c, p, d)
  \/ \E c \in Cpus : Carry(c)
  \/ \E w \in work : Delayed(w)

Spec == Init /\ [][Next]_vars

(* A processor that carries a packet runs at DISPATCH_LEVEL and is not     *)
(* preempted; worker threads are scheduled.                                *)
FairSpec ==
  /\ Spec
  /\ \A c \in Cpus : WF_vars(Carry(c))
  /\ WF_vars(\E w \in work : Delayed(w))
-----------------------------------------------------------------------------
(* The type invariant. *)
TypeOK ==
  /\ upper \in [Nodes -> Nodes \cup {NULL}] /\ lower \in [Nodes -> Nodes \cup {NULL}]
  /\ order \in Seq(Filters)
  /\ guard \in Cpus \cup {NULL}
  /\ calls \in [Cpus -> Seq(Frame)]
  /\ verdict \in [Packets -> {"none", "pass", "stop"}]
  /\ work \subseteq Frame /\ sent \in Seq(Frame)

(* The pointers in both directions are the list of attached filters        *)
(* between the ends, each filter once, whatever was attached and detached. *)
Nth(s, i) == IF i = 0 THEN "top" ELSE IF i = Len(s) + 1 THEN "bottom" ELSE s[i]
Linked ==
  /\ IsInjective(order)
  /\ \A i \in 0..Len(order) : /\ lower[Nth(order, i)] = Nth(order, i+1)
                               /\ upper[Nth(order, i+1)] = Nth(order, i)

(* A packet that gets to an end, by itself or as a copy, was passed by     *)
(* every filter that was attached when it entered, each once, in the       *)
(* order of its direction; an RST by exactly the filters that had passed   *)
(* the segment it answers, backwards.                                      *)
Carried == UNION {Range(calls[c]) : c \in Cpus}
Arrived == {fr \in Carried : fr.at \in Ends} \cup work \cup Range(sent)
SeenByAll == \A fr \in Arrived : fr.path = fr.below

(* A filter is called only while it is attached: after attach_filter has   *)
(* removed one, its driver can free it.                                    *)
CalledWhileAttached ==
  \A c \in Cpus : \A i \in DOMAIN calls[c] : calls[c][i].at \in Range(order) \cup Ends

(* "if (packet_unchanged == FALSE) function MUST return FALSE": a packet   *)
(* goes on as it was, or as one copy when a filter changed it, never both; *)
(* a packet is answered by at most one RST; and no filter's change is lost *)
(* or invented on the way to the end.                                      *)
Copies(p, k) ==
  {<<"sent", i>> : i \in {j \in DOMAIN sent : sent[j].pkt = p /\ sent[j].kind = k}}
  \cup {<<"work", w>> : w \in {v \in work : v.pkt = p /\ v.kind = k}}
OneOutcome ==
  \A p \in Packets :
    /\ \A k \in Kinds : Cardinality(Copies(p, k)) <= 1
    /\ Copies(p, "packet") = {} \/ Copies(p, "rst") = {}
    /\ verdict[p] = "pass" => \A k \in Kinds : Copies(p, k) = {}
    /\ \A fr \in Arrived : fr.unchanged # fr.changed

(* Every packet that entered leaves the list, the lock is released, and    *)
(* every queued packet is taken from the queue.                            *)
Decided == /\ \A c \in Cpus : guard = c ~> guard # c
           /\ \A p \in Packets : (\E w \in work : w.pkt = p) ~> (\A w \in work : w.pkt # p)
=============================================================================
