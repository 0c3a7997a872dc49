---------------------------- MODULE SendPromise ----------------------------
(***************************************************************************)
(* What the hooks of ndis_hk promise the protocol about the packets that   *)
(* it sends.  Every packet of a call is judged; then the call gives the    *)
(* denied ones back and all others to the miniport together.  It may give  *)
(* all of them back, but only when one of them was denied: that is how it  *)
(* deals with a lack of memory.  Each send is answered once.               *)
(***************************************************************************)
EXTENDS Naturals

CONSTANTS Calls, Packets

VARIABLES place,    \* per packet: "protocol", "miniport", or the call it is in
          verdict,  \* per packet in a call: "none" yet, "allowed" or "denied"
          givenUp,  \* calls that give all their packets back
          sent, answered  \* per packet, how often

pVars == <<place, verdict, givenUp, sent, answered>>

Init ==
  /\ place = [p \in Packets |-> "protocol"]
  /\ verdict = [p \in Packets |-> "none"] /\ givenUp = {}
  /\ sent = [p \in Packets |-> 0] /\ answered = [p \in Packets |-> 0]

In(c)         == {p \in Packets : place[p] = c}
All(f, S, x)  == [p \in Packets |-> IF p \in S THEN x ELSE f[p]]
Once(f, S)    == [p \in Packets |-> IF p \in S THEN f[p] + 1 ELSE f[p]]
Judged(c)     == \A p \in In(c) : verdict[p] # "none"

(* A call takes packets, on an adapter that is filtered or one that is not. *)
Submit(c, S) ==
  /\ In(c) = {} /\ S \subseteq In("protocol")
  /\ place' = All(place, S, c) /\ sent' = Once(sent, S)
  /\ verdict' \in {verdict, All(verdict, S, "allowed")}
  /\ UNCHANGED <<givenUp, answered>>

Judge(c, p) ==
  /\ place[p] = c /\ verdict[p] = "none"
  /\ verdict' \in {All(verdict, {p}, "allowed"), All(verdict, {p}, "denied")}
  /\ UNCHANGED <<place, givenUp, sent, answered>>

GiveUp(c) ==
  /\ Judged(c) /\ \E p \in In(c) : verdict[p] = "denied"
  /\ givenUp' = givenUp \cup {c}
  /\ UNCHANGED <<place, verdict, sent, answered>>

Return(c, p) ==
  /\ place[p] = c /\ Judged(c)
  /\ verdict[p] = "denied" \/ c \in givenUp
  /\ place' = All(place, {p}, "protocol") /\ answered' = Once(answered, {p})
  /\ verdict' = All(verdict, {p}, "none")
  /\ givenUp' = IF In(c) = {p} THEN givenUp \ {c} ELSE givenUp
  /\ UNCHANGED sent

Forward(c) ==
  /\ c \notin givenUp /\ \A p \in In(c) : verdict[p] = "allowed"
  /\ place' = All(place, In(c), "miniport")
  /\ verdict' = All(verdict, In(c), "none")
  /\ UNCHANGED <<givenUp, sent, answered>>

(* A packet that is sent by itself is answered at once or goes to the miniport. *)
Single(p) ==
  /\ place[p] = "protocol" /\ sent' = Once(sent, {p})
  /\ \/ answered' = Once(answered, {p}) /\ UNCHANGED place
     \/ place' = All(place, {p}, "miniport") /\ UNCHANGED answered
  /\ UNCHANGED <<verdict, givenUp>>

Finish(p) ==
  /\ place[p] = "miniport"
  /\ place' = All(place, {p}, "protocol") /\ answered' = Once(answered, {p})
  /\ UNCHANGED <<verdict, givenUp, sent>>

Next ==
  \/ \E c \in Calls : \/ \E S \in SUBSET Packets : Submit(c, S)
                      \/ \E p \in Packets : Judge(c, p) \/ Return(c, p)
                      \/ GiveUp(c) \/ Forward(c)
  \/ \E p \in Packets : Single(p) \/ Finish(p)

Spec == Init /\ [][Next]_pVars
=============================================================================
