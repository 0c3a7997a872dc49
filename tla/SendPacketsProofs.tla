------------------------- MODULE SendPacketsProofs -------------------------
(***************************************************************************)
(* Safety of SendPackets for any number of processors and packets.  The    *)
(* inductive invariant adds to what is proved how the locals of a handler  *)
(* hang together: the packets it has yet to look at are not among those it *)
(* has kept; n_allow counts the allowed ones, whose number is known only   *)
(* because nobody else writes the status of a packet that the handler      *)
(* owns; and the status field says what the filters said.                  *)
(***************************************************************************)
EXTENDS SendPackets, FiniteSetTheorems, TLAPS

Holds(c) == {p \in Packets : owner[p] = c} = Pending(c)

(* The array and the new array. *)
ArraysOK(c) ==
  /\ IsInjective(array[c])
  /\ i[c] \in 1..Count(c) + 1
  /\ pc[c] \in {"filter", "complete", "send"} => kept[c] = <<>>
  /\ pc[c] = "fill" =>
       \A j \in 1..Len(kept[c]), k \in i[c]..Count(c) : kept[c][j] # array[c][k]

(* n_allow against the packets that are allowed. *)
Passed(c) == {k \in 1..i[c] - 1 : IsAllowed(array[c][k])}
Left(c)   == {k \in i[c]..Count(c) : IsAllowed(array[c][k])}
CountOK(c) ==
  /\ pc[c] = "filter" => n_allow[c] = Cardinality(Passed(c)) + Count(c) - i[c] + 1
  /\ pc[c] = "fill" => n_allow[c] = Len(kept[c]) + Cardinality(Left(c))

(* The status field against the verdict. *)
Told(p) == p \in denied <=> ~IsAllowed(p)
VerdictsOK(c) ==
  /\ pc[c] = "filter" => \A k \in 1..i[c] - 1 : Told(array[c][k])
  /\ pc[c] = "fill" => /\ \A k \in i[c]..Count(c) : Told(array[c][k])
                       /\ \A j \in 1..Len(kept[c]) : kept[c][j] \notin denied
  /\ pc[c] = "send" => \A k \in 1..Count(c) : array[c][k] \notin denied

(* What is kept comes from the packets already looked at, in their order.  *)
OrderOK(c) ==
  pc[c] = "fill" =>
    /\ \A x \in 1..Len(kept[c]) : \E k \in 1..i[c] - 1 : kept[c][x] = array[c][k]
    /\ InOrder(c)

Good(c) == Holds(c) /\ ArraysOK(c) /\ CountOK(c) /\ VerdictsOK(c) /\ OrderOK(c)

IInv == TypeOK /\ OwedOnce /\ DeniedStayBack /\ \A c \in Cpus : Good(c)
-----------------------------------------------------------------------------
\* Keep's Append adds one packet to those that are kept, and no other.
LEMMA RangeAppend ==
  ASSUME NEW S, NEW s \in Seq(S), NEW e
  PROVE  Range(Append(s, e)) = Range(s) \cup {e}
PROOF
<1>1. /\ DOMAIN s = 1..Len(s) /\ Len(s) \in Nat
      /\ DOMAIN Append(s, e) = 1..Len(s) + 1
      /\ \A j \in 1..Len(s) : Append(s, e)[j] = s[j]
      /\ Append(s, e)[Len(s) + 1] = e
  OBVIOUS
<1>2. 1..Len(s) + 1 = 1..Len(s) \cup {Len(s) + 1}
  BY <1>1
<1>. QED
  BY <1>1, <1>2 DEF Range

(* What a handler has yet to look at, or has kept, are packets it owns.    *)
LEMMA OwnsThem ==
  ASSUME TypeOK, NEW c \in Cpus, Good(c)
  PROVE  /\ Count(c) \in Nat /\ Len(kept[c]) \in Nat
         /\ \A k \in 1..Count(c) : array[c][k] \in Packets
         /\ \A k \in 1..Len(kept[c]) : kept[c][k] \in Packets
         /\ pc[c] \in {"filter", "send"} => \A k \in 1..Count(c) : owner[array[c][k]] = c
         /\ pc[c] \in {"fill", "complete"} => \A k \in i[c]..Count(c) : owner[array[c][k]] = c
         /\ pc[c] = "fill" => \A k \in 1..Len(kept[c]) : owner[kept[c][k]] = c
PROOF
<1>1. /\ Count(c) \in Nat /\ Len(kept[c]) \in Nat /\ i[c] \in Nat \ {0}
      /\ DOMAIN array[c] = 1..Count(c) /\ DOMAIN kept[c] = 1..Len(kept[c])
      /\ \A k \in 1..Count(c) : array[c][k] \in Packets
      /\ \A k \in 1..Len(kept[c]) : kept[c][k] \in Packets
  BY DEF TypeOK, Good, ArraysOK, Count
<1>2. Pending(c) = {p \in Packets : owner[p] = c}
  BY DEF Good, Holds
<1>3. pc[c] \in {"filter", "send"} => \A k \in 1..Count(c) : array[c][k] \in Pending(c)
  BY <1>1 DEF Pending, Range
<1>4. pc[c] \in {"fill", "complete"} => \A k \in i[c]..Count(c) : array[c][k] \in Pending(c)
  BY <1>1 DEF Pending
<1>5. pc[c] = "fill" => \A k \in 1..Len(kept[c]) : kept[c][k] \in Pending(c)
  BY <1>1 DEF Pending, Range
<1>. QED
  BY <1>1, <1>2, <1>3, <1>4, <1>5

(* A step that leaves the locals of a handler alone, and the packets that  *)
(* it owns, does not disturb it.                                           *)
LEMMA Untouched ==
  ASSUME TypeOK, NEW d \in Cpus, Good(d),
         pc'[d] = pc[d], array'[d] = array[d], i'[d] = i[d],
         n_allow'[d] = n_allow[d], kept'[d] = kept[d],
         \A p \in Packets : owner'[p] = d <=> owner[p] = d,
         \A p \in Packets : owner[p] = d =>
           status'[p] = status[p] /\ (p \in denied' <=> p \in denied)
  PROVE  Good(d)'
PROOF
<1>1. Count(d)' = Count(d) /\ Pending(d)' = Pending(d)
  BY DEF Count, Pending
<1>2. Holds(d)'
  BY <1>1 DEF Good, Holds
<1>3. ArraysOK(d)'
  BY <1>1 DEF Good, ArraysOK
<1>4. CountOK(d)'
  <2>1. pc[d] = "filter" => Passed(d)' = Passed(d)
    BY OwnsThem DEF Passed, IsAllowed, Good, ArraysOK
  <2>2. pc[d] = "fill" => Left(d)' = Left(d)
    BY <1>1, OwnsThem DEF Left, IsAllowed, Good, ArraysOK
  <2>. QED
    BY <1>1, <2>1, <2>2 DEF Good, CountOK
<1>5. VerdictsOK(d)'
  <2>1. i[d] \in Nat /\ Count(d) \in Nat /\ i[d] >= 1 /\ i[d] <= Count(d) + 1
    BY OwnsThem DEF Good, ArraysOK
  <2>2. \A p \in Packets : owner[p] = d => Told(p)' = Told(p)
    BY DEF Told, IsAllowed
  <2>3. CASE pc[d] = "filter"
    BY <1>1, <2>1, <2>2, <2>3, OwnsThem DEF Good, VerdictsOK
  <2>4. CASE pc[d] = "fill"
    <3>1. \A k \in i[d]..Count(d) : Told(array[d][k])'
      <4>1. ASSUME NEW k \in i[d]..Count(d) PROVE Told(array[d][k])'
        <5>1. array[d][k] \in Packets /\ owner[array[d][k]] = d
          BY <2>1, <2>4, <4>1, OwnsThem
        <5>2. Told(array[d][k])
          BY <2>4, <4>1 DEF Good, VerdictsOK
        <5>. QED
          BY <5>1, <5>2 DEF Told, IsAllowed
      <4>. QED
        BY <4>1
    <3>2. ASSUME NEW j \in 1..Len(kept[d]) PROVE kept'[d][j] \notin denied'
      <4>1. kept[d][j] \in Packets /\ owner[kept[d][j]] = d
        BY <2>4, OwnsThem
      <4>2. kept[d][j] \notin denied
        BY <2>4 DEF Good, VerdictsOK
      <4>. QED
        BY <4>1, <4>2
    <3>. QED
      BY <1>1, <2>4, <3>1, <3>2 DEF VerdictsOK
  <2>5. CASE pc[d] = "send"
    BY <1>1, <2>5, OwnsThem DEF Good, VerdictsOK
  <2>. QED
    BY <2>3, <2>4, <2>5 DEF VerdictsOK
<1>6. OrderOK(d)'
  <2>1. OrderOK(d)
    BY DEF Good
  <2>2. InOrder(d)' = InOrder(d)
    BY <1>1 DEF InOrder
  <2>3. CASE pc[d] = "fill"
    BY <2>1, <2>2, <2>3 DEF OrderOK
  <2>4. CASE pc[d] # "fill"
    BY <2>4 DEF OrderOK
  <2>. QED
    BY <2>3, <2>4
<1>. QED
  BY <1>2, <1>3, <1>4, <1>5, <1>6 DEF Good

(* Sets of indices are finite, and a subset is a smaller one.              *)
LEMMA IndexSet ==
  ASSUME NEW n \in Nat, NEW S, S \subseteq 1..n
  PROVE  /\ IsFiniteSet(S) /\ Cardinality(S) \in Nat /\ Cardinality(S) <= n
         /\ Cardinality(S) = n => S = 1..n
PROOF
<1>1. IsFiniteSet(1..n) /\ Cardinality(1..n) = n
  <2>. DEFINE from == 1
  <2>1. from \in Int /\ n \in Int /\ (from > n <=> n = 0) /\ n - from + 1 = n
    OBVIOUS
  <2>. HIDE DEF from
  <2>2. IsFiniteSet(from..n) /\ Cardinality(from..n) = IF from > n THEN 0 ELSE n - from + 1
    BY <2>1, FS_Interval
  <2>. QED
    BY <2>1, <2>2 DEF from
<1>. QED
  BY <1>1, FS_Subset, FS_CardinalityType
-----------------------------------------------------------------------------
LEMMA InitInv == Init => IInv
PROOF
<1>. SUFFICES ASSUME Init PROVE IInv
  OBVIOUS
<1>1. TypeOK
  <2>1. <<>> \in Seq(Packets)
    OBVIOUS
  <2>. QED
    BY <2>1 DEF Init, TypeOK
<1>2. OwedOnce /\ DeniedStayBack
  BY DEF Init, OwedOnce, DeniedStayBack
<1>3. ASSUME NEW c \in Cpus PROVE Good(c)
  <2>1. Holds(c)
    BY CpusAssumption DEF Init, Holds, Pending
  <2>2. ArraysOK(c) /\ CountOK(c) /\ VerdictsOK(c) /\ OrderOK(c)
    BY DEF Init, ArraysOK, CountOK, VerdictsOK, OrderOK, IsInjective, Count
  <2>. QED
    BY <2>1, <2>2 DEF Good
<1>. QED
  BY <1>1, <1>2, <1>3 DEF IInv

(* A call of new_SendPacketsHandler. *)
LEMMA AcceptStep ==
  ASSUME IInv, NEW c \in Cpus, NEW s \in Arrays, SendPackets(c, s) \/ SendUnfiltered(c, s)
  PROVE  IInv'
PROOF
<1>. USE DEF packets, locals
<1>0. /\ TypeOK /\ Accept(c, s) /\ denied' \subseteq denied /\ denied \ Range(s) \subseteq denied'
      /\ s \in Seq(Packets) /\ Len(s) \in Nat /\ IsInjective(s)
      /\ Range(s) = {s[k] : k \in 1..Len(s)} /\ Range(s) \subseteq Packets
      /\ pc' \in {[pc EXCEPT ![c] = "filter"], [pc EXCEPT ![c] = "send"]}
  BY DEF IInv, SendPackets, SendUnfiltered, Goto, Arrays, Range
<1>1. TypeOK'
  <2>1. /\ owner' \in [Packets -> {"protocol", "miniport"} \cup Cpus]
        /\ sends' \in [Packets -> Nat] /\ denied' \subseteq Packets
    BY <1>0 DEF TypeOK, Accept, GiveTo, Counted
  <2>2. <<>> \in Seq(Packets)
    OBVIOUS
  <2>. QED
    BY <1>0, <2>1, <2>2 DEF TypeOK, Accept
<1>2. OwedOnce' /\ DeniedStayBack'
  <2>1. ASSUME NEW p \in Packets
        PROVE  /\ p \in Range(s) => /\ owner[p] = "protocol" /\ owner'[p] = c
                                    /\ sends'[p] = sends[p] + 1
               /\ p \notin Range(s) => owner'[p] = owner[p] /\ sends'[p] = sends[p]
               /\ completions'[p] = completions[p]
    BY <1>0 DEF TypeOK, Accept, GiveTo, Counted
  <2>2. OwedOnce'
    <3>. SUFFICES ASSUME NEW p \in Packets
                  PROVE  sends'[p] = completions'[p] + (IF owner'[p] = "protocol" THEN 0 ELSE 1)
      BY DEF OwedOnce
    <3>1. sends[p] \in Nat /\ completions[p] \in Nat
      BY <1>0 DEF TypeOK
    <3>2. sends[p] = completions[p] + (IF owner[p] = "protocol" THEN 0 ELSE 1)
      BY DEF IInv, OwedOnce
    <3>. QED
      BY <2>1, <3>1, <3>2, CpusAssumption
  <2>3. DeniedStayBack'
    BY <1>0, <2>1, CpusAssumption DEF IInv, DeniedStayBack
  <2>. QED
    BY <2>2, <2>3
<1>3. ASSUME NEW d \in Cpus, d # c PROVE Good(d)'
  <2>1. /\ pc'[d] = pc[d] /\ array'[d] = array[d] /\ i'[d] = i[d]
        /\ n_allow'[d] = n_allow[d] /\ kept'[d] = kept[d]
    BY <1>0, <1>3 DEF TypeOK, Accept
  <2>2. \A p \in Packets : owner'[p] = d <=> owner[p] = d
    BY <1>0, <1>3, CpusAssumption DEF Accept, GiveTo
  <2>3. \A p \in Packets : owner[p] = d =>
           status'[p] = status[p] /\ (p \in denied' <=> p \in denied)
    BY <1>0, <1>3, CpusAssumption DEF Accept
  <2>. QED
    BY <2>1, <2>2, <2>3, Untouched DEF IInv
<1>4. Good(c)'
  <2>1. /\ array'[c] = s /\ kept'[c] = <<>> /\ i'[c] = 1 /\ n_allow'[c] = Len(s)
        /\ pc'[c] \in {"filter", "send"} /\ Count(c)' = Len(s)
    BY <1>0 DEF TypeOK, Accept, Count
  <2>2. {p \in Packets : owner[p] = c} = {}
    BY <1>0 DEF IInv, Good, Holds, Pending, Accept, At
  <2>3. Pending(c)' = Range(s)
    BY <2>1 DEF Pending
  <2>4. Holds(c)'
    BY <1>0, <2>2, <2>3 DEF Holds, Accept, GiveTo
  <2>5. ArraysOK(c)'
    BY <1>0, <2>1 DEF ArraysOK
  <2>6. Passed(c)' = {}
    BY <2>1 DEF Passed
  <2>7. CountOK(c)'
    BY <1>0, <2>1, <2>6, FS_EmptySet DEF CountOK
  <2>8. VerdictsOK(c)'
    <3>1. CASE pc'[c] = "filter"
      BY <2>1, <3>1 DEF VerdictsOK
    <3>2. CASE pc'[c] = "send"
      <4>1. denied' = denied \ Range(s)
        BY <1>0, <3>2 DEF SendPackets, SendUnfiltered, Goto, TypeOK
      <4>. QED
        BY <1>0, <2>1, <3>2, <4>1 DEF VerdictsOK
    <3>. QED
      BY <2>1, <3>1, <3>2
  <2>9. OrderOK(c)'
    BY <2>1 DEF OrderOK
  <2>. QED
    BY <2>4, <2>5, <2>7, <2>8, <2>9 DEF Good
<1>. QED
  BY <1>1, <1>2, <1>3, <1>4 DEF IInv

(* The loop that asks the filters.  The verdict goes into the status of a  *)
(* packet that only this handler owns, so no other count changes.          *)
LEMMA FilterStep ==
  ASSUME IInv, NEW c \in Cpus, NEW pass \in BOOLEAN, Filter(c, pass)
  PROVE  IInv'
PROOF
<1>. USE DEF packets, locals
<1>. DEFINE q == Packet(c)
<1>0. /\ TypeOK /\ pc[c] = "filter" /\ i[c] \in 1..Count(c) /\ Count(c) \in Nat
      /\ q = array[c][i[c]] /\ q \in Packets /\ owner[q] = c
      /\ \A k \in 1..Count(c) : array[c][k] \in Packets /\ owner[array[c][k]] = c
      /\ \A k \in 1..Count(c) : k # i[c] => array[c][k] # q
  <2>1. /\ TypeOK /\ Good(c) /\ pc[c] = "filter" /\ i[c] \in 1..Count(c)
        /\ array[c] \in Seq(Packets) /\ IsInjective(array[c])
    <3>1. TypeOK /\ Good(c) /\ pc[c] = "filter" /\ i[c] <= Count(c)
      BY DEF IInv, Filter, At
    <3>2. i[c] \in 1..Count(c) + 1 /\ IsInjective(array[c])
      BY <3>1 DEF Good, ArraysOK
    <3>3. array[c] \in Seq(Packets) /\ Count(c) \in Nat
      BY <3>1 DEF TypeOK, Count
    <3>. QED
      BY <3>1, <3>2, <3>3
  <2>2. DOMAIN array[c] = 1..Count(c)
    BY <2>1 DEF Count
  <2>. QED
    BY <2>1, <2>2, OwnsThem DEF Packet, IsInjective
<1>. HIDE DEF q
<1>a. /\ n_allow' = [n_allow EXCEPT ![c] = IF pass THEN @ ELSE @ - 1]
      /\ status' = [status EXCEPT ![q] = IF pass THEN "success" ELSE "failure"]
      /\ denied' = IF pass THEN denied \ {q} ELSE denied \cup {q}
      /\ i' = [i EXCEPT ![c] = @ + 1]
      /\ UNCHANGED <<owner, sends, completions, pc, array, kept, handed, crashed>>
  BY DEF Filter, q, Advance
<1>b. IsFiniteSet(Passed(c)) /\ Cardinality(Passed(c)) \in Nat
  <2>1. Passed(c) \subseteq 1..Count(c)
    BY <1>0 DEF Passed
  <2>. QED
    BY <1>0, <2>1, IndexSet
<1>c. \A k \in 1..i[c] - 1 : array[c][k] \in Packets \ {q}
  BY <1>0
<1>d. \A p \in Packets \ {q} : status'[p] = status[p] /\ (p \in denied' <=> p \in denied)
  BY <1>0, <1>a DEF TypeOK
<1>e. n_allow[c] = Cardinality(Passed(c)) + Count(c) - i[c] + 1
  BY <1>0 DEF IInv, Good, CountOK
<1>1. TypeOK'
  <2>1. n_allow[c] - 1 \in Nat
    BY <1>0, <1>b, <1>e
  <2>. QED
    BY <1>0, <1>a, <2>1 DEF TypeOK
<1>2. OwedOnce' /\ DeniedStayBack'
  BY <1>0, <1>a, CpusAssumption DEF IInv, TypeOK, OwedOnce, DeniedStayBack
<1>3. ASSUME NEW d \in Cpus, d # c PROVE Good(d)'
  <2>1. /\ pc'[d] = pc[d] /\ array'[d] = array[d] /\ i'[d] = i[d]
        /\ n_allow'[d] = n_allow[d] /\ kept'[d] = kept[d]
    BY <1>0, <1>a, <1>3 DEF TypeOK
  <2>2. \A p \in Packets : owner'[p] = d <=> owner[p] = d
    BY <1>0, <1>a, <1>3, CpusAssumption DEF TypeOK
  <2>3. \A p \in Packets : owner[p] = d =>
           status'[p] = status[p] /\ (p \in denied' <=> p \in denied)
    BY <1>0, <1>a, <1>3, CpusAssumption DEF TypeOK
  <2>. QED
    BY <2>1, <2>2, <2>3, Untouched DEF IInv
<1>4. Good(c)'
  <2>1. /\ array'[c] = array[c] /\ kept'[c] = kept[c] /\ i'[c] = i[c] + 1
        /\ pc'[c] = pc[c] /\ Count(c)' = Count(c)
    BY <1>0, <1>a DEF TypeOK, Count
  <2>2. Holds(c)'
    BY <1>0, <1>a, <2>1 DEF IInv, Good, Holds, Pending
  <2>3. ArraysOK(c)'
    BY <1>0, <2>1 DEF IInv, Good, ArraysOK
  <2>4. Passed(c)' = IF pass THEN Passed(c) \cup {i[c]} ELSE Passed(c)
    <3>1. \A k \in 1..i[c] - 1 : status'[array[c][k]] = status[array[c][k]]
      BY <1>c, <1>d
    <3>2. status'[array[c][i[c]]] = "success" <=> pass
      BY <1>0, <1>a DEF TypeOK
    <3>. QED
      BY <1>0, <2>1, <3>1, <3>2 DEF Passed, IsAllowed
  <2>5. i[c] \notin Passed(c)
    BY <1>0 DEF Passed
  <2>6. Cardinality(Passed(c))' = IF pass THEN Cardinality(Passed(c)) + 1
                                  ELSE Cardinality(Passed(c))
    BY <1>b, <2>4, <2>5, FS_AddElement
  <2>7. CountOK(c)'
    <3>1. n_allow[c] \in Nat /\ n_allow'[c] = IF pass THEN n_allow[c] ELSE n_allow[c] - 1
      BY <1>0, <1>a DEF TypeOK
    <3>2. n_allow'[c] = Cardinality(Passed(c))' + Count(c) - (i[c] + 1) + 1
      BY <1>0, <1>b, <1>e, <2>6, <3>1
    <3>. QED
      BY <1>0, <2>1, <3>2 DEF CountOK
  <2>8. VerdictsOK(c)'
    <3>1. status'[q] = "success" <=> q \notin denied'
      BY <1>0, <1>a DEF TypeOK
    <3>2. \A k \in 1..i[c] - 1 : /\ status'[array[c][k]] = status[array[c][k]]
                                 /\ array[c][k] \in denied' <=> array[c][k] \in denied
      BY <1>c, <1>d
    <3>3. \A k \in 1..i[c] - 1 : Told(array[c][k])
      BY <1>0 DEF IInv, Good, VerdictsOK
    <3>4. \A k \in 1..i[c] : status'[array[c][k]] = "success" <=> array[c][k] \notin denied'
      BY <1>0, <3>1, <3>2, <3>3 DEF Told, IsAllowed
    <3>. QED
      BY <1>0, <2>1, <3>4 DEF VerdictsOK, Told, IsAllowed
  <2>9. OrderOK(c)'
    BY <1>0, <2>1 DEF OrderOK
  <2>. QED
    BY <2>2, <2>3, <2>7, <2>8, <2>9 DEF Good
<1>. QED
  BY <1>1, <1>2, <1>3, <1>4 DEF IInv

(* What the other actions do with the owners: a packet is given back, or   *)
(* packets that were not denied go to the miniport.                        *)
LEMMA GivesBack ==
  ASSUME TypeOK, OwedOnce, DeniedStayBack, NEW p \in Packets, owner[p] # "protocol",
         GiveBack(p), UNCHANGED <<sends, denied>>
  PROVE  /\ owner' = [owner EXCEPT ![p] = "protocol"]
         /\ owner' \in [Packets -> {"protocol", "miniport"} \cup Cpus]
         /\ completions' \in [Packets -> Nat] /\ OwedOnce' /\ DeniedStayBack'
PROOF
<1>1. owner' = [owner EXCEPT ![p] = "protocol"] /\ completions' = [completions EXCEPT ![p] = @ + 1]
  BY DEF TypeOK, GiveBack, GiveTo, Counted
<1>2. /\ owner' \in [Packets -> {"protocol", "miniport"} \cup Cpus]
      /\ completions' \in [Packets -> Nat] /\ DeniedStayBack'
  BY <1>1 DEF TypeOK, DeniedStayBack
<1>3. OwedOnce'
  BY <1>1 DEF TypeOK, OwedOnce
<1>. QED
  BY <1>1, <1>2, <1>3

LEMMA HandsOver ==
  ASSUME TypeOK, OwedOnce, DeniedStayBack, NEW S \in SUBSET (Packets \ denied),
         \A p \in S : owner[p] \in Cpus,
         GiveTo("miniport", S), UNCHANGED <<sends, completions, denied>>
  PROVE  /\ owner' \in [Packets -> {"protocol", "miniport"} \cup Cpus]
         /\ OwedOnce' /\ DeniedStayBack'
PROOF
<1>1. \A p \in Packets : owner'[p] = IF p \in S THEN "miniport" ELSE owner[p]
  BY DEF GiveTo
<1>2. owner' \in [Packets -> {"protocol", "miniport"} \cup Cpus] /\ DeniedStayBack'
  BY <1>1 DEF TypeOK, DeniedStayBack, GiveTo
<1>3. OwedOnce'
  BY <1>1, CpusAssumption DEF TypeOK, OwedOnce
<1>. QED
  BY <1>2, <1>3

(* After the loop: the packets are all allowed, or are all completed, or   *)
(* the loop begins that fills the new array.                               *)
LEMMA DecideStep ==
  ASSUME IInv, NEW c \in Cpus, Decide(c)
  PROVE  IInv'
PROOF
<1>. USE DEF packets, locals
<1>0. /\ TypeOK /\ pc[c] = "filter" /\ Count(c) \in Nat /\ i[c] = Count(c) + 1
      /\ i' = [i EXCEPT ![c] = 1]
      /\ pc' \in {[pc EXCEPT ![c] = "send"], [pc EXCEPT ![c] = "complete"],
                  [pc EXCEPT ![c] = "fill"]}
      /\ pc'[c] = "send" => n_allow[c] = Count(c)
      /\ UNCHANGED <<packets, array, n_allow, kept>> /\ UNCHANGED crashed
  <2>1. TypeOK /\ Good(c) /\ pc[c] = "filter" /\ i[c] > Count(c)
    BY DEF IInv, Decide, At
  <2>2. i[c] \in 1..Count(c) + 1 /\ Count(c) \in Nat
    BY <2>1, OwnsThem DEF Good, ArraysOK
  <2>3. pc'[c] = "send" => n_allow[c] = Count(c)
    BY <2>1 DEF Decide, Goto, TypeOK
  <2>. QED
    BY <2>1, <2>2, <2>3 DEF Decide, Goto
<1>1. TypeOK'
  BY <1>0 DEF TypeOK
<1>2. OwedOnce' /\ DeniedStayBack'
  BY <1>0 DEF IInv, OwedOnce, DeniedStayBack
<1>3. ASSUME NEW d \in Cpus, d # c PROVE Good(d)'
  <2>1. /\ pc'[d] = pc[d] /\ array'[d] = array[d] /\ i'[d] = i[d]
        /\ n_allow'[d] = n_allow[d] /\ kept'[d] = kept[d]
    BY <1>0, <1>3 DEF TypeOK
  <2>2. \A p \in Packets : owner'[p] = d <=> owner[p] = d
    BY <1>0, <1>3, CpusAssumption
  <2>3. \A p \in Packets : owner[p] = d =>
           status'[p] = status[p] /\ (p \in denied' <=> p \in denied)
    BY <1>0
  <2>. QED
    BY <2>1, <2>2, <2>3, Untouched DEF IInv
<1>4. Good(c)'
  <2>1. /\ array'[c] = array[c] /\ kept'[c] = <<>> /\ kept[c] = <<>> /\ i'[c] = 1
        /\ n_allow'[c] = n_allow[c] /\ pc'[c] \in {"send", "complete", "fill"}
        /\ Count(c)' = Count(c) /\ IsInjective(array[c])
    BY <1>0 DEF TypeOK, Count, IInv, Good, ArraysOK
  <2>2. n_allow[c] = Cardinality(Passed(c)) /\ \A k \in 1..Count(c) : Told(array[c][k])
    <3>1. n_allow[c] = Cardinality(Passed(c)) + Count(c) - i[c] + 1
      BY <1>0 DEF IInv, Good, CountOK
    <3>2. Passed(c) \subseteq 1..Count(c)
      BY <1>0 DEF Passed
    <3>3. Cardinality(Passed(c)) \in Nat
      BY <1>0, <3>2, IndexSet
    <3>4. \A k \in 1..i[c] - 1 : Told(array[c][k])
      BY <1>0 DEF IInv, Good, VerdictsOK
    <3>5. i[c] - 1 = Count(c)
      BY <1>0
    <3>. QED
      BY <1>0, <3>1, <3>3, <3>4, <3>5
  <2>3. Passed(c) = {k \in 1..Count(c) : IsAllowed(array[c][k])}
    BY <1>0 DEF Passed
  <2>4. Holds(c)'
    <3>1. Pending(c) = Range(array[c])
      BY <1>0 DEF Pending
    <3>0. DOMAIN array[c] = 1..Count(c)
      BY <1>0 DEF TypeOK, Count
    <3>2. Range(array[c]) = {array[c][k] : k \in 1..Count(c)} /\ Range(<<>>) = {}
      BY <3>0 DEF Range
    <3>3. Pending(c)' = Range(array[c])
      BY <2>1, <3>2 DEF Pending
    <3>. QED
      BY <1>0, <3>1, <3>3 DEF IInv, Good, Holds
  <2>5. ArraysOK(c)'
    BY <1>0, <2>1 DEF ArraysOK
  <2>6. Left(c)' = Passed(c)
    BY <1>0, <2>1, <2>3 DEF Left, IsAllowed
  <2>7. CountOK(c)'
    <3>1. Cardinality(Passed(c)) \in Nat
      BY <1>0, <2>3, IndexSet
    <3>. QED
      BY <2>1, <2>2, <2>6, <3>1 DEF CountOK
  <2>8. VerdictsOK(c)'
    <3>1. CASE pc'[c] = "send"
      <4>1. Passed(c) = 1..Count(c)
        BY <1>0, <2>2, <2>3, <3>1, IndexSet
      <4>. QED
        BY <1>0, <2>1, <2>2, <2>3, <3>1, <4>1 DEF VerdictsOK, Told
    <3>2. CASE pc'[c] = "fill"
      BY <1>0, <2>1, <2>2, <3>2 DEF VerdictsOK, Told, IsAllowed
    <3>. QED
      BY <2>1, <3>1, <3>2 DEF VerdictsOK
  <2>9. OrderOK(c)'
    <3>1. Len(<<>>) = 0
      OBVIOUS
    <3>2. 1..Len(kept'[c]) = {}
      BY <2>1, <3>1
    <3>. QED
      BY <3>2 DEF OrderOK, InOrder
  <2>. QED
    BY <2>4, <2>5, <2>7, <2>8, <2>9 DEF Good
<1>. QED
  BY <1>1, <1>2, <1>3, <1>4 DEF IInv

(* One packet is given back, in the loop that completes all of them or in  *)
(* the one that fills the new array.                                       *)
LEMMA BackStep ==
  ASSUME IInv, NEW c \in Cpus, Complete(c) \/ Drop(c)
  PROVE  IInv'
PROOF
<1>. USE DEF packets, locals
<1>. DEFINE q == Packet(c)
<1>0. /\ TypeOK /\ Good(c) /\ pc[c] \in {"complete", "fill"} /\ i[c] \in 1..Count(c)
      /\ Count(c) \in Nat /\ q = array[c][i[c]] /\ q \in Packets /\ owner[q] = c
      /\ pc[c] = "fill" => ~IsAllowed(q)
      /\ GiveBack(q) /\ i' = [i EXCEPT ![c] = @ + 1]
      /\ UNCHANGED <<sends, status, denied, pc, array, n_allow, kept, crashed>>
  <2>1. /\ TypeOK /\ Good(c) /\ pc[c] \in {"complete", "fill"} /\ i[c] <= Count(c)
        /\ pc[c] = "fill" => ~IsAllowed(q)
        /\ GiveBack(q) /\ i' = [i EXCEPT ![c] = @ + 1]
        /\ UNCHANGED <<sends, status, denied, pc, array, n_allow, kept, crashed>>
    BY DEF IInv, Complete, Drop, At, Discard, Advance
  <2>2. i[c] \in 1..Count(c) + 1 /\ Count(c) \in Nat
    BY <2>1, OwnsThem DEF Good, ArraysOK
  <2>. QED
    BY <2>1, <2>2, OwnsThem DEF Packet
<1>. HIDE DEF q
<1>a. owner' = [owner EXCEPT ![q] = "protocol"] /\ OwedOnce' /\ DeniedStayBack'
      /\ owner' \in [Packets -> {"protocol", "miniport"} \cup Cpus]
      /\ completions' \in [Packets -> Nat]
  BY <1>0, GivesBack, CpusAssumption DEF IInv
<1>1. TypeOK'
  BY <1>0, <1>a DEF TypeOK
<1>2. OwedOnce' /\ DeniedStayBack'
  BY <1>a
<1>3. ASSUME NEW d \in Cpus, d # c PROVE Good(d)'
  <2>1. /\ pc'[d] = pc[d] /\ array'[d] = array[d] /\ i'[d] = i[d]
        /\ n_allow'[d] = n_allow[d] /\ kept'[d] = kept[d]
    BY <1>0, <1>3 DEF TypeOK
  <2>2. \A p \in Packets : owner'[p] = d <=> owner[p] = d
    BY <1>0, <1>a, <1>3, CpusAssumption DEF TypeOK
  <2>3. \A p \in Packets : owner[p] = d =>
           status'[p] = status[p] /\ (p \in denied' <=> p \in denied)
    BY <1>0
  <2>. QED
    BY <2>1, <2>2, <2>3, Untouched DEF IInv
<1>4. Good(c)'
  <2>1. /\ array'[c] = array[c] /\ kept'[c] = kept[c] /\ i'[c] = i[c] + 1
        /\ n_allow'[c] = n_allow[c] /\ pc'[c] = pc[c] /\ Count(c)' = Count(c)
    BY <1>0 DEF TypeOK, Count
  <2>2. DOMAIN array[c] = 1..Count(c) /\ DOMAIN kept[c] = 1..Len(kept[c]) /\ IsInjective(array[c])
    BY <1>0 DEF TypeOK, Count, Good, ArraysOK
  <2>3. \A k \in i[c] + 1..Count(c) : array[c][k] # q
    BY <1>0, <2>2 DEF IsInjective
  <2>4. q \notin Range(kept[c])
    BY <1>0, <2>2 DEF Good, ArraysOK, Range
  <2>5. Holds(c)'
    <3>1. Pending(c) = {array[c][k] : k \in i[c]..Count(c)} \cup Range(kept[c])
      BY <1>0 DEF Pending
    <3>2. Pending(c)' = {array[c][k] : k \in i[c] + 1..Count(c)} \cup Range(kept[c])
      BY <1>0, <2>1 DEF Pending
    <3>3. Pending(c)' = Pending(c) \ {q}
      BY <1>0, <2>3, <2>4, <3>1, <3>2
    <3>4. {p \in Packets : owner'[p] = c} = {p \in Packets : owner[p] = c} \ {q}
      BY <1>0, <1>a, CpusAssumption DEF TypeOK
    <3>. QED
      BY <1>0, <3>3, <3>4 DEF Good, Holds
  <2>6. ArraysOK(c)'
    BY <1>0, <2>1 DEF Good, ArraysOK
  <2>7. CountOK(c)'
    <3>1. pc[c] = "fill" => Left(c)' = Left(c)
      BY <1>0, <2>1 DEF Left, IsAllowed
    <3>. QED
      BY <1>0, <2>1, <3>1 DEF Good, CountOK
  <2>8. VerdictsOK(c)'
    BY <1>0, <2>1 DEF Good, VerdictsOK, Told, IsAllowed
  <2>9. OrderOK(c)'
    <3>1. 1..i[c] - 1 \subseteq 1..i[c] + 1 - 1
      BY <1>0
    <3>. QED
      BY <1>0, <2>1, <3>1 DEF Good, OrderOK, InOrder
  <2>. QED
    BY <2>5, <2>6, <2>7, <2>8, <2>9 DEF Good
<1>. QED
  BY <1>1, <1>2, <1>3, <1>4 DEF IInv

(* All are completed: the handler returns with none in its hands.          *)
LEMMA CompletedStep ==
  ASSUME IInv, NEW c \in Cpus, Completed(c)
  PROVE  IInv'
PROOF
<1>. USE DEF packets, locals
<1>0. /\ TypeOK /\ pc[c] = "complete" /\ i[c] > Count(c) /\ pc' = [pc EXCEPT ![c] = "idle"]
      /\ UNCHANGED <<packets, locals, crashed>>
  BY DEF IInv, Completed, At, Goto, AfterComplete
<1>1. TypeOK'
  BY <1>0 DEF TypeOK
<1>2. OwedOnce' /\ DeniedStayBack'
  BY <1>0 DEF IInv, OwedOnce, DeniedStayBack
<1>3. ASSUME NEW d \in Cpus, d # c PROVE Good(d)'
  <2>1. /\ pc'[d] = pc[d] /\ array'[d] = array[d] /\ i'[d] = i[d]
        /\ n_allow'[d] = n_allow[d] /\ kept'[d] = kept[d]
    BY <1>0, <1>3 DEF TypeOK
  <2>2. \A p \in Packets : owner'[p] = d <=> owner[p] = d
    BY <1>0, <1>3, CpusAssumption
  <2>3. \A p \in Packets : owner[p] = d =>
           status'[p] = status[p] /\ (p \in denied' <=> p \in denied)
    BY <1>0
  <2>. QED
    BY <2>1, <2>2, <2>3, Untouched DEF IInv
<1>4. Good(c)'
  <2>1. /\ pc'[c] = "idle" /\ Count(c)' = Count(c) /\ kept[c] = <<>>
        /\ i[c] \in 1..Count(c) + 1 /\ Count(c) \in Nat
    BY <1>0 DEF TypeOK, Count, IInv, Good, ArraysOK
  <2>2. Pending(c) = {}
    BY <1>0, <2>1 DEF Pending, Range
  <2>3. Holds(c)'
    BY <1>0, <2>1, <2>2 DEF IInv, Good, Holds, Pending
  <2>4. ArraysOK(c)' /\ CountOK(c)' /\ VerdictsOK(c)' /\ OrderOK(c)'
    BY <1>0, <2>1 DEF IInv, Good, ArraysOK, CountOK, VerdictsOK, OrderOK
  <2>. QED
    BY <2>3, <2>4 DEF Good
<1>. QED
  BY <1>1, <1>2, <1>3, <1>4 DEF IInv

(* An allowed packet goes into the new array, which has room for it: what  *)
(* n_allow counts and is not kept yet is still to come.                    *)
LEMMA KeepStep ==
  ASSUME IInv, NEW c \in Cpus, Keep(c)
  PROVE  IInv'
PROOF
<1>. USE DEF packets, locals
<1>. DEFINE q == Packet(c)
<1>0. /\ TypeOK /\ Good(c) /\ pc[c] = "fill" /\ i[c] \in 1..Count(c) /\ Count(c) \in Nat
      /\ q = array[c][i[c]] /\ q \in Packets /\ owner[q] = c /\ IsAllowed(q)
      /\ Len(kept[c]) \in Nat /\ kept[c] \in Seq(Packets)
  <2>1. TypeOK /\ Good(c) /\ pc[c] = "fill" /\ i[c] <= Count(c) /\ IsAllowed(q)
    BY DEF IInv, Keep, At
  <2>2. i[c] \in 1..Count(c) + 1 /\ Count(c) \in Nat
    BY <2>1, OwnsThem DEF Good, ArraysOK
  <2>. QED
    <3>1. Len(kept[c]) \in Nat /\ kept[c] \in Seq(Packets)
      BY <2>1 DEF TypeOK
    <3>. QED
      BY <2>1, <2>2, <3>1, OwnsThem DEF Packet
<1>. HIDE DEF q
<1>a. /\ IsFiniteSet(Left(c)) /\ Cardinality(Left(c)) \in Nat /\ i[c] \in Left(c)
      /\ Cardinality(Left(c) \ {i[c]}) = Cardinality(Left(c)) - 1
      /\ Cardinality(Left(c) \ {i[c]}) \in Nat
  <2>1. i[c] \in Left(c) /\ Left(c) \subseteq 1..Count(c)
    BY <1>0 DEF Left
  <2>2. Left(c) \ {i[c]} \subseteq 1..Count(c)
    BY <2>1
  <2>. QED
    BY <1>0, <2>1, <2>2, IndexSet, FS_RemoveElement
<1>b. n_allow[c] = Len(kept[c]) + Cardinality(Left(c))
  BY <1>0 DEF Good, CountOK
<1>c. Room(c)
  BY <1>0, <1>a, <1>b DEF Room
<1>d. /\ kept' = [kept EXCEPT ![c] = Append(@, q)] /\ i' = [i EXCEPT ![c] = @ + 1]
      /\ UNCHANGED <<packets, pc, array, n_allow, crashed>>
  BY <1>c DEF Keep, q, Advance
<1>1. TypeOK'
  <2>1. Append(kept[c], q) \in Seq(Packets)
    BY <1>0
  <2>2. kept' \in [Cpus -> Seq(Packets)]
    <3>1. kept \in [Cpus -> Seq(Packets)] /\ kept' = [kept EXCEPT ![c] = Append(kept[c], q)]
      BY <1>0, <1>d DEF TypeOK
    <3>. QED
      BY <2>1, <3>1, ZenonT(30)
  <2>3. i' \in [Cpus -> Nat]
    <3>1. i \in [Cpus -> Nat] /\ i' = [i EXCEPT ![c] = i[c] + 1]
      BY <1>0, <1>d DEF TypeOK
    <3>. QED
      BY <3>1
  <2>4. UNCHANGED <<owner, sends, completions, status, denied, pc, array, n_allow, crashed>>
    BY <1>d DEF packets
  <2>. QED
    BY <1>0, <2>2, <2>3, <2>4 DEF TypeOK
<1>2. OwedOnce' /\ DeniedStayBack'
  BY <1>d DEF IInv, OwedOnce, DeniedStayBack
<1>3. ASSUME NEW d \in Cpus, d # c PROVE Good(d)'
  <2>1. /\ pc'[d] = pc[d] /\ array'[d] = array[d] /\ i'[d] = i[d]
        /\ n_allow'[d] = n_allow[d] /\ kept'[d] = kept[d]
    BY <1>0, <1>d, <1>3 DEF TypeOK
  <2>2. \A p \in Packets : owner'[p] = d <=> owner[p] = d
    BY <1>0, <1>d, <1>3, CpusAssumption
  <2>3. \A p \in Packets : owner[p] = d =>
           status'[p] = status[p] /\ (p \in denied' <=> p \in denied)
    BY <1>d
  <2>. QED
    BY <2>1, <2>2, <2>3, Untouched DEF IInv
<1>4. Good(c)'
  <2>1. /\ array'[c] = array[c] /\ kept'[c] = Append(kept[c], q) /\ i'[c] = i[c] + 1
        /\ n_allow'[c] = n_allow[c] /\ pc'[c] = "fill" /\ Count(c)' = Count(c)
    BY <1>0, <1>d DEF TypeOK, Count
  <2>2. /\ Len(kept'[c]) = Len(kept[c]) + 1 /\ kept'[c][Len(kept[c]) + 1] = q
        /\ \A j \in 1..Len(kept[c]) : kept'[c][j] = kept[c][j]
    BY <1>0, <2>1
  <2>3. \A k \in i[c] + 1..Count(c) : array[c][k] # q
    <3>1. DOMAIN array[c] = 1..Count(c) /\ IsInjective(array[c])
      BY <1>0 DEF TypeOK, Count, Good, ArraysOK
    <3>. QED
      BY <1>0, <3>1 DEF IsInjective
  <2>4. Holds(c)'
    <3>1. Pending(c) = {array[c][k] : k \in i[c]..Count(c)} \cup Range(kept[c])
      BY <1>0 DEF Pending
    <3>2. Pending(c)' = {array[c][k] : k \in i[c] + 1..Count(c)} \cup Range(Append(kept[c], q))
      BY <1>0, <2>1 DEF Pending
    <3>3. Range(Append(kept[c], q)) = Range(kept[c]) \cup {q}
      BY <1>0, RangeAppend
    <3>4. Pending(c)' = Pending(c)
      BY <1>0, <3>1, <3>2, <3>3
    <3>. QED
      BY <1>0, <1>d, <3>4 DEF Good, Holds
  <2>5. ArraysOK(c)'
    <3>1. \A j \in 1..Len(kept[c]), k \in i[c]..Count(c) : kept[c][j] # array[c][k]
      BY <1>0 DEF Good, ArraysOK
    <3>2. \A j \in 1..Len(kept[c]) + 1, k \in i[c] + 1..Count(c) : kept'[c][j] # array[c][k]
      <4>1. ASSUME NEW j \in 1..Len(kept[c]) + 1, NEW k \in i[c] + 1..Count(c)
            PROVE  kept'[c][j] # array[c][k]
        <5>1. CASE j = Len(kept[c]) + 1
          BY <2>2, <2>3, <5>1
        <5>2. CASE j # Len(kept[c]) + 1
          <6>1. j \in 1..Len(kept[c]) /\ k \in i[c]..Count(c)
            BY <1>0, <5>2
          <6>. QED
            BY <2>2, <3>1, <6>1
        <5>. QED
          BY <5>1, <5>2
      <4>. QED
        BY <4>1
    <3>. QED
      BY <1>0, <2>1, <2>2, <3>2 DEF Good, ArraysOK
  <2>6. CountOK(c)'
    <3>1. Left(c)' = Left(c) \ {i[c]}
      BY <1>0, <1>d, <2>1 DEF Left, IsAllowed
    <3>. QED
      BY <1>0, <1>a, <1>b, <2>1, <2>2, <3>1 DEF CountOK
  <2>7. VerdictsOK(c)'
    <3>1. /\ \A k \in i[c]..Count(c) : Told(array[c][k])
          /\ \A j \in 1..Len(kept[c]) : kept[c][j] \notin denied
      BY <1>0 DEF Good, VerdictsOK
    <3>2. \A j \in 1..Len(kept[c]) + 1 : kept'[c][j] \notin denied
      <4>1. q \notin denied
        BY <1>0, <3>1 DEF Told
      <4>2. \A j \in 1..Len(kept[c]) + 1 : j \in 1..Len(kept[c]) \/ j = Len(kept[c]) + 1
        BY <1>0
      <4>. QED
        BY <2>2, <3>1, <4>1, <4>2
    <3>. QED
      BY <1>0, <1>d, <2>1, <2>2, <3>1, <3>2 DEF VerdictsOK, Told, IsAllowed
  <2>8. OrderOK(c)'
    <3>. DEFINE n == Len(kept[c])
    <3>1. \A x \in 1..n : \E k \in 1..i[c] - 1 : kept[c][x] = array[c][k]
      BY <1>0 DEF Good, OrderOK
    <3>2. \A x, y \in 1..n, j, k \in 1..Count(c) :
            x < y /\ kept[c][x] = array[c][j] /\ kept[c][y] = array[c][k] => j < k
      BY <1>0 DEF Good, OrderOK, InOrder
    <3>3. \A j, k \in 1..Count(c) : array[c][j] = array[c][k] => j = k
      <4>1. DOMAIN array[c] = 1..Count(c) /\ IsInjective(array[c])
        BY <1>0 DEF TypeOK, Count, Good, ArraysOK
      <4>. QED
        BY <4>1 DEF IsInjective
    <3>4. \A x \in 1..n + 1 : \E k \in 1..i[c] : kept'[c][x] = array[c][k]
      <4>1. ASSUME NEW x \in 1..n + 1 PROVE \E k \in 1..i[c] : kept'[c][x] = array[c][k]
        <5>1. CASE x = n + 1
          BY <1>0, <2>2, <5>1
        <5>2. CASE x # n + 1
          <6>1. x \in 1..n
            BY <1>0, <5>2
          <6>2. PICK k \in 1..i[c] - 1 : kept[c][x] = array[c][k]
            BY <3>1, <6>1
          <6>. QED
            BY <1>0, <2>2, <6>1, <6>2
        <5>. QED
          BY <5>1, <5>2
      <4>. QED
        BY <4>1
    <3>5. ASSUME NEW x \in 1..n + 1, NEW y \in 1..n + 1, NEW j \in 1..Count(c),
                 NEW k \in 1..Count(c), x < y,
                 kept'[c][x] = array[c][j], kept'[c][y] = array[c][k]
          PROVE  j < k
      <4>1. x \in 1..n /\ kept[c][x] = array[c][j]
        <5>1. x \in 1..n
          BY <1>0, <3>5
        <5>. QED
          BY <2>2, <3>5, <5>1
      <4>2. CASE y = n + 1
        <5>1. PICK l \in 1..i[c] - 1 : kept[c][x] = array[c][l]
          BY <3>1, <4>1
        <5>2. l \in 1..Count(c) /\ array[c][l] = array[c][j] /\ array[c][k] = array[c][i[c]]
          BY <1>0, <2>2, <3>5, <4>1, <4>2, <5>1
        <5>3. l = j /\ k = i[c]
          BY <1>0, <3>3, <5>2
        <5>. QED
          BY <1>0, <5>1, <5>3
      <4>3. CASE y # n + 1
        <5>1. y \in 1..n /\ kept[c][y] = array[c][k]
          BY <1>0, <2>2, <3>5, <4>3
        <5>. QED
          BY <3>2, <3>5, <4>1, <5>1
      <4>. QED
        BY <4>2, <4>3
    <3>6. InOrder(c)'
      BY <2>1, <2>2, <3>5 DEF InOrder
    <3>7. \A x \in 1..Len(kept'[c]) : \E k \in 1..i'[c] - 1 : kept'[c][x] = array'[c][k]
      <4>1. Len(kept'[c]) = n + 1 /\ i'[c] - 1 = i[c] /\ array'[c] = array[c]
        BY <1>0, <2>1, <2>2
      <4>. QED
        BY <3>4, <4>1
    <3>. QED
      BY <3>6, <3>7 DEF OrderOK
  <2>. QED
    BY <2>4, <2>5, <2>6, <2>7, <2>8 DEF Good
<1>. QED
  BY <1>1, <1>2, <1>3, <1>4 DEF IInv

(* The array or the new array goes to the miniport.                        *)
LEMMA SendStep ==
  ASSUME IInv, NEW c \in Cpus, SendAll(c) \/ SendKept(c)
  PROVE  IInv'
PROOF
<1>. USE DEF packets, locals
<1>. DEFINE S == Pending(c)
<1>0. /\ TypeOK /\ Good(c) /\ S = {p \in Packets : owner[p] = c} /\ S \cap denied = {}
      /\ GiveTo("miniport", S) /\ pc' = [pc EXCEPT ![c] = "idle"] /\ crashed' \in BOOLEAN
      /\ UNCHANGED <<sends, completions, status, denied, locals>>
  <2>1. TypeOK /\ Good(c) /\ S = {p \in Packets : owner[p] = c}
    BY DEF IInv, Good, Holds
  <2>2. ArraysOK(c) /\ VerdictsOK(c) /\ DOMAIN array[c] = 1..Count(c)
        /\ DOMAIN kept[c] = 1..Len(kept[c]) /\ Count(c) \in Nat
    BY <2>1 DEF Good, TypeOK, Count
  <2>3. CASE SendAll(c)
    <3>1. S = Range(array[c]) /\ \A k \in 1..Count(c) : array[c][k] \notin denied
      BY <2>2, <2>3 DEF SendAll, At, Pending, VerdictsOK
    <3>2. S \cap denied = {}
      BY <2>2, <3>1 DEF Range
    <3>3. crashed' \in BOOLEAN
      BY <2>1, <2>3 DEF SendAll, TypeOK
    <3>. QED
      BY <2>1, <2>3, <3>1, <3>2, <3>3 DEF SendAll, Goto
  <2>4. CASE SendKept(c)
    <3>1. S = Range(kept[c]) /\ \A j \in 1..Len(kept[c]) : kept[c][j] \notin denied
      BY <2>2, <2>4 DEF SendKept, At, Pending, ArraysOK, VerdictsOK
    <3>2. S \cap denied = {}
      BY <2>2, <3>1 DEF Range
    <3>. QED
      BY <2>1, <2>4, <3>1, <3>2 DEF SendKept, Goto
  <2>. QED
    BY <2>3, <2>4
<1>. HIDE DEF S
<1>a. OwedOnce' /\ DeniedStayBack' /\ owner' \in [Packets -> {"protocol", "miniport"} \cup Cpus]
  BY <1>0, HandsOver DEF IInv
<1>1. TypeOK'
  BY <1>0, <1>a DEF TypeOK
<1>2. OwedOnce' /\ DeniedStayBack'
  BY <1>a
<1>3. ASSUME NEW d \in Cpus, d # c PROVE Good(d)'
  <2>1. /\ pc'[d] = pc[d] /\ array'[d] = array[d] /\ i'[d] = i[d]
        /\ n_allow'[d] = n_allow[d] /\ kept'[d] = kept[d]
    BY <1>0, <1>3 DEF TypeOK
  <2>2. \A p \in Packets : owner'[p] = d <=> owner[p] = d
    BY <1>0, <1>3, CpusAssumption DEF GiveTo
  <2>3. \A p \in Packets : owner[p] = d =>
           status'[p] = status[p] /\ (p \in denied' <=> p \in denied)
    BY <1>0
  <2>. QED
    BY <2>1, <2>2, <2>3, Untouched DEF IInv
<1>4. Good(c)'
  <2>1. pc'[c] = "idle" /\ Count(c)' = Count(c)
    BY <1>0 DEF TypeOK, Count
  <2>2. Holds(c)'
    BY <1>0, <2>1, CpusAssumption DEF Holds, Pending, GiveTo
  <2>3. ArraysOK(c)' /\ CountOK(c)' /\ VerdictsOK(c)' /\ OrderOK(c)'
    BY <1>0, <2>1 DEF Good, ArraysOK, CountOK, VerdictsOK, OrderOK
  <2>. QED
    BY <2>2, <2>3 DEF Good
<1>. QED
  BY <1>1, <1>2, <1>3, <1>4 DEF IInv

(* new_SendHandler, and new_SendCompleteHandler: the packet is in no       *)
(* handler's hands.                                                        *)
LEMMA SingleStep ==
  ASSUME IInv, NEW p \in Packets,
         \/ \E c \in Cpus, pass \in BOOLEAN : Send(c, p, pass)
         \/ SendComplete(p)
  PROVE  IInv'
PROOF
<1>. USE DEF packets, locals
<1>0. /\ TypeOK /\ OwedOnce /\ DeniedStayBack
      /\ owner[p] \in {"protocol", "miniport"}
      /\ UNCHANGED <<status, pc, locals, crashed>>
      /\ \/ /\ owner[p] = "protocol" /\ sends' = Counted(sends, {p})
            /\ \/ GiveBack(p) /\ denied' \in {denied \ {p}, denied \cup {p}}
               \/ GiveTo("miniport", {p}) /\ UNCHANGED completions /\ denied' = denied \ {p}
         \/ owner[p] = "miniport" /\ GiveBack(p) /\ UNCHANGED <<sends, denied>>
  BY DEF IInv, Send, SendComplete
<1>1. /\ owner' \in {[owner EXCEPT ![p] = "protocol"], [owner EXCEPT ![p] = "miniport"]}
      /\ sends' \in {sends, [sends EXCEPT ![p] = @ + 1]}
      /\ completions' \in {completions, [completions EXCEPT ![p] = @ + 1]}
      /\ denied' \in {denied, denied \ {p}, denied \cup {p}}
  BY <1>0 DEF TypeOK, GiveBack, GiveTo, Counted
<1>2. TypeOK'
  <2>1. owner' \in [Packets -> {"protocol", "miniport"} \cup Cpus]
    BY <1>0, <1>1 DEF TypeOK
  <2>2. sends' \in [Packets -> Nat]
    <3>1. [sends EXCEPT ![p] = @ + 1] \in [Packets -> Nat] /\ sends \in [Packets -> Nat]
      BY <1>0 DEF TypeOK
    <3>. QED
      BY <1>1, <3>1
  <2>3. completions' \in [Packets -> Nat]
    <3>1. /\ [completions EXCEPT ![p] = @ + 1] \in [Packets -> Nat]
          /\ completions \in [Packets -> Nat]
      BY <1>0 DEF TypeOK
    <3>. QED
      BY <1>1, <3>1
  <2>4. denied' \subseteq Packets
    BY <1>0, <1>1 DEF TypeOK
  <2>. QED
    BY <1>0, <2>1, <2>2, <2>3, <2>4 DEF TypeOK
<1>3. OwedOnce' /\ DeniedStayBack'
  <2>1. CASE owner[p] = "protocol" /\ GiveBack(p) /\ sends' = Counted(sends, {p})
             /\ denied' \in {denied \ {p}, denied \cup {p}}
    BY <1>0, <2>1 DEF TypeOK, OwedOnce, DeniedStayBack, GiveBack, GiveTo, Counted
  <2>2. CASE owner[p] = "protocol" /\ GiveTo("miniport", {p}) /\ UNCHANGED completions
             /\ sends' = Counted(sends, {p}) /\ denied' = denied \ {p}
    BY <1>0, <2>2 DEF TypeOK, OwedOnce, DeniedStayBack, GiveTo, Counted
  <2>3. CASE owner[p] = "miniport" /\ GiveBack(p) /\ UNCHANGED <<sends, denied>>
    BY <1>0, <2>3, GivesBack
  <2>. QED
    BY <1>0, <2>1, <2>2, <2>3
<1>4. ASSUME NEW d \in Cpus PROVE Good(d)'
  <2>1. \A r \in Packets : owner'[r] = d <=> owner[r] = d
    BY <1>0, <1>1, CpusAssumption DEF TypeOK
  <2>2. \A r \in Packets : owner[r] = d =>
           status'[r] = status[r] /\ (r \in denied' <=> r \in denied)
    BY <1>0, <1>1, CpusAssumption
  <2>. QED
    BY <1>0, <2>1, <2>2, Untouched DEF IInv
<1>. QED
  BY <1>2, <1>3, <1>4 DEF IInv

LEMMA StepInv ==
  ASSUME IInv, [Next]_vars
  PROVE  IInv'
PROOF
<1>1. ASSUME NEW c \in Cpus, NEW s \in Arrays, SendPackets(c, s) \/ SendUnfiltered(c, s)
      PROVE  IInv'
  BY <1>1, AcceptStep
<1>2. ASSUME NEW p \in Packets,
             (\E c \in Cpus, pass \in BOOLEAN : Send(c, p, pass)) \/ SendComplete(p)
      PROVE  IInv'
  BY <1>2, SingleStep
<1>3. ASSUME NEW c \in Cpus, Handler(c)
      PROVE  IInv'
  BY <1>3, FilterStep, DecideStep, BackStep, CompletedStep, KeepStep, SendStep DEF Handler
<1>4. CASE UNCHANGED vars
  <2>1. TypeOK' /\ OwedOnce' /\ DeniedStayBack'
    BY <1>4 DEF IInv, TypeOK, OwedOnce, DeniedStayBack, vars, packets, locals
  <2>2. ASSUME NEW d \in Cpus PROVE Good(d)'
    BY <1>4, Untouched DEF IInv, vars, packets, locals
  <2>. QED
    BY <2>1, <2>2 DEF IInv
<1>. QED
  BY <1>1, <1>2, <1>3, <1>4 DEF Next

(* The inductive invariant of the handlers and the owners. *)
THEOREM Invariance == Spec => []IInv
PROOF
<1>. QED
  BY InitInv, StepInv, PTL DEF Spec
-----------------------------------------------------------------------------
(* Every variable keeps its type; n_allow never goes below zero.           *)
THEOREM TypesHold == Spec => []TypeOK
PROOF
<1>1. IInv => TypeOK
  BY DEF IInv
<1>. QED
  BY <1>1, Invariance, PTL

(* Every packet that is sent is answered once, whichever of the handlers   *)
(* it went through and however often it was sent before.                   *)
THEOREM AnsweredOnce == Spec => []OwedOnce
PROOF
<1>1. IInv => OwedOnce
  BY DEF IInv
<1>. QED
  BY <1>1, Invariance, PTL

(* new_SendPacketsHandler looks only at packets that it owns, and returns  *)
(* with none, for any number of processors and any arrays.                 *)
THEOREM HoldsWhatItOwns == Spec => []HoldsPending
PROOF
<1>1. IInv => HoldsPending
  BY DEF IInv, Good, Holds, HoldsPending
<1>. QED
  BY <1>1, Invariance, PTL

(* What the handler has put into the new array: the allowed packets that   *)
(* it has looked at are those it owns and need not look at again.          *)
LEMMA NewArray ==
  ASSUME IInv, NEW c \in Cpus, pc[c] = "fill"
  PROVE  /\ Range(kept[c]) = AllowedSoFar(c) /\ InOrder(c)
         /\ i[c] > Count(c) => Len(kept[c]) = n_allow[c]
PROOF
<1>0. /\ TypeOK /\ Good(c) /\ ArraysOK(c) /\ OrderOK(c) /\ CountOK(c) /\ VerdictsOK(c)
      /\ Holds(c) /\ i[c] \in 1..Count(c) + 1 /\ Count(c) \in Nat /\ Len(kept[c]) \in Nat
      /\ DOMAIN kept[c] = 1..Len(kept[c]) /\ DOMAIN array[c] = 1..Count(c)
  <2>1. TypeOK /\ Good(c)
    BY DEF IInv
  <2>2. Count(c) \in Nat /\ Len(kept[c]) \in Nat
    BY <2>1, OwnsThem
  <2>. QED
    BY <2>1, <2>2 DEF Good, ArraysOK, TypeOK, Count
<1>1. ASSUME NEW p \in Range(kept[c]) PROVE p \in AllowedSoFar(c)
  <2>1. PICK x \in 1..Len(kept[c]) : p = kept[c][x]
    BY <1>0 DEF Range
  <2>2. p \notin denied /\ owner[p] = c
    BY <1>0, <2>1, OwnsThem DEF VerdictsOK
  <2>3. \E k \in 1..i[c] - 1 : p = array[c][k]
    BY <1>0, <2>1 DEF OrderOK
  <2>. QED
    BY <2>2, <2>3 DEF AllowedSoFar
<1>2. ASSUME NEW p \in AllowedSoFar(c) PROVE p \in Range(kept[c])
  <2>1. PICK k \in 1..i[c] - 1 : p = array[c][k]
    BY DEF AllowedSoFar
  <2>2. k \in 1..Count(c) /\ p \in Packets /\ owner[p] = c
    BY <1>0, <2>1, OwnsThem DEF AllowedSoFar
  <2>3. p \in {array[c][m] : m \in i[c]..Count(c)} \cup Range(kept[c])
    BY <1>0, <2>2 DEF Holds, Pending
  <2>4. \A m \in i[c]..Count(c) : m \in 1..Count(c) /\ m # k
    BY <1>0, <2>1
  <2>5. \A m \in i[c]..Count(c) : array[c][m] # p
    BY <1>0, <2>1, <2>2, <2>4 DEF ArraysOK, IsInjective
  <2>. QED
    BY <2>3, <2>5
<1>3. ASSUME i[c] > Count(c) PROVE Len(kept[c]) = n_allow[c]
  <2>1. Left(c) = {}
    BY <1>0, <1>3 DEF Left
  <2>. QED
    BY <1>0, <2>1, FS_EmptySet DEF CountOK
<1>. QED
  BY <1>0, <1>1, <1>2, <1>3 DEF OrderOK

(* No denied packet reaches the miniport, and the new array has the        *)
(* allowed packets, all of them and in their order.                        *)
THEOREM DeniedAreHeldBack == Spec => []DeniedNeverSent
PROOF
<1>1. IInv => DeniedNeverSent
  BY NewArray DEF IInv, DeniedNeverSent
<1>. QED
  BY <1>1, Invariance, PTL
-----------------------------------------------------------------------------
(* The handlers implement SendPromise.  What a step does to the state of   *)
(* the promise follows from what it does to one handler: the others keep   *)
(* their packets, and so do their packets the verdicts.                    *)
OnlyActs(c) == \A d \in Cpus \ {c} : pc'[d] = pc[d] /\ array'[d] = array[d] /\ i'[d] = i[d]

LEMMA OthersKeepTheirs ==
  ASSUME NEW c \in Cpus, OnlyActs(c), NEW p \in Packets, owner[p] # c, owner'[p] = owner[p],
         p \in denied' <=> p \in denied
  PROVE  Verdict(p)' = Verdict(p)
PROOF
<1>1. CASE owner[p] \in Cpus
  <2>1. Seen(p)' <=> Seen(p)
    BY <1>1 DEF Seen, OnlyActs
  <2>. QED
    BY <2>1 DEF Verdict
<1>2. CASE owner[p] \notin Cpus
  BY <1>2 DEF Verdict
<1>. QED
  BY <1>1, <1>2

LEMMA OthersGiveUp ==
  ASSUME NEW c \in Cpus, OnlyActs(c)
  PROVE  \A d \in Cpus \ {c} : d \in GivenUp' <=> d \in GivenUp
PROOF
<1>. QED
  BY DEF OnlyActs, GivenUp, Count

LEMMA NoVerdict ==
  ASSUME NEW p \in Packets, owner[p] \in {"protocol", "miniport"}
  PROVE  Verdict(p) = "none"
PROOF
<1>. QED
  BY CpusAssumption DEF Verdict

(* What a handler owns has been judged once the loop over the filters has  *)
(* ended, and then the verdict is the one that the status field tells.     *)
LEMMA Judged ==
  ASSUME IInv, NEW c \in Cpus, NEW p \in Packets, owner[p] = c,
         pc[c] = "filter" => i[c] > Count(c)
  PROVE  Verdict(p) = IF p \in denied THEN "denied" ELSE "allowed"
PROOF
<1>1. TypeOK /\ Good(c)
  BY DEF IInv
<1>2. Count(c) \in Nat /\ DOMAIN array[c] = 1..Count(c) /\ i[c] \in 1..Count(c) + 1
  BY <1>1 DEF TypeOK, Count, Good, ArraysOK
<1>3. CASE pc[c] = "filter"
  <2>1. p \in Range(array[c])
    BY <1>1, <1>3 DEF Good, Holds, Pending
  <2>2. \E k \in 1..i[c] - 1 : p = array[c][k]
    BY <1>2, <1>3, <2>1 DEF Range
  <2>. QED
    BY <2>2 DEF Verdict, Seen
<1>4. CASE pc[c] # "filter"
  BY <1>4 DEF Verdict, Seen
<1>. QED
  BY <1>3, <1>4

(* A call of new_SendPacketsHandler takes packets that no one has judged.  *)
LEMMA SubmitStep ==
  ASSUME IInv, NEW c \in Cpus, NEW s \in Arrays, SendPackets(c, s) \/ SendUnfiltered(c, s)
  PROVE  Promise!Submit(c, Range(s)) /\ Range(s) \in SUBSET Packets
PROOF
<1>. DEFINE S == Range(s)
<1>0. /\ TypeOK /\ Accept(c, s) /\ S \subseteq Packets
      /\ {p \in Packets : owner[p] = c} = {} /\ pc[c] = "idle"
      /\ \A p \in S : owner[p] = "protocol"
      /\ owner' = [p \in Packets |-> IF p \in S THEN c ELSE owner[p]]
      /\ sends' = [p \in Packets |-> IF p \in S THEN sends[p] + 1 ELSE sends[p]]
      /\ array' = [array EXCEPT ![c] = s] /\ i' = [i EXCEPT ![c] = 1]
      /\ UNCHANGED completions
  <2>1. TypeOK /\ Accept(c, s) /\ S \subseteq Packets
    BY DEF IInv, SendPackets, SendUnfiltered, Arrays, Range
  <2>2. pc[c] = "idle" /\ {p \in Packets : owner[p] = c} = {}
    BY <2>1 DEF IInv, Good, Holds, Pending, Accept, At
  <2>. QED
    BY <2>1, <2>2 DEF Accept, GiveTo, Counted
<1>a. S = {s[k] : k \in 1..Len(s)} /\ s \in Seq(Packets) /\ Len(s) \in Nat
  BY DEF Arrays, Range
<1>b. \/ pc' = [pc EXCEPT ![c] = "filter"] /\ denied' = denied
      \/ pc' = [pc EXCEPT ![c] = "send"] /\ denied' = denied \ S
  BY DEF SendPackets, SendUnfiltered, Goto
<1>. HIDE DEF S
<1>1. OnlyActs(c) /\ pc'[c] \in {"filter", "send"} /\ array'[c] = s /\ i'[c] = 1
  BY <1>0, <1>b DEF OnlyActs, TypeOK
<1>2. GivenUp' = GivenUp
  <2>1. c \notin GivenUp /\ c \notin GivenUp'
    BY <1>0, <1>1 DEF GivenUp
  <2>. QED
    BY <1>1, <2>1, OthersGiveUp DEF GivenUp
<1>3. \A p \in Packets \ S : Verdict(p)' = Verdict(p)
  BY <1>0, <1>1, <1>b, OthersKeepTheirs
<1>4. \A p \in S : Verdict(p) = "none"
  BY <1>0, NoVerdict
<1>5. CASE pc'[c] = "filter"
  <2>1. \A p \in S : Verdict(p)' = "none"
    BY <1>0, <1>1, <1>5 DEF Verdict, Seen
  <2>2. [p \in Packets |-> Verdict(p)]' = [p \in Packets |-> Verdict(p)]
    BY <1>3, <1>4, <2>1
  <2>. QED
    BY <1>0, <1>2, <2>2 DEF Promise!Submit, Promise!In, Promise!All, Promise!Once, S
<1>6. CASE pc'[c] = "send"
  <2>1. denied' = denied \ S
    BY <1>0, <1>b, <1>6 DEF TypeOK
  <2>2. \A p \in S : Verdict(p)' = "allowed"
    BY <1>0, <1>1, <1>6, <2>1 DEF Verdict, Seen
  <2>3. [p \in Packets |-> Verdict(p)]' =
          [p \in Packets |-> IF p \in S THEN "allowed" ELSE [q \in Packets |-> Verdict(q)][p]]
    BY <1>3, <2>2
  <2>. QED
    BY <1>0, <1>2, <2>3 DEF Promise!Submit, Promise!In, Promise!All, Promise!Once, S
<1>. QED
  BY <1>1, <1>5, <1>6

(* Asking the filters about the next packet of the array.                  *)
LEMMA JudgeStep ==
  ASSUME IInv, NEW c \in Cpus, NEW pass \in BOOLEAN, Filter(c, pass)
  PROVE  \E q \in Packets : Promise!Judge(c, q)
PROOF
<1>. PICK q : q = Packet(c)
  OBVIOUS
<1>0. /\ TypeOK /\ pc[c] = "filter" /\ i[c] \in 1..Count(c) /\ Count(c) \in Nat
      /\ q = array[c][i[c]] /\ q \in Packets /\ owner[q] = c
      /\ \A k \in 1..Count(c) : k # i[c] => array[c][k] # q
  <2>1. TypeOK /\ Good(c) /\ pc[c] = "filter" /\ i[c] <= Count(c)
    BY DEF IInv, Filter, At
  <2>2. i[c] \in 1..Count(c) + 1 /\ IsInjective(array[c]) /\ Count(c) \in Nat
    BY <2>1, OwnsThem DEF Good, ArraysOK
  <2>3. DOMAIN array[c] = 1..Count(c)
    BY <2>1 DEF TypeOK, Count
  <2>4. i[c] \in 1..Count(c)
    BY <2>1, <2>2
  <2>. QED
    BY <2>1, <2>2, <2>3, <2>4, OwnsThem DEF Packet, IsInjective
<1>1. /\ denied' = IF pass THEN denied \ {q} ELSE denied \cup {q}
      /\ i' = [i EXCEPT ![c] = @ + 1]
      /\ UNCHANGED <<owner, sends, completions, pc, array>>
  BY DEF Filter, Advance
<1>2. OnlyActs(c) /\ i'[c] = i[c] + 1
  BY <1>0, <1>1 DEF OnlyActs, TypeOK
<1>3. GivenUp' = GivenUp
  <2>1. c \notin GivenUp /\ c \notin GivenUp'
    BY <1>0, <1>1 DEF GivenUp
  <2>. QED
    BY <1>2, <2>1, OthersGiveUp DEF GivenUp
<1>4. Verdict(q) = "none"
  BY <1>0 DEF Verdict, Seen
<1>5. Verdict(q)' = IF pass THEN "allowed" ELSE "denied"
  <2>1. Seen(q)'
    BY <1>0, <1>1, <1>2 DEF Seen
  <2>. QED
    BY <1>0, <1>1, <2>1 DEF Verdict
<1>6. ASSUME NEW p \in Packets \ {q} PROVE Verdict(p)' = Verdict(p)
  <2>1. p \in denied' <=> p \in denied
    BY <1>1
  <2>2. CASE owner[p] = c
    <3>1. Seen(p)' <=> Seen(p)
      <4>1. 1..i'[c] - 1 = 1..i[c] - 1 \cup {i[c]}
        BY <1>0, <1>2
      <4>. QED
        BY <1>0, <1>1, <2>2, <4>1 DEF Seen
    <3>. QED
      BY <1>1, <2>1, <3>1 DEF Verdict
  <2>3. CASE owner[p] # c
    BY <1>1, <1>2, <2>1, <2>3, OthersKeepTheirs
  <2>. QED
    BY <2>2, <2>3
<1>7. [p \in Packets |-> Verdict(p)]' =
        [p \in Packets |-> IF p \in {q} THEN (IF pass THEN "allowed" ELSE "denied")
                           ELSE [r \in Packets |-> Verdict(r)][p]]
  BY <1>5, <1>6
<1>. QED
  BY <1>0, <1>1, <1>3, <1>4, <1>7 DEF Promise!Judge, Promise!All

(* The end of the loop over the filters: a call gives up only when one of  *)
(* its packets was denied.                                                 *)
LEMMA GiveUpStep ==
  ASSUME IInv, NEW c \in Cpus, Decide(c)
  PROVE  Promise!GiveUp(c) \/ UNCHANGED Promise!pVars
PROOF
<1>0. /\ TypeOK /\ Good(c) /\ pc[c] = "filter" /\ Count(c) \in Nat /\ i[c] = Count(c) + 1
      /\ DOMAIN array[c] = 1..Count(c)
      /\ i' = [i EXCEPT ![c] = 1]
      /\ UNCHANGED <<owner, sends, completions, status, denied, array>>
  <2>1. TypeOK /\ Good(c) /\ pc[c] = "filter" /\ i[c] > Count(c)
    BY DEF IInv, Decide, At
  <2>2. i[c] \in 1..Count(c) + 1 /\ Count(c) \in Nat
    BY <2>1, OwnsThem DEF Good, ArraysOK
  <2>3. DOMAIN array[c] = 1..Count(c)
    BY <2>1 DEF TypeOK, Count
  <2>. QED
    BY <2>1, <2>2, <2>3 DEF Decide, packets
<1>1. /\ OnlyActs(c) /\ i'[c] = 1 /\ array'[c] = array[c] /\ Count(c)' = Count(c)
      /\ \/ pc'[c] \in {"send", "fill"}
         \/ pc'[c] = "complete" /\ n_allow[c] < Count(c)
  BY <1>0 DEF Decide, Goto, OnlyActs, TypeOK, Count
<1>2. [p \in Packets |-> Verdict(p)]' = [p \in Packets |-> Verdict(p)]
  <2>1. ASSUME NEW p \in Packets, owner[p] = c PROVE Verdict(p)' = Verdict(p)
    <3>1. Verdict(p) = IF p \in denied THEN "denied" ELSE "allowed"
      BY <1>0, <2>1, Judged
    <3>2. Seen(p)'
      BY <1>0, <1>1, <2>1 DEF Seen
    <3>. QED
      BY <1>0, <2>1, <3>1, <3>2 DEF Verdict
  <2>2. ASSUME NEW p \in Packets, owner[p] # c PROVE Verdict(p)' = Verdict(p)
    BY <1>0, <1>1, <2>2, OthersKeepTheirs
  <2>. QED
    BY <2>1, <2>2
<1>3. CASE pc'[c] \in {"send", "fill"}
  <2>1. c \notin GivenUp /\ c \notin GivenUp'
    BY <1>0, <1>3 DEF GivenUp
  <2>2. GivenUp' = GivenUp
    BY <1>1, <2>1, OthersGiveUp DEF GivenUp
  <2>. QED
    BY <1>0, <1>2, <2>2 DEF Promise!pVars
<1>4. CASE pc'[c] = "complete" /\ n_allow[c] < Count(c)
  <2>1. PICK k \in 1..Count(c) : array[c][k] \in denied
    <3>1. Passed(c) = {k \in 1..Count(c) : IsAllowed(array[c][k])}
      BY <1>0 DEF Passed
    <3>2. Cardinality(Passed(c)) \in Nat
      BY <1>0, <3>1, IndexSet
    <3>3. n_allow[c] = Cardinality(Passed(c))
      BY <1>0, <3>2 DEF Good, CountOK
    <3>4. IsFiniteSet(1..Count(c)) /\ Cardinality(1..Count(c)) = Count(c)
      <4>. DEFINE from == 1
      <4>1. from \in Int /\ Count(c) \in Int /\ (from > Count(c) <=> Count(c) = 0)
            /\ Count(c) - from + 1 = Count(c)
        BY <1>0
      <4>. HIDE DEF from
      <4>2. /\ IsFiniteSet(from..Count(c))
            /\ Cardinality(from..Count(c)) = IF from > Count(c) THEN 0 ELSE Count(c) - from + 1
        BY <4>1, FS_Interval
      <4>. QED
        BY <4>1, <4>2 DEF from
    <3>5. Passed(c) # 1..Count(c)
      BY <1>0, <1>4, <3>3, <3>4
    <3>6. PICK k \in 1..Count(c) : ~IsAllowed(array[c][k])
      BY <3>1, <3>5
    <3>7. Told(array[c][k])
      BY <1>0, <3>6 DEF Good, VerdictsOK
    <3>. QED
      BY <3>6, <3>7 DEF Told
  <2>2. PICK p \in Packets : owner[p] = c /\ p \in denied
    BY <1>0, <2>1, OwnsThem
  <2>3. \A q \in Packets : owner[q] = c => Verdict(q) # "none"
    <3>1. ASSUME NEW q \in Packets, owner[q] = c PROVE Verdict(q) # "none"
      BY <1>0, <3>1, Judged
    <3>. QED
      BY <3>1
  <2>4. Verdict(p) = "denied"
    BY <1>0, <2>2, Judged
  <2>5. GivenUp' = GivenUp \cup {c}
    <3>1. c \in GivenUp'
      <4>1. 1 <= Count(c)
        BY <1>0, <2>1
      <4>. QED
        BY <1>1, <1>4, <4>1 DEF GivenUp
    <3>. QED
      BY <1>1, <3>1, OthersGiveUp DEF GivenUp
  <2>. QED
    BY <1>0, <1>2, <2>2, <2>3, <2>4, <2>5 DEF Promise!GiveUp, Promise!Judged, Promise!In
<1>. QED
  BY <1>1, <1>3, <1>4

(* A packet is given back: all were judged, and this one was denied unless *)
(* the call has given up.  It has given up until the last one is back.     *)
LEMMA ReturnStep ==
  ASSUME IInv, NEW c \in Cpus, Complete(c) \/ Drop(c)
  PROVE  \E q \in Packets : Promise!Return(c, q)
PROOF
<1>. PICK q : q = Packet(c)
  OBVIOUS
<1>0. /\ TypeOK /\ Good(c) /\ pc[c] \in {"complete", "fill"} /\ i[c] \in 1..Count(c)
      /\ Count(c) \in Nat /\ q = array[c][i[c]] /\ q \in Packets /\ owner[q] = c
      /\ pc[c] = "fill" => ~IsAllowed(q)
      /\ GiveBack(q) /\ i' = [i EXCEPT ![c] = @ + 1]
      /\ UNCHANGED <<sends, denied, pc, array>>
  <2>1. /\ TypeOK /\ Good(c) /\ pc[c] \in {"complete", "fill"} /\ i[c] <= Count(c)
        /\ pc[c] = "fill" => ~IsAllowed(q)
        /\ GiveBack(q) /\ i' = [i EXCEPT ![c] = @ + 1]
        /\ UNCHANGED <<sends, denied, pc, array>>
    BY DEF IInv, Complete, Drop, At, Discard, Advance
  <2>2. i[c] \in 1..Count(c) + 1 /\ Count(c) \in Nat
    BY <2>1, OwnsThem DEF Good, ArraysOK
  <2>. QED
    BY <2>1, <2>2, OwnsThem DEF Packet
<1>1. /\ OnlyActs(c) /\ i'[c] = i[c] + 1 /\ Count(c)' = Count(c)
      /\ owner' = [p \in Packets |-> IF p \in {q} THEN "protocol" ELSE owner[p]]
      /\ completions' = [p \in Packets |-> IF p \in {q} THEN completions[p] + 1 ELSE completions[p]]
  BY <1>0 DEF OnlyActs, TypeOK, GiveBack, GiveTo, Counted, Count
<1>2. \A p \in Packets : owner[p] = c => Verdict(p) # "none"
  <2>1. ASSUME NEW p \in Packets, owner[p] = c PROVE Verdict(p) # "none"
    BY <1>0, <2>1, Judged
  <2>. QED
    BY <2>1
<1>3. c \in GivenUp \/ Verdict(q) = "denied"
  <2>1. CASE pc[c] = "complete"
    BY <1>0, <2>1 DEF GivenUp
  <2>2. CASE pc[c] = "fill"
    <3>1. Told(q)
      BY <1>0, <2>2 DEF Good, VerdictsOK
    <3>2. q \in denied
      BY <1>0, <2>2, <3>1 DEF Told
    <3>. QED
      BY <1>0, <2>2, <3>2, Judged
  <2>. QED
    BY <1>0, <2>1, <2>2
<1>4. [p \in Packets |-> Verdict(p)]' =
        [p \in Packets |-> IF p \in {q} THEN "none" ELSE [r \in Packets |-> Verdict(r)][p]]
  <2>1. Verdict(q)' = "none"
    BY <1>0, <1>1, CpusAssumption DEF Verdict
  <2>2. ASSUME NEW p \in Packets \ {q} PROVE Verdict(p)' = Verdict(p)
    <3>1. owner'[p] = owner[p]
      BY <1>1
    <3>2. CASE owner[p] = c
      <4>1. Seen(p) /\ Seen(p)'
        BY <1>0, <3>1, <3>2 DEF Seen
      <4>. QED
        BY <1>0, <3>1, <3>2, <4>1 DEF Verdict
    <3>3. CASE owner[p] # c
      BY <1>0, <1>1, <3>1, <3>3, OthersKeepTheirs
    <3>. QED
      BY <3>2, <3>3
  <2>. QED
    BY <2>1, <2>2
<1>5. GivenUp' = IF {p \in Packets : owner[p] = c} = {q} THEN GivenUp \ {c} ELSE GivenUp
  <2>1. CASE pc[c] = "fill"
    <3>1. c \notin GivenUp /\ c \notin GivenUp'
      BY <1>0, <2>1 DEF GivenUp
    <3>2. GivenUp' = GivenUp
      BY <1>1, <3>1, OthersGiveUp DEF GivenUp
    <3>. QED
      BY <3>1, <3>2
  <2>2. CASE pc[c] = "complete"
    <3>0. kept[c] = <<>> /\ IsInjective(array[c]) /\ DOMAIN array[c] = 1..Count(c)
      BY <1>0, <2>2 DEF Good, ArraysOK, TypeOK, Count
    <3>1. {p \in Packets : owner[p] = c} = {array[c][k] : k \in i[c]..Count(c)}
      BY <1>0, <2>2, <3>0 DEF Good, Holds, Pending, Range
    <3>2. c \in GivenUp' <=> i[c] + 1 <= Count(c)
      BY <1>0, <1>1, <2>2 DEF GivenUp
    <3>3. {p \in Packets : owner[p] = c} = {q} <=> ~(i[c] + 1 <= Count(c))
      <4>1. CASE i[c] + 1 <= Count(c)
        <5>1. i[c] + 1 \in i[c]..Count(c) /\ i[c] + 1 \in 1..Count(c) /\ i[c] \in 1..Count(c)
          BY <1>0, <4>1
        <5>2. array[c][i[c] + 1] # q
          BY <1>0, <3>0, <5>1 DEF IsInjective
        <5>. QED
          BY <3>1, <4>1, <5>1, <5>2
      <4>2. CASE ~(i[c] + 1 <= Count(c))
        <5>1. i[c]..Count(c) = {i[c]}
          BY <1>0, <4>2
        <5>. QED
          BY <1>0, <3>1, <4>2, <5>1
      <4>. QED
        BY <4>1, <4>2
    <3>4. c \in GivenUp
      BY <1>0, <2>2 DEF GivenUp
    <3>5. GivenUp \subseteq Cpus /\ GivenUp' \subseteq Cpus
      BY DEF GivenUp
    <3>6. GivenUp' = IF c \in GivenUp' THEN GivenUp ELSE GivenUp \ {c}
      BY <1>1, <3>4, <3>5, OthersGiveUp
    <3>. QED
      BY <3>2, <3>3, <3>6
  <2>. QED
    BY <1>0, <2>1, <2>2
<1>. QED
  BY <1>0, <1>1, <1>2, <1>3, <1>4, <1>5
     DEF Promise!Return, Promise!Judged, Promise!In, Promise!All, Promise!Once

(* The array, or the new array, goes to the miniport: it has all packets   *)
(* that the handler still owns, and none of them was denied.               *)
LEMMA ForwardStep ==
  ASSUME IInv, NEW c \in Cpus, SendAll(c) \/ SendKept(c)
  PROVE  Promise!Forward(c)
PROOF
<1>1. TypeOK /\ Good(c) /\ Holds(c) /\ ArraysOK(c) /\ VerdictsOK(c) /\ Count(c) \in Nat
      /\ DOMAIN array[c] = 1..Count(c) /\ DOMAIN kept[c] = 1..Len(kept[c])
  BY DEF IInv, Good, TypeOK, Count
<1>2. /\ pc[c] \in {"send", "fill"} /\ pc' = [pc EXCEPT ![c] = "idle"]
      /\ UNCHANGED <<sends, completions, denied, array, i>>
      /\ owner' = [p \in Packets |-> IF p \in Pending(c) THEN "miniport" ELSE owner[p]]
      /\ Pending(c) \cap denied = {}
  <2>1. CASE SendAll(c)
    <3>1. pc[c] = "send" /\ Pending(c) = Range(array[c])
      BY <2>1 DEF SendAll, At, Pending
    <3>2. Range(array[c]) \cap denied = {}
      BY <1>1, <3>1 DEF VerdictsOK, Range
    <3>. QED
      BY <2>1, <3>1, <3>2 DEF SendAll, Goto, GiveTo, locals
  <2>2. CASE SendKept(c)
    <3>1. pc[c] = "fill" /\ Pending(c) = Range(kept[c])
      <4>1. pc[c] = "fill" /\ i[c] > Count(c) /\ i[c] \in Nat
        BY <1>1, <2>2 DEF SendKept, At, ArraysOK
      <4>2. i[c]..Count(c) = {}
        BY <1>1, <4>1
      <4>. QED
        BY <4>1, <4>2 DEF Pending
    <3>2. Range(kept[c]) \cap denied = {}
      BY <1>1, <3>1 DEF VerdictsOK, Range
    <3>. QED
      BY <2>2, <3>1, <3>2 DEF SendKept, Goto, GiveTo, locals
  <2>. QED
    BY <2>1, <2>2
<1>3. PICK S \in SUBSET Packets : S = {p \in Packets : owner[p] = c} /\ S = Pending(c)
  BY <1>1 DEF Holds
<1>4. OnlyActs(c) /\ pc'[c] = "idle"
  BY <1>1, <1>2 DEF OnlyActs, TypeOK
<1>5. \A p \in S : Verdict(p) = "allowed"
  <2>1. ASSUME NEW p \in S PROVE Verdict(p) = "allowed"
    BY <1>2, <1>3, <2>1, Judged
  <2>. QED
    BY <2>1
<1>6. [p \in Packets |-> Verdict(p)]' =
        [p \in Packets |-> IF p \in S THEN "none" ELSE [r \in Packets |-> Verdict(r)][p]]
  <2>1. \A p \in S : Verdict(p)' = "none"
    BY <1>2, <1>3, CpusAssumption DEF Verdict
  <2>2. ASSUME NEW p \in Packets \ S PROVE Verdict(p)' = Verdict(p)
    BY <1>2, <1>3, <1>4, <2>2, OthersKeepTheirs
  <2>. QED
    BY <2>1, <2>2
<1>7. c \notin GivenUp /\ GivenUp' = GivenUp
  <2>1. c \notin GivenUp /\ c \notin GivenUp'
    BY <1>2, <1>4 DEF GivenUp
  <2>. QED
    BY <1>4, <2>1, OthersGiveUp DEF GivenUp
<1>. QED
  BY <1>2, <1>3, <1>5, <1>6, <1>7 DEF Promise!Forward, Promise!In, Promise!All

(* The loop that fills the new array, and the return when all packets are  *)
(* completed, change nothing of what was promised.                         *)
LEMMA QuietStep ==
  ASSUME IInv, NEW c \in Cpus, Keep(c) \/ Completed(c)
  PROVE  UNCHANGED Promise!pVars
PROOF
<1>1. TypeOK /\ Holds(c) /\ ArraysOK(c) /\ Count(c) \in Nat
  BY DEF IInv, Good, TypeOK, Count
<1>2. /\ UNCHANGED <<owner, sends, completions, denied, array>>
      /\ \/ pc[c] = "fill" /\ pc' = pc /\ \A d \in Cpus \ {c} : i'[d] = i[d]
         \/ /\ pc[c] = "complete" /\ i[c] > Count(c)
            /\ pc' = [pc EXCEPT ![c] = "idle"] /\ UNCHANGED i
  BY <1>1 DEF Keep, Completed, At, Goto, Advance, AfterComplete, packets, locals, TypeOK
<1>3. OnlyActs(c) /\ pc[c] # "filter" /\ pc'[c] # "filter"
  BY <1>1, <1>2 DEF OnlyActs, TypeOK
<1>4. [p \in Packets |-> Verdict(p)]' = [p \in Packets |-> Verdict(p)]
  <2>1. ASSUME NEW p \in Packets PROVE Verdict(p)' = Verdict(p)
    <3>1. CASE owner[p] = c
      <4>1. Seen(p) /\ Seen(p)'
        BY <1>2, <1>3, <3>1 DEF Seen
      <4>. QED
        BY <1>2, <4>1 DEF Verdict
    <3>2. CASE owner[p] # c
      BY <1>2, <1>3, <3>2, OthersKeepTheirs
    <3>. QED
      BY <3>1, <3>2
  <2>. QED
    BY <2>1
<1>5. GivenUp' = GivenUp
  <2>1. c \notin GivenUp
    BY <1>1, <1>2 DEF GivenUp, ArraysOK
  <2>2. c \notin GivenUp'
    BY <1>1, <1>2 DEF GivenUp, TypeOK
  <2>. QED
    BY <1>3, <2>1, <2>2, OthersGiveUp DEF GivenUp
<1>. QED
  BY <1>2, <1>4, <1>5 DEF Promise!pVars

(* A packet that is no handler's goes to the miniport or comes back.       *)
LEMMA PassesBy ==
  ASSUME IInv, NEW p \in Packets,
         \/ \E c \in Cpus, pass \in BOOLEAN : Send(c, p, pass)
         \/ SendComplete(p)
  PROVE  Promise!Single(p) \/ Promise!Finish(p)
PROOF
<1>1. /\ owner[p] \in {"protocol", "miniport"} /\ UNCHANGED <<pc, array, i>>
      /\ \A q \in Packets \ {p} : q \in denied' <=> q \in denied
      /\ \/ owner' = [q \in Packets |-> IF q \in {p} THEN "protocol" ELSE owner[q]]
         \/ owner' = [q \in Packets |-> IF q \in {p} THEN "miniport" ELSE owner[q]]
  BY DEF Send, SendComplete, GiveBack, GiveTo, locals
<1>2. GivenUp' = GivenUp
  BY <1>1 DEF GivenUp, Count
<1>3. [q \in Packets |-> Verdict(q)]' = [q \in Packets |-> Verdict(q)]
  <2>1. Verdict(p) = "none" /\ Verdict(p)' = "none"
    BY <1>1, CpusAssumption DEF Verdict
  <2>2. ASSUME NEW q \in Packets \ {p} PROVE Verdict(q)' = Verdict(q)
    <3>1. owner'[q] = owner[q] /\ (q \in denied' <=> q \in denied)
      BY <1>1
    <3>2. Seen(q)' <=> Seen(q)
      BY <1>1, <3>1 DEF Seen
    <3>. QED
      BY <3>1, <3>2 DEF Verdict
  <2>. QED
    BY <2>1, <2>2
<1>4. CASE \E c \in Cpus, pass \in BOOLEAN : Send(c, p, pass)
  <2>1. /\ owner[p] = "protocol"
        /\ sends' = [q \in Packets |-> IF q \in {p} THEN sends[q] + 1 ELSE sends[q]]
        /\ \/ GiveBack(p)
           \/ GiveTo("miniport", {p}) /\ UNCHANGED completions
    BY <1>4 DEF Send, Counted
  <2>2. CASE GiveBack(p)
    <3>1. owner' = owner
      BY <2>1, <2>2 DEF GiveBack, GiveTo, IInv, TypeOK
    <3>. QED
      BY <1>2, <1>3, <2>1, <2>2, <3>1 DEF GiveBack, Counted, Promise!Single, Promise!Once
  <2>3. CASE GiveTo("miniport", {p}) /\ UNCHANGED completions
    BY <1>2, <1>3, <2>1, <2>3 DEF GiveTo, Promise!Single, Promise!Once, Promise!All
  <2>. QED
    BY <2>1, <2>2, <2>3
<1>5. CASE SendComplete(p)
  BY <1>2, <1>3, <1>5
     DEF SendComplete, GiveBack, GiveTo, Counted, Promise!Finish, Promise!Once, Promise!All
<1>. QED
  BY <1>4, <1>5

LEMMA PromiseStep ==
  ASSUME IInv, [Next]_vars
  PROVE  [Promise!Next]_(Promise!pVars)
PROOF
<1>1. ASSUME NEW c \in Cpus, NEW s \in Arrays, SendPackets(c, s) \/ SendUnfiltered(c, s)
      PROVE  Promise!Next
  BY <1>1, SubmitStep DEF Promise!Next
<1>2. ASSUME NEW p \in Packets,
             (\E c \in Cpus, pass \in BOOLEAN : Send(c, p, pass)) \/ SendComplete(p)
      PROVE  Promise!Next
  BY <1>2, PassesBy DEF Promise!Next
<1>3. ASSUME NEW c \in Cpus, Handler(c)
      PROVE  Promise!Next \/ UNCHANGED Promise!pVars
  <2>1. CASE \E pass \in BOOLEAN : Filter(c, pass)
    BY <2>1, JudgeStep DEF Promise!Next
  <2>2. CASE Decide(c)
    BY <2>2, GiveUpStep DEF Promise!Next
  <2>3. CASE Complete(c) \/ Drop(c)
    BY <2>3, ReturnStep DEF Promise!Next
  <2>4. CASE Keep(c) \/ Completed(c)
    BY <2>4, QuietStep
  <2>5. CASE SendAll(c) \/ SendKept(c)
    BY <2>5, ForwardStep DEF Promise!Next
  <2>. QED
    BY <1>3, <2>1, <2>2, <2>3, <2>4, <2>5 DEF Handler
<1>4. CASE UNCHANGED vars
  BY <1>4 DEF vars, packets, locals, Promise!pVars, GivenUp, Count, Verdict, Seen
<1>. QED
  BY <1>1, <1>2, <1>3, <1>4 DEF Next

(* The send handlers implement SendPromise: a packet that was not denied   *)
(* is given back unsent only by a call that denied another and has given   *)
(* up, all others of a call go to the miniport together, and each send is  *)
(* answered once.                                                          *)
THEOREM PromiseIsKept == Spec => KeepsPromise
PROOF
<1>1. Init => Promise!Init
  <2>. SUFFICES ASSUME Init PROVE Promise!Init
    OBVIOUS
  <2>1. \A p \in Packets : Verdict(p) = "none"
    BY CpusAssumption DEF Init, Verdict
  <2>2. GivenUp = {}
    BY DEF Init, GivenUp
  <2>. QED
    BY <2>1, <2>2 DEF Init, Promise!Init
<1>2. IInv /\ [Next]_vars => [Promise!Next]_(Promise!pVars)
  BY PromiseStep
<1>. QED
  BY <1>1, <1>2, Invariance, PTL DEF Spec, KeepsPromise, Promise!Spec
=============================================================================
