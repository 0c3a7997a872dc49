--------------------------- MODULE FilterStackProofs ---------------------------
(***************************************************************************)
(* Proofs about FilterStack: for any number of filters, processors and     *)
(* packets, however filters are attached and detached between the packets, *)
(* the list stays linked in both directions, no detached filter is called, *)
(* what leaves at an end was passed by every filter on its way, in order,  *)
(* and no packet leaves twice.                                             *)
(***************************************************************************)
EXTENDS FilterStack, FiniteSetTheorems, SequenceTheorems, TLAPS

(* Where a frame goes: the filters of below between the two ends.  An RST  *)
(* enters at the filter that its segment came from, so that only a packet  *)
(* can be followed back to the end where it entered.                       *)
End(d) == IF d = "in" THEN "bottom" ELSE "top"
Stop(fr, j) == IF j = 0 THEN End(Opposite(fr.dir))
               ELSE IF j = Len(fr.below) + 1 THEN End(fr.dir) ELSE fr.below[j]

Route(fr) ==
  /\ \A j \in 1..Len(fr.below) : /\ fr.below[j] \in Range(order)
                                 /\ Onward(Stop(fr, j), fr.dir) = Stop(fr, j+1)
  /\ fr.kind = "packet" =>
       \A j \in 0..Len(fr.below) : Onward(Stop(fr, j+1), Opposite(fr.dir)) = Stop(fr, j)

(* A frame has passed the filters of its route up to the one it is at.     *)
OnRoute(fr) ==
  /\ Route(fr)
  /\ Len(fr.path) <= Len(fr.below)
  /\ \A j \in 1..Len(fr.path) : fr.path[j] = fr.below[j]
  /\ fr.at = Stop(fr, Len(fr.path) + 1)
  /\ fr.unchanged # fr.changed

(* Only the processor that holds the lock has frames, a packet that is not *)
(* decided and perhaps the RST that answers it.                            *)
CallOK(c) ==
  calls[c] # <<>> =>
    /\ guard = c
    /\ Len(calls[c]) <= 2
    /\ verdict[calls[c][1].pkt] = "none"
    /\ \A i \in 1..Len(calls[c]) : /\ OnRoute(calls[c][i])
                                   /\ calls[c][i].pkt = calls[c][1].pkt
                                   /\ calls[c][i].kind = IF i = 1 THEN "packet" ELSE "rst"

(* A frame that got to an end went all its way, and its packet was stopped. *)
AllTheWay(fr) == fr.path = fr.below /\ fr.unchanged # fr.changed
CopyOK(fr)    == AllTheWay(fr) /\ verdict[fr.pkt] = "stop"

(* No two copies are of one packet. *)
Alone ==
  /\ \A v, w \in work : v.pkt = w.pkt => v = w
  /\ \A i, j \in 1..Len(sent) : sent[i].pkt = sent[j].pkt => i = j
  /\ \A w \in work, i \in 1..Len(sent) : w.pkt # sent[i].pkt

CopiesOK == /\ \A w \in work : CopyOK(w)
            /\ \A i \in 1..Len(sent) : CopyOK(sent[i])
            /\ Alone

IInv == TypeOK /\ Linked /\ (\A c \in Cpus : CallOK(c)) /\ CopiesOK
-----------------------------------------------------------------------------
(* How the operations on order move the nodes of the list. *)
LEMMA Prepended ==
  ASSUME NEW s \in Seq(Filters), NEW f \in Filters
  PROVE  /\ <<f>> \o s \in Seq(Filters)
         /\ Len(<<f>> \o s) = Len(s) + 1
         /\ (<<f>> \o s)[1] = f
         /\ \A i \in 1..Len(s) : (<<f>> \o s)[i+1] = s[i]
         /\ \A i \in 1..Len(s)+1 : Nth(<<f>> \o s, i+1) = Nth(s, i)
         /\ Nth(<<f>> \o s, 1) = f
PROOF
<1>1. <<f>> \in Seq(Filters) /\ Len(<<f>>) = 1 /\ <<f>>[1] = f
  OBVIOUS
<1>2. /\ <<f>> \o s \in Seq(Filters)
      /\ Len(<<f>> \o s) = Len(s) + 1
      /\ (<<f>> \o s)[1] = f
      /\ \A i \in 1..Len(s) : (<<f>> \o s)[i+1] = s[i]
  BY <1>1
<1>. QED
  BY <1>2 DEF Nth

LEMMA Appended ==
  ASSUME NEW s \in Seq(Filters), NEW f \in Filters
  PROVE  /\ Append(s, f) \in Seq(Filters)
         /\ Len(Append(s, f)) = Len(s) + 1
         /\ Append(s, f)[Len(s) + 1] = f
         /\ \A i \in 1..Len(s) : Append(s, f)[i] = s[i]
         /\ \A i \in 0..Len(s) : Nth(Append(s, f), i) = Nth(s, i)
         /\ Nth(Append(s, f), Len(s) + 1) = f
         /\ Nth(Append(s, f), Len(s) + 2) = "bottom"
PROOF
<1>1. /\ Append(s, f) \in Seq(Filters)
      /\ Len(Append(s, f)) = Len(s) + 1
      /\ Append(s, f)[Len(s) + 1] = f
      /\ \A i \in 1..Len(s) : Append(s, f)[i] = s[i]
  OBVIOUS
<1>. QED
  BY <1>1 DEF Nth

LEMMA Removed ==
  ASSUME NEW s \in Seq(Filters), IsInjective(s), NEW k \in 1..Len(s)
  PROVE  /\ RemoveFirst(s, s[k]) \in Seq(Filters)
         /\ Len(RemoveFirst(s, s[k])) = Len(s) - 1
         /\ \A i \in 1..Len(s)-1 :
              RemoveFirst(s, s[k])[i] = IF i < k THEN s[i] ELSE s[i+1]
         /\ \A i \in 0..Len(s) :
              Nth(RemoveFirst(s, s[k]), i) = IF i < k THEN Nth(s, i) ELSE Nth(s, i+1)
PROOF
<1>. DEFINE I == {i \in 1..Len(s) : s[i] = s[k]}
<1>1. DOMAIN s = 1..Len(s) /\ Len(s) \in Nat /\ k \in Int /\ 1 <= k /\ k <= Len(s)
  OBVIOUS
<1>2. I = {k}
  BY <1>1 DEF IsInjective
<1>3. Min(I) = k
  BY <1>2 DEF Min
<1>4. SelectInSeq(s, LAMBDA v : v = s[k]) = k
  BY <1>2, <1>3 DEF SelectInSeq
<1>5. RemoveFirst(s, s[k]) = RemoveAt(s, k)
  BY <1>4 DEF RemoveFirst
<1>. DEFINE u == SubSeq(s, 1, k-1)
            v == SubSeq(s, k+1, Len(s))
<1>. HIDE DEF I
<1>6. u \in Seq(Filters) /\ Len(u) = k-1 /\ \A i \in 1..k-1 : u[i] = s[i]
  BY <1>1
<1>7. v \in Seq(Filters) /\ Len(v) = Len(s)-k
  <2>1. /\ v \in Seq(Filters)
        /\ Len(v) = IF k+1 <= Len(s) THEN Len(s)-(k+1)+1 ELSE 0
    BY <1>1, SubSeqProperties
  <2>. HIDE DEF v
  <2>. DEFINE n == Len(s)
  <2>2. n \in Nat /\ k \in Int /\ 1 <= k /\ k <= n /\ Len(v) = IF k+1 <= n THEN n-(k+1)+1 ELSE 0
    BY <1>1, <2>1
  <2>. HIDE DEF n
  <2>3. Len(v) = n-k
    BY <2>2
  <2>. QED
    BY <2>1, <2>3 DEF n
<1>9. \A i \in 1..Len(s)-k : v[i] = s[k+i]
  BY <1>1
<1>. HIDE DEF u, v
<1>10. /\ u \o v \in Seq(Filters)
       /\ Len(u \o v) = Len(u) + Len(v)
       /\ \A i \in 1..Len(u) + Len(v) :
            (u \o v)[i] = IF i <= Len(u) THEN u[i] ELSE v[i - Len(u)]
  BY <1>6, <1>7, ConcatProperties
<1>11. Len(u) + Len(v) = Len(s) - 1
  BY <1>1, <1>6, <1>7
<1>12. ASSUME NEW i \in 1..Len(s)-1
       PROVE  (u \o v)[i] = IF i < k THEN s[i] ELSE s[i+1]
  <2>1. CASE i < k
    BY <1>1, <1>6, <1>10, <1>11, <2>1
  <2>2. CASE ~(i < k)
    <3>1. (u \o v)[i] = v[i - Len(u)]
      BY <1>1, <1>6, <1>10, <1>11, <2>2
    <3>2. i - Len(u) = i - k + 1 /\ i - k + 1 \in 1..Len(s)-k /\ k + (i - k + 1) = i + 1
      BY <1>1, <1>6, <2>2
    <3>. QED
      BY <1>9, <2>2, <3>1, <3>2
  <2>. QED
    BY <2>1, <2>2
<1>8. RemoveAt(s, k) = u \o v
  BY DEF RemoveAt, u, v
<1>. DEFINE t == u \o v
<1>13. /\ t \in Seq(Filters) /\ Len(t) = Len(s) - 1 /\ Len(s) \in Nat
       /\ \A i \in 1..Len(s)-1 : t[i] = IF i < k THEN s[i] ELSE s[i+1]
  BY <1>1, <1>10, <1>11, <1>12
<1>14. RemoveFirst(s, s[k]) = t
  BY <1>5, <1>8
<1>. HIDE DEF t
<1>15. ASSUME NEW i \in 0..Len(s)
       PROVE  Nth(t, i) = IF i < k THEN Nth(s, i) ELSE Nth(s, i+1)
  BY <1>13 DEF Nth
<1>. QED
  BY <1>13, <1>14, <1>15

LEMMA Reversed ==
  ASSUME NEW s \in Seq(Filters)
  PROVE  /\ Reverse(s) \in Seq(Filters)
         /\ Len(Reverse(s)) = Len(s)
         /\ \A i \in 1..Len(s) : Reverse(s)[i] = s[Len(s) + 1 - i]
PROOF
<1>. QED
  BY DEF Reverse

(* The nodes of the list are nodes, each at one place. *)
LEMMA Places ==
  ASSUME NEW s \in Seq(Filters), IsInjective(s)
  PROVE  /\ \A i \in 0..Len(s)+1 : Nth(s, i) \in Nodes
         /\ \A i, j \in 0..Len(s)+1 : Nth(s, i) = Nth(s, j) => i = j
PROOF
<1>1. DOMAIN s = 1..Len(s) /\ Len(s) \in Nat /\ \A i \in 1..Len(s) : s[i] \in Filters
  OBVIOUS
<1>2. \A i \in 1..Len(s) : s[i] \notin Ends
  BY <1>1, NamesAssumption
<1>3. \A i \in 0..Len(s)+1 : Nth(s, i) \in Nodes
  BY <1>1 DEF Nth, Nodes, Ends
<1>. QED
  BY <1>1, <1>2, <1>3 DEF Nth, IsInjective, Ends

(* What attach_filter finds in the list is in it. *)
LEMMA BelowIsAttached ==
  ASSUME TypeOK, Linked
  PROVE  Below \subseteq Range(order)
PROOF
<1>. DEFINE S == Range(order) \cup {"bottom"}
<1>1. order \in Seq(Filters) /\ DOMAIN order = 1..Len(order) /\ Len(order) \in Nat
  BY DEF TypeOK
<1>2. S \subseteq Nodes /\ \A i \in 1..Len(order)+1 : Nth(order, i) \in S
  BY <1>1 DEF Range, Nodes, Ends, Nth
<1>3. lower["top"] \in S
  BY <1>1, <1>2 DEF Linked, Nth
<1>4. ASSUME NEW g \in S \cap Filters PROVE lower[g] \in S
  <2>1. PICK i \in 1..Len(order) : order[i] = g
    BY <1>1, NamesAssumption DEF Range, Ends
  <2>2. lower[g] = Nth(order, i+1)
    BY <1>1, <2>1 DEF Linked, Nth
  <2>. QED
    BY <1>1, <1>2, <2>1, <2>2
<1>5. S \in Followed
  BY <1>2, <1>3, <1>4 DEF Followed
<1>. QED
  BY <1>5, NamesAssumption DEF Below, Ends
-----------------------------------------------------------------------------
(* A filter that is not attached is at none of the places. *)
LEMMA NotThere ==
  ASSUME NEW s \in Seq(Filters), NEW f \in Filters \ Range(s)
  PROVE  \A i \in 0..Len(s)+1 : Nth(s, i) # f
PROOF
<1>1. \A i \in 1..Len(s) : s[i] # f
  BY DEF Range
<1>. QED
  BY <1>1, NamesAssumption DEF Nth, Ends

(* A change of the list keeps it linked: attach_filter at the top, at the  *)
(* bottom, and a removal.                                                  *)
LEMMA AttachTopLinks ==
  ASSUME TypeOK, Linked, NEW f \in Filters, AttachTop(f)
  PROVE  Linked' /\ order' \in Seq(Filters)
PROOF
<1>. DEFINE n == Len(order)
<1>1. /\ order \in Seq(Filters) /\ n \in Nat /\ DOMAIN order = 1..n /\ IsInjective(order)
      /\ upper \in [Nodes -> Nodes \cup {NULL}] /\ lower \in [Nodes -> Nodes \cup {NULL}]
      /\ f \in Nodes /\ "top" \in Nodes /\ f # "top"
  BY NamesAssumption DEF TypeOK, Linked, Nodes, Ends
<1>2. /\ \A i \in 0..n+1 : Nth(order, i) \in Nodes /\ Nth(order, i) # f
      /\ \A i, j \in 0..n+1 : Nth(order, i) = Nth(order, j) => i = j
      /\ Nth(order, 0) = "top"
  BY <1>1, Places, NotThere DEF AttachTop, Nth
<1>3. \A i \in 0..n : lower[Nth(order, i)] = Nth(order, i+1) /\ upper[Nth(order, i+1)] = Nth(order, i)
  BY DEF Linked
<1>4. lower["top"] = Nth(order, 1)
  BY <1>1, <1>2, <1>3
<1>5. /\ upper' = [upper EXCEPT ![Nth(order, 1)] = f, ![f] = "top"]
      /\ lower' = [lower EXCEPT ![f] = Nth(order, 1), !["top"] = f]
      /\ order' = <<f>> \o order
  BY <1>4 DEF AttachTop
<1>6. /\ order' \in Seq(Filters) /\ Len(order') = n + 1 /\ order'[1] = f
      /\ \A i \in 1..n : order'[i+1] = order[i]
      /\ \A i \in 1..n+1 : Nth(order', i+1) = Nth(order, i)
      /\ Nth(order', 1) = f /\ Nth(order', 0) = "top"
  BY <1>1, <1>5, Prepended DEF Nth
<1>. HIDE DEF n
<1>7. IsInjective(order')
  <2>1. DOMAIN order' = 1..n+1
    BY <1>1, <1>6
  <2>2. \A i \in 2..n+1 : i-1 \in 1..n /\ order'[i] = order[i-1] /\ order'[i] # f
    <3>1. ASSUME NEW i \in 2..n+1 PROVE i-1 \in 1..n /\ order'[(i-1)+1] = order[i-1] /\ (i-1)+1 = i
      BY <1>1, <1>6
    <3>2. \A i \in 1..n : order[i] # f
      BY <1>1 DEF AttachTop, Range
    <3>. QED
      BY <3>1, <3>2
  <2>3. \A i \in 1..n+1 : i = 1 \/ i \in 2..n+1
    BY <1>1
  <2>4. SUFFICES ASSUME NEW i \in 1..n+1, NEW j \in 1..n+1, order'[i] = order'[j] PROVE i = j
    BY <2>1 DEF IsInjective
  <2>5. CASE i \in 2..n+1 /\ j \in 2..n+1
    <3>1. order[i-1] = order[j-1] /\ i-1 \in 1..n /\ j-1 \in 1..n
      BY <2>2, <2>4, <2>5
    <3>2. i-1 = j-1
      BY <1>1, <3>1 DEF IsInjective
    <3>. QED
      BY <1>1, <3>2
  <2>6. CASE i = 1 \/ j = 1
    BY <1>6, <2>2, <2>3, <2>4, <2>6
  <2>. QED
    BY <2>3, <2>5, <2>6
<1>8. ASSUME NEW i \in 0..n+1
      PROVE  lower'[Nth(order', i)] = Nth(order', i+1) /\ upper'[Nth(order', i+1)] = Nth(order', i)
  <2>1. CASE i = 0
    BY <1>1, <1>2, <1>5, <1>6, <2>1
  <2>2. CASE i = 1
    <3>1. Nth(order', 1) = f /\ Nth(order', 1+1) = Nth(order, 1) /\ Nth(order, 1) # f /\ Nth(order, 1) \in Nodes
      BY <1>1, <1>2, <1>6
    <3>. QED
      BY <1>1, <1>5, <2>2, <3>1
  <2>3. CASE i \in 2..n+1
    <3>. DEFINE j == i - 1
    <3>1. j \in 1..n /\ j+1 = i /\ j \in 0..n+1 /\ j+1 \in 0..n+1 /\ j \in 1..n+1 /\ j+1 \in 1..n+1 /\ j # 0 /\ j+1 # 1
      BY <1>1, <2>3
    <3>. HIDE DEF j
    <3>2. Nth(order', i) = Nth(order, j) /\ Nth(order', i+1) = Nth(order, i)
      BY <1>6, <3>1
    <3>3. Nth(order, j) # "top" /\ Nth(order, j) # f /\ Nth(order, i) # f /\ Nth(order, i) # Nth(order, 1)
      BY <1>1, <1>2, <3>1
    <3>4. lower'[Nth(order, j)] = lower[Nth(order, j)] /\ upper'[Nth(order, i)] = upper[Nth(order, i)]
      BY <1>1, <1>2, <1>5, <3>1, <3>3
    <3>. QED
      BY <1>1, <1>3, <3>1, <3>2, <3>4
  <2>. QED
    BY <1>1, <2>1, <2>2, <2>3
<1>. QED
  BY <1>6, <1>7, <1>8 DEF Linked

LEMMA AttachBottomLinks ==
  ASSUME TypeOK, Linked, NEW f \in Filters, AttachBottom(f)
  PROVE  Linked' /\ order' \in Seq(Filters)
PROOF
<1>. DEFINE n == Len(order)
<1>1. /\ order \in Seq(Filters) /\ n \in Nat /\ DOMAIN order = 1..n /\ IsInjective(order)
      /\ upper \in [Nodes -> Nodes \cup {NULL}] /\ lower \in [Nodes -> Nodes \cup {NULL}]
      /\ f \in Nodes /\ "bottom" \in Nodes /\ f # "bottom"
  BY NamesAssumption DEF TypeOK, Linked, Nodes, Ends
<1>2. /\ \A i \in 0..n+1 : Nth(order, i) \in Nodes /\ Nth(order, i) # f
      /\ \A i, j \in 0..n+1 : Nth(order, i) = Nth(order, j) => i = j
      /\ Nth(order, n+1) = "bottom"
  BY <1>1, Places, NotThere DEF AttachBottom, Nth
<1>3. \A i \in 0..n : lower[Nth(order, i)] = Nth(order, i+1) /\ upper[Nth(order, i+1)] = Nth(order, i)
  BY DEF Linked
<1>4. upper["bottom"] = Nth(order, n)
  BY <1>1, <1>2, <1>3
<1>5. /\ lower' = [lower EXCEPT ![Nth(order, n)] = f, ![f] = "bottom"]
      /\ upper' = [upper EXCEPT ![f] = Nth(order, n), !["bottom"] = f]
      /\ order' = Append(order, f)
  BY <1>4 DEF AttachBottom
<1>6. /\ order' \in Seq(Filters) /\ Len(order') = n + 1 /\ order'[n+1] = f
      /\ \A i \in 1..n : order'[i] = order[i]
      /\ \A i \in 0..n : Nth(order', i) = Nth(order, i)
      /\ Nth(order', n+1) = f /\ Nth(order', n+2) = "bottom"
  BY <1>1, <1>5, Appended
<1>. HIDE DEF n
<1>7. IsInjective(order')
  <2>1. DOMAIN order' = 1..n+1
    BY <1>1, <1>6
  <2>2. \A i \in 1..n : order'[i] # f
    BY <1>1, <1>6 DEF AttachBottom, Range
  <2>3. \A i \in 1..n+1 : i = n+1 \/ i \in 1..n
    BY <1>1
  <2>. QED
    BY <1>1, <1>6, <2>1, <2>2, <2>3 DEF IsInjective
<1>8. ASSUME NEW i \in 0..n+1
      PROVE  lower'[Nth(order', i)] = Nth(order', i+1) /\ upper'[Nth(order', i+1)] = Nth(order', i)
  <2>1. CASE i = n+1
    <3>1. i+1 = n+2
      BY <1>1, <2>1
    <3>. QED
      BY <1>1, <1>2, <1>5, <1>6, <2>1, <3>1
  <2>2. CASE i = n
    <3>1. Nth(order', n) = Nth(order, n) /\ Nth(order, n) # f /\ Nth(order, n) \in Nodes
      BY <1>1, <1>2, <1>6
    <3>. QED
      BY <1>1, <1>5, <1>6, <2>2, <3>1
  <2>3. CASE i < n
    <3>1. i \in 0..n /\ i+1 \in 0..n /\ i+1 \in 0..n+1 /\ i \in 0..n+1 /\ i # n /\ i+1 # n+1 /\ n \in 0..n+1 /\ n+1 \in 0..n+1
      BY <1>1, <2>3
    <3>2. Nth(order', i) = Nth(order, i) /\ Nth(order', i+1) = Nth(order, i+1)
      BY <1>6, <3>1
    <3>3. Nth(order, i+1) # "bottom" /\ Nth(order, i) # f /\ Nth(order, i+1) # f /\ Nth(order, i) # Nth(order, n)
      BY <1>1, <1>2, <3>1
    <3>4. lower'[Nth(order, i)] = lower[Nth(order, i)] /\ upper'[Nth(order, i+1)] = upper[Nth(order, i+1)]
      BY <1>1, <1>2, <1>5, <3>1, <3>3
    <3>. QED
      BY <1>1, <1>3, <3>1, <3>2, <3>4
  <2>. QED
    BY <1>1, <2>1, <2>2, <2>3
<1>. QED
  BY <1>6, <1>7, <1>8 DEF Linked

LEMMA DetachLinks ==
  ASSUME TypeOK, Linked, NEW f \in Filters, Detach(f)
  PROVE  Linked' /\ order' \in Seq(Filters)
PROOF
<1>. DEFINE n == Len(order)
<1>1. /\ order \in Seq(Filters) /\ n \in Nat /\ DOMAIN order = 1..n /\ IsInjective(order)
      /\ upper \in [Nodes -> Nodes \cup {NULL}] /\ lower \in [Nodes -> Nodes \cup {NULL}]
  BY DEF TypeOK, Linked
<1>2. /\ \A i \in 0..n+1 : Nth(order, i) \in Nodes
      /\ \A i, j \in 0..n+1 : Nth(order, i) = Nth(order, j) => i = j
  BY <1>1, Places
<1>3. \A i \in 0..n : lower[Nth(order, i)] = Nth(order, i+1) /\ upper[Nth(order, i+1)] = Nth(order, i)
  BY DEF Linked
<1>4. PICK k \in 1..n : order[k] = f
  BY <1>1, BelowIsAttached DEF Detach, Range
<1>5. Nth(order, k) = f /\ k-1 \in 0..n /\ k \in 0..n /\ (k-1)+1 = k /\ k-1 \in 0..n+1 /\ k+1 \in 0..n+1
  BY <1>1, <1>4 DEF Nth
<1>6. upper[f] = Nth(order, k-1) /\ lower[f] = Nth(order, k+1)
  <2>1. lower[Nth(order, k)] = Nth(order, k+1) /\ upper[Nth(order, (k-1)+1)] = Nth(order, k-1)
    BY <1>3, <1>5
  <2>. QED
    BY <1>5, <2>1
<1>7. /\ lower' = [lower EXCEPT ![Nth(order, k-1)] = Nth(order, k+1)]
      /\ upper' = [upper EXCEPT ![Nth(order, k+1)] = Nth(order, k-1)]
      /\ order' = RemoveFirst(order, order[k])
  BY <1>4, <1>6 DEF Detach, UpperAfterDetach
<1>8. /\ order' \in Seq(Filters) /\ Len(order') = n - 1
      /\ \A i \in 1..n-1 : order'[i] = IF i < k THEN order[i] ELSE order[i+1]
      /\ \A i \in 0..n : Nth(order', i) = IF i < k THEN Nth(order, i) ELSE Nth(order, i+1)
  BY <1>1, <1>7, Removed
<1>. HIDE DEF n
<1>9. IsInjective(order')
  <2>1. DOMAIN order' = 1..n-1
    BY <1>1, <1>8
  <2>2. SUFFICES ASSUME NEW i \in 1..n-1, NEW j \in 1..n-1, order'[i] = order'[j] PROVE i = j
    BY <2>1 DEF IsInjective
  <2>. DEFINE I == IF i < k THEN i ELSE i+1
              J == IF j < k THEN j ELSE j+1
  <2>3. I \in 1..n /\ J \in 1..n /\ order'[i] = order[I] /\ order'[j] = order[J]
    BY <1>1, <1>8
  <2>4. I = J
    BY <1>1, <2>2, <2>3 DEF IsInjective
  <2>. QED
    BY <1>1, <2>4
<1>10. ASSUME NEW i \in 0..n-1
       PROVE  lower'[Nth(order', i)] = Nth(order', i+1) /\ upper'[Nth(order', i+1)] = Nth(order', i)
  <2>1. CASE i < k-1
    <3>1. /\ i < k /\ i+1 < k /\ i \in 0..n /\ i+1 \in 0..n /\ i \in 0..n+1 /\ i+1 \in 0..n+1
          /\ i # k-1 /\ i+1 # k+1
      BY <1>1, <1>4, <2>1
    <3>2. Nth(order', i) = Nth(order, i) /\ Nth(order', i+1) = Nth(order, i+1)
      BY <1>8, <3>1
    <3>3. Nth(order, i) # Nth(order, k-1) /\ Nth(order, i+1) # Nth(order, k+1)
      BY <1>2, <1>5, <3>1
    <3>. QED
      BY <1>1, <1>2, <1>3, <1>7, <3>1, <3>2, <3>3
  <2>2. CASE i = k-1
    <3>1. i < k /\ ~(i+1 < k) /\ i \in 0..n /\ i+1 \in 0..n /\ i+1 = k
      BY <1>1, <1>4, <2>2
    <3>2. Nth(order', i) = Nth(order, k-1) /\ Nth(order', i+1) = Nth(order, k+1)
      BY <1>8, <2>2, <3>1
    <3>. QED
      BY <1>1, <1>2, <1>5, <1>7, <3>2
  <2>3. CASE i > k-1
    <3>1. /\ ~(i < k) /\ ~(i+1 < k) /\ i \in 0..n /\ i+1 \in 0..n
          /\ i+1 \in 0..n+1 /\ i+2 \in 0..n+1 /\ (i+1)+1 = i+2
          /\ i+1 # k-1 /\ i+2 # k+1
      BY <1>1, <1>4, <2>3
    <3>2. Nth(order', i) = Nth(order, i+1) /\ Nth(order', i+1) = Nth(order, i+2)
      BY <1>8, <3>1
    <3>3. Nth(order, i+1) # Nth(order, k-1) /\ Nth(order, i+2) # Nth(order, k+1)
      BY <1>2, <1>5, <3>1
    <3>4. lower[Nth(order, i+1)] = Nth(order, i+2) /\ upper[Nth(order, i+2)] = Nth(order, i+1)
      BY <1>3, <3>1
    <3>. QED
      BY <1>1, <1>2, <1>7, <3>1, <3>2, <3>3, <3>4
  <2>. QED
    BY <1>1, <1>4, <2>1, <2>2, <2>3
<1>. QED
  BY <1>1, <1>8, <1>9, <1>10 DEF Linked
-----------------------------------------------------------------------------
(* Only the holder of the lock has frames. *)
LEMMA OneHolder ==
  ASSUME IInv, NEW c \in Cpus, guard # c
  PROVE  calls[c] = <<>>
PROOF
<1>. QED
  BY DEF IInv, CallOK

LEMMA NobodyInside ==
  ASSUME IInv, guard = NULL
  PROVE  \A c \in Cpus : calls[c] = <<>>
PROOF
<1>. QED
  BY OneHolder, NamesAssumption

(* A change of the list happens when no frame is in it. *)
LEMMA ChangeInv ==
  ASSUME IInv, NEW f \in Filters, Change(f)
  PROVE  IInv'
PROOF
<1>1. TypeOK /\ Linked /\ guard = NULL
  BY DEF IInv, Change, AttachTop, AttachBottom, Detach, Free
<1>2. Linked' /\ order' \in Seq(Filters)
  BY <1>1, AttachTopLinks, AttachBottomLinks, DetachLinks DEF Change
<1>3. UNCHANGED <<guard, calls, verdict, work, sent>>
  BY DEF Change, AttachTop, AttachBottom, Detach
<1>4. upper' \in [Nodes -> Nodes \cup {NULL}] /\ lower' \in [Nodes -> Nodes \cup {NULL}]
  <2>1. /\ upper \in [Nodes -> Nodes \cup {NULL}] /\ lower \in [Nodes -> Nodes \cup {NULL}]
        /\ f \in Nodes /\ "top" \in Nodes /\ "bottom" \in Nodes
    BY <1>1 DEF TypeOK, Nodes, Ends
  <2>2. CASE AttachTop(f)
    <3>1. lower["top"] \in Nodes \cup {NULL}
      BY <2>1
    <3>. QED
      BY <2>1, <2>2, <3>1 DEF AttachTop
  <2>3. CASE AttachBottom(f)
    <3>1. upper["bottom"] \in Nodes \cup {NULL}
      BY <2>1
    <3>. QED
      BY <2>1, <2>3, <3>1 DEF AttachBottom
  <2>4. CASE Detach(f)
    <3>1. upper[f] \in Nodes \cup {NULL} /\ lower[f] \in Nodes \cup {NULL}
      BY <2>1
    <3>. QED
      BY <2>1, <2>4, <3>1 DEF Detach, UpperAfterDetach
  <2>. QED
    BY <2>2, <2>3, <2>4 DEF Change
<1>5. TypeOK'
  BY <1>1, <1>2, <1>3, <1>4 DEF TypeOK
<1>6. \A c \in Cpus : CallOK(c)'
  BY <1>1, <1>3, NobodyInside DEF CallOK
<1>7. CopiesOK'
  BY <1>3 DEF IInv, CopiesOK, CopyOK, AllTheWay, Alone
<1>. QED
  BY <1>2, <1>5, <1>6, <1>7 DEF IInv
-----------------------------------------------------------------------------
(* What a step that leaves the list alone owes to the frames of c. *)
LEMMA Kept ==
  ASSUME UNCHANGED list, NEW c \in Cpus, NEW s, calls'[c] = s,
         s # <<>> =>
           /\ guard' = c
           /\ Len(s) <= 2
           /\ verdict'[s[1].pkt] = "none"
           /\ \A i \in 1..Len(s) : /\ OnRoute(s[i])
                                    /\ s[i].pkt = s[1].pkt
                                    /\ s[i].kind = IF i = 1 THEN "packet" ELSE "rst"
  PROVE  CallOK(c)'
PROOF
<1>1. UNCHANGED <<upper, lower, order>>
  BY DEF list
<1>2. ASSUME NEW fr, OnRoute(fr) PROVE OnRoute(fr)'
  BY <1>1, <1>2 DEF OnRoute, Route, Stop, Onward
<1>. SUFFICES ASSUME s # <<>> PROVE CallOK(c)'
  BY DEF CallOK
<1>3. \A i \in 1..Len(s) : OnRoute(s[i])'
  BY <1>2
<1>. QED
  BY <1>3 DEF CallOK

LEMMA StillOK ==
  ASSUME UNCHANGED <<list, guard, calls, verdict>>, NEW c \in Cpus, CallOK(c)
  PROVE  CallOK(c)'
PROOF
<1>. DEFINE s == calls[c]
<1>1. calls'[c] = s /\ UNCHANGED list
  OBVIOUS
<1>2. s # <<>> =>
        /\ guard' = c /\ Len(s) <= 2 /\ verdict'[s[1].pkt] = "none"
        /\ \A i \in 1..Len(s) : OnRoute(s[i]) /\ s[i].pkt = s[1].pkt
                                 /\ s[i].kind = IF i = 1 THEN "packet" ELSE "rst"
  BY DEF CallOK
<1>. HIDE DEF s
<1>. QED
  BY <1>1, <1>2, Kept

LEMMA ListKept ==
  ASSUME TypeOK, Linked, UNCHANGED list
  PROVE  Linked'
PROOF
<1>. QED
  BY DEF Linked, list

(* A packet enters at the first filter of its direction. *)
LEMMA Entered ==
  ASSUME TypeOK, Linked, NEW d \in Dirs, NEW p \in Packets, NEW fr,
         fr = [pkt |-> p, kind |-> "packet", dir |-> d, at |-> Entry(d),
               unchanged |-> TRUE, changed |-> FALSE, path |-> <<>>, below |-> Along(order, d)]
  PROVE  fr \in Frame /\ OnRoute(fr)
PROOF
<1>. DEFINE n == Len(order)
<1>1. order \in Seq(Filters) /\ n \in Nat /\ DOMAIN order = 1..n /\ IsInjective(order)
  BY DEF TypeOK, Linked
<1>2. \A i \in 0..n+1 : Nth(order, i) \in Nodes
  BY <1>1, Places
<1>3. \A i \in 0..n : lower[Nth(order, i)] = Nth(order, i+1) /\ upper[Nth(order, i+1)] = Nth(order, i)
  BY DEF Linked
<1>4. \A i \in 1..n : order[i] \in Range(order)
  BY <1>1 DEF Range
<1>. HIDE DEF n
<1>5. CASE d = "in"
  <2>0. Len(order) = n
    BY DEF n
  <2>1. fr.below = order /\ fr.dir = "in" /\ fr.path = <<>> /\ fr.at = lower["top"]
    BY <1>5 DEF Along, Entry
  <2>2. \A j \in 0..n+1 : Stop(fr, j) = Nth(order, j)
    BY <1>1, <2>0, <2>1 DEF Stop, End, Opposite, Nth
  <2>3. lower["top"] = Nth(order, 1)
    <3>1. lower[Nth(order, 0)] = Nth(order, 0+1) /\ Nth(order, 0) = "top"
      BY <1>1, <1>3 DEF Nth
    <3>. QED
      BY <3>1
  <2>4. Route(fr)
    <3>1. ASSUME NEW j \in 0..n
          PROVE  Onward(Stop(fr, j), "in") = Stop(fr, j+1) /\ Onward(Stop(fr, j+1), "out") = Stop(fr, j)
      <4>1. j \in 0..n+1 /\ j+1 \in 0..n+1
        BY <1>1
      <4>2. Stop(fr, j) = Nth(order, j) /\ Stop(fr, j+1) = Nth(order, j+1)
        BY <2>2, <4>1
      <4>. QED
        BY <1>3, <4>2 DEF Onward
    <3>2. \A j \in 1..n : j \in 0..n
      BY <1>1
    <3>. QED
      BY <1>4, <2>0, <2>1, <3>1, <3>2 DEF Route, Opposite
  <2>5. fr.at = Stop(fr, 1)
    <3>1. 1 \in 0..n+1
      BY <1>1
    <3>. QED
      BY <2>1, <2>2, <2>3, <3>1
  <2>6. OnRoute(fr)
    <3>1. Len(fr.path) = 0 /\ Len(fr.path) + 1 = 1 /\ Len(fr.path) <= Len(fr.below)
      BY <1>1, <2>0, <2>1
    <3>2. \A j \in 1..Len(fr.path) : fr.path[j] = fr.below[j]
      BY <3>1
    <3>3. fr.unchanged # fr.changed
      OBVIOUS
    <3>. QED
      BY <2>4, <2>5, <3>1, <3>2, <3>3 DEF OnRoute
  <2>. QED
    BY <1>1, <1>2, <1>5, <2>3, <2>6 DEF Frame, Kinds, Along, Entry
<1>6. CASE d = "out"
  <2>1. /\ fr.below = Reverse(order) /\ fr.dir = "out" /\ fr.path = <<>> /\ fr.at = upper["bottom"]
        /\ Len(fr.below) = n /\ fr.below \in Seq(Filters)
        /\ \A i \in 1..n : fr.below[i] = order[n+1-i]
    <3>1. fr.below = Reverse(order) /\ fr.dir = "out" /\ fr.path = <<>> /\ fr.at = upper["bottom"]
      BY <1>6 DEF Along, Entry
    <3>. QED
      BY <1>1, <3>1, Reversed DEF n
  <2>2. \A j \in 0..n+1 : n+1-j \in 0..n+1 /\ Stop(fr, j) = Nth(order, n+1-j)
    BY <1>1, <2>1 DEF Stop, End, Opposite, Nth, n
  <2>3. upper["bottom"] = Nth(order, n)
    <3>1. n \in 0..n /\ Nth(order, n+1) = "bottom"
      BY <1>1 DEF Nth, n
    <3>. QED
      BY <1>3, <3>1
  <2>4. Route(fr)
    <3>1. ASSUME NEW j \in 0..n
          PROVE  Onward(Stop(fr, j), "out") = Stop(fr, j+1) /\ Onward(Stop(fr, j+1), "in") = Stop(fr, j)
      <4>1. n-j \in 0..n /\ n+1-j = (n-j)+1 /\ n+1-(j+1) = n-j /\ j \in 0..n+1 /\ j+1 \in 0..n+1
        BY <1>1
      <4>2. Stop(fr, j) = Nth(order, (n-j)+1) /\ Stop(fr, j+1) = Nth(order, n-j)
        BY <2>2, <4>1
      <4>. QED
        BY <1>3, <4>1, <4>2 DEF Onward
    <3>2. \A j \in 1..n : fr.below[j] \in Range(order)
      BY <1>1, <1>4, <2>1
    <3>3. \A j \in 1..n : j \in 0..n
      BY <1>1
    <3>. QED
      BY <2>1, <3>1, <3>2, <3>3 DEF Route, Opposite
  <2>5. fr.at = Stop(fr, 1)
    <3>1. 1 \in 0..n+1 /\ n+1-1 = n
      BY <1>1
    <3>2. Stop(fr, 1) = Nth(order, n+1-1)
      BY <2>2, <3>1
    <3>. QED
      BY <2>1, <2>3, <3>1, <3>2
  <2>6. OnRoute(fr)
    <3>1. Len(fr.path) = 0 /\ Len(fr.path) + 1 = 1 /\ Len(fr.path) <= Len(fr.below)
      BY <1>1, <2>1
    <3>2. \A j \in 1..Len(fr.path) : fr.path[j] = fr.below[j]
      BY <3>1
    <3>3. fr.unchanged # fr.changed
      OBVIOUS
    <3>. QED
      BY <2>4, <2>5, <3>1, <3>2, <3>3 DEF OnRoute
  <2>7. Nth(order, n) \in Nodes /\ fr.below = Along(order, d)
    BY <1>1, <1>2
  <2>. QED
    BY <1>6, <2>1, <2>3, <2>6, <2>7 DEF Frame, Kinds, Entry
<1>. QED
  BY <1>5, <1>6 DEF Dirs

(* A frame at a filter is on its way. *)
LEMMA Midway ==
  ASSUME NEW fr \in Frame, OnRoute(fr), fr.at \in Filters
  PROVE  /\ Len(fr.path) + 1 \in 1..Len(fr.below)
         /\ fr.at = fr.below[Len(fr.path) + 1]
PROOF
<1>1. Len(fr.path) \in Nat /\ Len(fr.below) \in Nat
  BY DEF Frame
<1>2. fr.at \notin Ends
  BY NamesAssumption
<1>. QED
  BY <1>1, <1>2 DEF OnRoute, Stop, End, Ends

(* A frame at an end has come all the way. *)
LEMMA Through ==
  ASSUME NEW fr \in Frame, OnRoute(fr), fr.at \in Ends
  PROVE  AllTheWay(fr)
PROOF
<1>1. fr.path \in Seq(Filters) /\ fr.below \in Seq(Filters)
      /\ Len(fr.path) \in Nat /\ Len(fr.below) \in Nat
  BY DEF Frame
<1>2. \A j \in 1..Len(fr.below) : fr.below[j] \notin Ends
  BY <1>1, NamesAssumption
<1>3. Len(fr.path) = Len(fr.below)
  BY <1>1, <1>2 DEF OnRoute, Stop
<1>4. fr.path = fr.below
  BY <1>1, <1>3, SeqEqual DEF OnRoute
<1>. QED
  BY <1>4 DEF AllTheWay, OnRoute

(* A filter that passes a frame on hands it to the next one of its route. *)
LEMMA Passed ==
  ASSUME NEW fr \in Frame, OnRoute(fr), fr.at \in Filters, NEW change \in BOOLEAN, NEW new,
         new = [fr EXCEPT !.at = Onward(fr.at, fr.dir),
                          !.unchanged = Handed(fr, change),
                          !.changed = fr.changed \/ change,
                          !.path = Append(fr.path, fr.at)]
  PROVE  new \in Frame /\ OnRoute(new)
PROOF
<1>. DEFINE k == Len(fr.path)
<1>1. /\ fr.path \in Seq(Filters) /\ fr.below \in Seq(Filters) /\ fr.dir \in Dirs
      /\ k \in Nat /\ Len(fr.below) \in Nat /\ fr.unchanged \in BOOLEAN /\ fr.changed \in BOOLEAN
  BY DEF Frame
<1>2. k+1 \in 1..Len(fr.below) /\ fr.at = fr.below[k+1] /\ fr.at = Stop(fr, k+1)
  BY Midway DEF OnRoute
<1>3. /\ new.path = Append(fr.path, fr.at) /\ new.below = fr.below /\ new.dir = fr.dir
      /\ new.kind = fr.kind /\ new.at = Onward(fr.at, fr.dir)
      /\ new.pkt = fr.pkt /\ new.unchanged = Handed(fr, change) /\ new.changed = (fr.changed \/ change)
  BY DEF Frame
<1>4. Onward(fr.at, fr.dir) = Stop(fr, k+2)
  <2>1. Onward(Stop(fr, k+1), fr.dir) = Stop(fr, (k+1)+1)
    BY <1>2 DEF OnRoute, Route
  <2>. QED
    BY <1>1, <1>2, <2>1
<1>5. Len(new.path) = k+1 /\ new.path \in Seq(Filters)
      /\ \A j \in 1..k+1 : new.path[j] = fr.below[j]
  <2>1. /\ Len(new.path) = k+1 /\ new.path \in Seq(Filters)
        /\ new.path[k+1] = fr.at /\ \A j \in 1..k : new.path[j] = fr.path[j]
    BY <1>1, <1>3
  <2>2. \A j \in 1..k+1 : j = k+1 \/ j \in 1..k
    BY <1>1
  <2>. QED
    BY <1>2, <2>1, <2>2 DEF OnRoute
<1>6. \A j : Stop(new, j) = Stop(fr, j)
  BY <1>3 DEF Stop
<1>7. new.unchanged # new.changed /\ new.unchanged \in BOOLEAN /\ new.changed \in BOOLEAN
  <2>1. fr.unchanged # fr.changed
    BY DEF OnRoute
  <2>. QED
    BY <1>1, <1>3, <2>1, Zenon DEF Handed
<1>8. Route(new)
  BY <1>3, <1>6 DEF OnRoute, Route
<1>9. OnRoute(new)
  BY <1>1, <1>2, <1>3, <1>4, <1>5, <1>6, <1>7, <1>8 DEF OnRoute
<1>10. Stop(fr, k+2) \in Nodes
  BY <1>1, <1>2 DEF Stop, End, Nodes, Ends
<1>. QED
  BY <1>3, <1>4, <1>5, <1>7, <1>9, <1>10 DEF Frame

(* An RST goes back through the filters that had passed its segment. *)
LEMMA Answered ==
  ASSUME NEW fr \in Frame, OnRoute(fr), fr.at \in Filters, fr.kind = "packet", NEW rst,
         rst = [pkt |-> fr.pkt, kind |-> "rst", dir |-> Opposite(fr.dir),
                at |-> Parent(fr), unchanged |-> FALSE, changed |-> TRUE,
                path |-> <<>>, below |-> Reverse(fr.path)]
  PROVE  rst \in Frame /\ OnRoute(rst)
PROOF
<1>. DEFINE k == Len(fr.path)
<1>1. /\ fr.path \in Seq(Filters) /\ fr.below \in Seq(Filters) /\ fr.dir \in Dirs
      /\ k \in Nat /\ Len(fr.below) \in Nat
  BY DEF Frame
<1>2. k+1 \in 1..Len(fr.below) /\ fr.at = Stop(fr, k+1)
  BY Midway DEF OnRoute
<1>. HIDE DEF k
<1>3. /\ rst.below \in Seq(Filters) /\ Len(rst.below) = k
      /\ \A j \in 1..k : rst.below[j] = fr.path[k+1-j]
  BY <1>1, Reversed DEF k
<1>4. Opposite(Opposite(fr.dir)) = fr.dir /\ Opposite(fr.dir) \in Dirs
  BY <1>1 DEF Opposite, Dirs
<1>5. ASSUME NEW j \in 1..k
      PROVE  fr.path[j] = Stop(fr, j) /\ fr.path[j] = fr.below[j] /\ fr.below[j] \in Range(order)
  <2>1. j \in 1..Len(fr.below) /\ j # 0 /\ j # Len(fr.below) + 1
    BY <1>1, <1>2
  <2>2. fr.path[j] = fr.below[j]
    BY DEF OnRoute, k
  <2>. QED
    BY <2>1, <2>2 DEF OnRoute, Route, Stop
<1>6. \A j \in 1..k+1 : k+1-j \in 0..k /\ Stop(rst, j) = Stop(fr, k+1-j)
  <2>1. ASSUME NEW j \in 1..k PROVE Stop(rst, j) = Stop(fr, k+1-j) /\ k+1-j \in 0..k
    <3>1. k+1-j \in 1..k /\ j # 0 /\ j # Len(rst.below) + 1
      BY <1>1, <1>3
    <3>2. Stop(rst, j) = rst.below[j]
      BY <1>3, <3>1 DEF Stop
    <3>3. rst.below[j] = fr.path[k+1-j] /\ fr.path[k+1-j] = Stop(fr, k+1-j)
      BY <1>3, <1>5, <3>1
    <3>4. k+1-j \in 0..k
      BY <1>1
    <3>. QED
      BY <3>2, <3>3, <3>4
  <2>2. Stop(rst, k+1) = Stop(fr, 0)
    BY <1>1, <1>3 DEF Stop
  <2>3. ASSUME NEW j \in 1..k+1 PROVE k+1-j \in 0..k /\ Stop(rst, j) = Stop(fr, k+1-j)
    <3>1. CASE j \in 1..k
      BY <2>1, <3>1
    <3>2. CASE j = k+1
      <4>1. k+1-j = 0 /\ 0 \in 0..k
        BY <1>1, <3>2
      <4>. QED
        BY <2>2, <3>2, <4>1
    <3>. QED
      BY <1>1, <3>1, <3>2
  <2>. QED
    BY <2>3
<1>7. \A i \in 0..k : Onward(Stop(fr, i+1), Opposite(fr.dir)) = Stop(fr, i)
  BY <1>1, <1>2 DEF OnRoute, Route, k
<1>8. Parent(fr) = Stop(rst, 1)
  <2>1. Parent(fr) = Onward(Stop(fr, k+1), Opposite(fr.dir))
    BY <1>1, <1>2 DEF Parent, Onward, Opposite, Dirs
  <2>2. Parent(fr) = Stop(fr, k)
    BY <1>1, <1>7, <2>1
  <2>3. 1 \in 1..k+1 /\ k+1-1 = k
    BY <1>1
  <2>4. Stop(rst, 1) = Stop(fr, k+1-1)
    BY <1>6, <2>3
  <2>. QED
    BY <2>2, <2>3, <2>4
<1>9. ASSUME NEW j \in 1..k
      PROVE  rst.below[j] \in Range(order) /\ Onward(Stop(rst, j), rst.dir) = Stop(rst, j+1)
  <2>1. /\ k-j \in 0..k /\ k+1-j = (k-j)+1 /\ k+1-(j+1) = k-j /\ k+1-j \in 1..k
        /\ j \in 1..k+1 /\ j+1 \in 1..k+1
    BY <1>1
  <2>2. Stop(rst, j) = Stop(fr, (k-j)+1) /\ Stop(rst, j+1) = Stop(fr, k-j)
    BY <1>6, <2>1
  <2>3. Onward(Stop(rst, j), Opposite(fr.dir)) = Stop(rst, j+1)
    BY <1>7, <2>1, <2>2
  <2>4. rst.below[j] = fr.path[k+1-j] /\ fr.path[k+1-j] \in Range(order)
    BY <1>3, <1>5, <2>1
  <2>. QED
    BY <2>3, <2>4
<1>10. OnRoute(rst)
  <2>1. Route(rst)
    BY <1>3, <1>9 DEF Route
  <2>2. Len(rst.path) = 0 /\ Len(rst.path) + 1 = 1 /\ Len(rst.path) <= Len(rst.below)
    BY <1>1, <1>3
  <2>3. \A j \in 1..Len(rst.path) : rst.path[j] = rst.below[j]
    BY <2>2
  <2>4. rst.unchanged # rst.changed /\ rst.at = Parent(fr)
    OBVIOUS
  <2>. QED
    BY <1>8, <2>1, <2>2, <2>3, <2>4 DEF OnRoute
<1>11. Stop(rst, 1) \in Nodes
  BY <1>1, <1>3 DEF Stop, End, Nodes, Ends
<1>. QED
  BY <1>3, <1>4, <1>8, <1>10, <1>11 DEF Frame, Kinds
-----------------------------------------------------------------------------
(* What is known of the innermost frame of a processor that carries one. *)
LEMMA Carrying ==
  ASSUME IInv, NEW c \in Cpus, calls[c] # <<>>
  PROVE  /\ guard = c /\ \A d \in Cpus \ {c} : calls[d] = <<>>
         /\ calls[c] \in Seq(Frame) /\ Len(calls[c]) \in 1..2
         /\ Top(c) = calls[c][Len(calls[c])] /\ Head(calls[c]) = calls[c][1]
         /\ calls[c][1] \in Frame /\ Top(c) \in Frame /\ OnRoute(Top(c))
         /\ Top(c).pkt = calls[c][1].pkt
         /\ Top(c).kind = IF Len(calls[c]) = 1 THEN "packet" ELSE "rst"
         /\ verdict[calls[c][1].pkt] = "none" /\ calls[c][1].pkt \in Packets
PROOF
<1>1. calls[c] \in Seq(Frame)
  BY DEF IInv, TypeOK
<1>2. CallOK(c)
  BY DEF IInv
<1>3. Len(calls[c]) \in 1..2 /\ guard = c /\ verdict[calls[c][1].pkt] = "none"
  <2>1. Len(calls[c]) \in Nat \ {0}
    BY <1>1, EmptySeq
  <2>2. Len(calls[c]) <= 2 /\ guard = c /\ verdict[calls[c][1].pkt] = "none"
    BY <1>2 DEF CallOK
  <2>3. ASSUME NEW n \in Nat \ {0}, n <= 2 PROVE n \in 1..2
    BY <2>3
  <2>. QED
    BY <2>1, <2>2, <2>3
<1>4. Top(c) = calls[c][Len(calls[c])] /\ Head(calls[c]) = calls[c][1]
  BY <1>1, <1>3 DEF Top, Last
<1>5. /\ OnRoute(Top(c)) /\ Top(c).pkt = calls[c][1].pkt
      /\ Top(c).kind = IF Len(calls[c]) = 1 THEN "packet" ELSE "rst"
  BY <1>2, <1>3, <1>4 DEF CallOK
<1>6. calls[c][1] \in Frame /\ Top(c) \in Frame
  BY <1>1, <1>3, <1>4
<1>7. calls[c][1].pkt \in Packets
  BY <1>6 DEF Frame
<1>8. \A d \in Cpus \ {c} : calls[d] = <<>>
  BY <1>3, OneHolder
<1>. QED
  BY <1>1, <1>3, <1>4, <1>5, <1>6, <1>7, <1>8

LEMMA EnterInv ==
  ASSUME IInv, NEW c \in Cpus, NEW p \in Packets, NEW d \in Dirs, Enter(c, p, d)
  PROVE  IInv'
PROOF
<1>. DEFINE fr == [pkt |-> p, kind |-> "packet", dir |-> d, at |-> Entry(d),
                   unchanged |-> TRUE, changed |-> FALSE, path |-> <<>>, below |-> Along(order, d)]
<1>1. TypeOK /\ Linked
  BY DEF IInv
<1>2. /\ calls' = [calls EXCEPT ![c] = <<fr>>] /\ guard' = c /\ guard = NULL
      /\ verdict[p] = "none" /\ UNCHANGED <<list, verdict, work, sent>>
  BY DEF Enter
<1>3. fr \in Frame /\ OnRoute(fr) /\ fr.pkt = p /\ fr.kind = "packet"
  BY <1>1, Entered
<1>. HIDE DEF fr
<1>4. TypeOK'
  BY <1>1, <1>2, <1>3 DEF TypeOK, list
<1>5. Linked'
  BY <1>1, <1>2, ListKept
<1>6. CallOK(c)'
  <2>. DEFINE s == <<fr>>
  <2>1. calls'[c] = s /\ Len(s) = 1 /\ s[1] = fr
    BY <1>1, <1>2 DEF TypeOK
  <2>. HIDE DEF s
  <2>2. verdict'[s[1].pkt] = "none" /\ guard' = c /\ UNCHANGED list /\ Len(s) <= 2
    BY <1>2, <1>3, <2>1
  <2>3. \A i \in 1..Len(s) : OnRoute(s[i]) /\ s[i].pkt = s[1].pkt
                              /\ s[i].kind = IF i = 1 THEN "packet" ELSE "rst"
    BY <1>3, <2>1
  <2>. QED
    BY <2>1, <2>2, <2>3, Kept
<1>7. ASSUME NEW e \in Cpus, e # c PROVE CallOK(e)'
  <2>1. calls'[e] = <<>>
    BY <1>1, <1>2, <1>7, NobodyInside DEF TypeOK
  <2>. QED
    BY <2>1 DEF CallOK
<1>8. CopiesOK'
  BY <1>2 DEF IInv, CopiesOK, CopyOK, AllTheWay, Alone
<1>. QED
  BY <1>4, <1>5, <1>6, <1>7, <1>8 DEF IInv

LEMMA PassInv ==
  ASSUME IInv, NEW c \in Cpus, NEW change \in BOOLEAN, Pass(c, change)
  PROVE  IInv'
PROOF
<1>. DEFINE n   == Len(calls[c])
            new == [Top(c) EXCEPT !.at = Onward(Top(c).at, Top(c).dir),
                                  !.unchanged = Handed(Top(c), change),
                                  !.changed = Top(c).changed \/ change,
                                  !.path = Append(Top(c).path, Top(c).at)]
            s   == [calls[c] EXCEPT ![n] = new]
<1>1. TypeOK /\ Linked /\ CallOK(c)
  BY DEF IInv
<1>2. /\ calls[c] # <<>> /\ Top(c).at \in Filters
      /\ calls' = [calls EXCEPT ![c][n] = new]
      /\ UNCHANGED <<list, guard, verdict, work, sent>>
  BY DEF Pass, AtFilter
<1>3. /\ guard = c /\ \A d \in Cpus \ {c} : calls[d] = <<>>
      /\ calls[c] \in Seq(Frame) /\ n \in 1..2 /\ Top(c) = calls[c][n]
      /\ Top(c) \in Frame /\ OnRoute(Top(c)) /\ Top(c).pkt = calls[c][1].pkt
      /\ Top(c).kind = IF n = 1 THEN "packet" ELSE "rst"
      /\ verdict[calls[c][1].pkt] = "none"
  BY <1>2, Carrying
<1>4. new \in Frame /\ OnRoute(new)
  BY <1>2, <1>3, Passed
<1>5. new.pkt = Top(c).pkt /\ new.kind = Top(c).kind
  BY <1>3 DEF Frame
<1>. HIDE DEF new
<1>6. /\ s \in Seq(Frame) /\ Len(s) = n /\ s[n] = new
      /\ \A i \in 1..n : i # n => s[i] = calls[c][i]
  BY <1>3, <1>4
<1>7. calls' = [calls EXCEPT ![c] = s]
  BY <1>2
<1>. HIDE DEF s
<1>8. calls'[c] = s /\ \A d \in Cpus \ {c} : calls'[d] = <<>>
  BY <1>1, <1>3, <1>7 DEF TypeOK
<1>9. TypeOK'
  BY <1>1, <1>2, <1>6, <1>7 DEF TypeOK, list
<1>10. \A i \in 1..n : OnRoute(s[i]) /\ s[i].pkt = calls[c][1].pkt
                        /\ s[i].kind = IF i = 1 THEN "packet" ELSE "rst"
  BY <1>1, <1>2, <1>3, <1>4, <1>5, <1>6 DEF CallOK
<1>. HIDE DEF n
<1>11. CallOK(c)'
  <2>1. s[1].pkt = calls[c][1].pkt
    BY <1>3, <1>10
  <2>2. verdict'[s[1].pkt] = "none" /\ guard' = c /\ UNCHANGED list /\ Len(s) <= 2
    BY <1>2, <1>3, <1>6, <2>1
  <2>. QED
    BY <1>6, <1>8, <1>10, <2>1, <2>2, Kept
<1>12. \A d \in Cpus : CallOK(d)'
  BY <1>8, <1>11 DEF CallOK
<1>13. Linked'
  BY <1>1, <1>2, ListKept
<1>14. CopiesOK'
  BY <1>2 DEF IInv, CopiesOK, CopyOK, AllTheWay, Alone
<1>. QED
  BY <1>9, <1>12, <1>13, <1>14 DEF IInv

LEMMA DenyWithRstInv ==
  ASSUME IInv, NEW c \in Cpus, DenyWithRst(c)
  PROVE  IInv'
PROOF
<1>. DEFINE fr  == Top(c)
            rst == [pkt |-> fr.pkt, kind |-> "rst", dir |-> Opposite(fr.dir),
                    at |-> Parent(fr), unchanged |-> FALSE, changed |-> TRUE,
                    path |-> <<>>, below |-> Reverse(fr.path)]
            s   == Append(calls[c], rst)
<1>1. TypeOK /\ Linked /\ CallOK(c)
  BY DEF IInv
<1>2. /\ calls[c] # <<>> /\ fr.at \in Filters /\ fr.kind = "packet"
      /\ calls' = [calls EXCEPT ![c] = s]
      /\ UNCHANGED <<list, guard, verdict, work, sent>>
  BY DEF DenyWithRst, AtFilter
<1>3. /\ guard = c /\ \A d \in Cpus \ {c} : calls[d] = <<>>
      /\ calls[c] \in Seq(Frame) /\ Len(calls[c]) = 1
      /\ fr \in Frame /\ OnRoute(fr) /\ fr.pkt = calls[c][1].pkt
      /\ verdict[calls[c][1].pkt] = "none"
  BY <1>2, Carrying
<1>4. rst \in Frame /\ OnRoute(rst) /\ rst.pkt = fr.pkt /\ rst.kind = "rst"
  BY <1>2, <1>3, Answered
<1>. HIDE DEF rst
<1>5. s \in Seq(Frame) /\ Len(s) = 2 /\ s[1] = calls[c][1] /\ s[2] = rst
  <2>1. /\ s \in Seq(Frame) /\ Len(s) = Len(calls[c]) + 1 /\ s[Len(calls[c]) + 1] = rst
        /\ \A i \in 1..Len(calls[c]) : s[i] = calls[c][i]
    BY <1>3, <1>4, AppendProperties
  <2>. HIDE DEF s
  <2>. QED
    BY <1>3, <2>1
<1>. HIDE DEF s
<1>6. calls'[c] = s /\ \A d \in Cpus \ {c} : calls'[d] = <<>>
  BY <1>1, <1>2, <1>3 DEF TypeOK
<1>7. TypeOK'
  BY <1>1, <1>2, <1>5 DEF TypeOK, list
<1>8. \A i \in 1..Len(s) : OnRoute(s[i]) /\ s[i].pkt = s[1].pkt
                       /\ s[i].kind = IF i = 1 THEN "packet" ELSE "rst"
  BY <1>1, <1>2, <1>3, <1>4, <1>5 DEF CallOK
<1>9. CallOK(c)'
  <2>1. verdict'[s[1].pkt] = "none" /\ guard' = c /\ UNCHANGED list /\ Len(s) <= 2
    BY <1>2, <1>3, <1>5
  <2>2. calls'[c] = s
    BY <1>6
  <2>. QED
    BY <1>8, <2>1, <2>2, Kept
<1>10. \A d \in Cpus : CallOK(d)'
  BY <1>6, <1>9 DEF CallOK
<1>11. Linked'
  BY <1>1, <1>2, ListKept
<1>12. CopiesOK'
  BY <1>2 DEF IInv, CopiesOK, CopyOK, AllTheWay, Alone
<1>. QED
  BY <1>7, <1>10, <1>11, <1>12 DEF IInv
-----------------------------------------------------------------------------
(* A return takes the frames of its processor away and decides the packet, *)
(* of which there was no copy.                                             *)
LEMMA Returned ==
  ASSUME IInv, NEW c \in Cpus, calls[c] # <<>>, NEW passed \in BOOLEAN,
         Return(c, passed), UNCHANGED list
  PROVE  /\ Linked' /\ \A d \in Cpus : CallOK(d)'
         /\ upper' \in [Nodes -> Nodes \cup {NULL}] /\ lower' \in [Nodes -> Nodes \cup {NULL}]
         /\ order' \in Seq(Filters) /\ guard' \in Cpus \cup {NULL}
         /\ calls' \in [Cpus -> Seq(Frame)] /\ verdict' \in [Packets -> {"none", "pass", "stop"}]
         /\ \A p \in Packets : verdict[p] = "stop" => verdict'[p] = "stop"
         /\ \A fr : CopyOK(fr) => fr.pkt # Top(c).pkt
         /\ ~passed => verdict'[Top(c).pkt] = "stop"
PROOF
<1>. DEFINE q == calls[c][1].pkt
<1>1. TypeOK /\ Linked
  BY DEF IInv
<1>2. /\ guard = c /\ \A d \in Cpus \ {c} : calls[d] = <<>>
      /\ Head(calls[c]) = calls[c][1] /\ Top(c).pkt = q /\ verdict[q] = "none" /\ q \in Packets
  BY Carrying
<1>. HIDE DEF q
<1>3. PICK v \in {"pass", "stop"} : /\ verdict' = [verdict EXCEPT ![q] = v]
                                    /\ ~passed => v = "stop"
  BY <1>2 DEF Return, q
<1>4. calls' = [calls EXCEPT ![c] = <<>>] /\ guard' = NULL
  BY DEF Return, Unlocked
<1>5. calls' \in [Cpus -> Seq(Frame)] /\ \A d \in Cpus : calls'[d] = <<>>
  BY <1>1, <1>2, <1>4 DEF TypeOK
<1>6. /\ verdict' \in [Packets -> {"none", "pass", "stop"}]
      /\ \A p \in Packets : verdict[p] = "stop" => verdict'[p] = "stop"
      /\ ~passed => verdict'[q] = "stop"
  BY <1>1, <1>2, <1>3 DEF TypeOK
<1>7. \A fr : CopyOK(fr) => fr.pkt # q
  BY <1>2 DEF CopyOK
<1>8. Linked'
  BY <1>1, ListKept
<1>. QED
  BY <1>1, <1>2, <1>4, <1>5, <1>6, <1>7, <1>8 DEF TypeOK, CallOK, list

(* A return without a copy. *)
LEMMA PlainReturnInv ==
  ASSUME IInv, NEW c \in Cpus, calls[c] # <<>>, NEW passed \in BOOLEAN,
         Return(c, passed), UNCHANGED <<list, work, sent>>
  PROVE  IInv'
PROOF
<1>1. TypeOK /\ CopiesOK
  BY DEF IInv
<1>2. TypeOK'
  BY <1>1, Returned DEF TypeOK
<1>3. \A fr \in Frame : CopyOK(fr) => CopyOK(fr)'
  BY Returned DEF CopyOK, AllTheWay, Frame
<1>4. CopiesOK'
  <2>1. \A i \in 1..Len(sent) : sent[i] \in Frame
    BY <1>1 DEF TypeOK
  <2>2. work \subseteq Frame
    BY <1>1 DEF TypeOK
  <2>3. Alone'
    BY <1>1 DEF CopiesOK, Alone
  <2>4. \A w \in work : CopyOK(w)'
    BY <1>1, <1>3, <2>2 DEF CopiesOK
  <2>5. ASSUME NEW i \in 1..Len(sent') PROVE CopyOK(sent[i])'
    <3>1. verdict[sent[i].pkt] = "stop" /\ sent[i].pkt \in Packets /\ AllTheWay(sent[i])
      BY <1>1, <2>1 DEF CopiesOK, CopyOK, Frame
    <3>2. verdict'[sent[i].pkt] = "stop"
      BY <3>1, Returned
    <3>. QED
      BY <3>1, <3>2 DEF CopyOK, AllTheWay
  <2>. QED
    BY <2>3, <2>4, <2>5 DEF CopiesOK
<1>. QED
  BY <1>2, <1>4, Returned DEF IInv

LEMMA DenyInv ==
  ASSUME IInv, NEW c \in Cpus, Deny(c)
  PROVE  IInv'
PROOF
<1>. QED
  BY PlainReturnInv DEF Deny, AtFilter

LEMMA PassUnchangedInv ==
  ASSUME IInv, NEW c \in Cpus, PassUnchanged(c)
  PROVE  IInv'
PROOF
<1>1. calls[c] # <<>> /\ Return(c, Top(c).unchanged) /\ UNCHANGED <<list, work, sent>>
  BY DEF PassUnchanged
<1>2. Top(c) \in Frame
  BY <1>1, Carrying
<1>3. Top(c).unchanged \in BOOLEAN
  BY <1>2 DEF Frame
<1>. QED
  BY <1>1, <1>3, PlainReturnInv
-----------------------------------------------------------------------------
(* The copy that an end makes of a changed frame is the first of its       *)
(* packet.                                                                 *)
LEMMA NewCopy ==
  ASSUME IInv, NEW c \in Cpus, calls[c] # <<>>, Top(c).at \in Ends,
         Return(c, FALSE), UNCHANGED list
  PROVE  /\ Top(c) \in Frame /\ AllTheWay(Top(c)) /\ verdict'[Top(c).pkt] = "stop"
         /\ \A w \in work : w \in Frame /\ CopyOK(w) /\ w.pkt # Top(c).pkt
                            /\ verdict'[w.pkt] = "stop"
         /\ \A i \in 1..Len(sent) : /\ sent[i] \in Frame /\ CopyOK(sent[i])
                                     /\ sent[i].pkt # Top(c).pkt
                                     /\ verdict'[sent[i].pkt] = "stop"
PROOF
<1>1. Top(c) \in Frame /\ AllTheWay(Top(c))
  BY Carrying, Through
<1>2. verdict'[Top(c).pkt] = "stop"
  BY Returned
<1>3. ASSUME NEW fr \in Frame, CopyOK(fr) PROVE fr.pkt # Top(c).pkt /\ verdict'[fr.pkt] = "stop"
  <2>1. fr.pkt \in Packets /\ verdict[fr.pkt] = "stop"
    BY <1>3 DEF Frame, CopyOK
  <2>. QED
    BY <1>3, <2>1, Returned
<1>4. work \subseteq Frame /\ \A i \in 1..Len(sent) : sent[i] \in Frame
  BY DEF IInv, TypeOK
<1>5. (\A w \in work : CopyOK(w)) /\ \A i \in 1..Len(sent) : CopyOK(sent[i])
  BY DEF IInv, CopiesOK
<1>. QED
  BY <1>1, <1>2, <1>3, <1>4, <1>5

LEMMA QueueForNetInv ==
  ASSUME IInv, NEW c \in Cpus, QueueForNet(c)
  PROVE  IInv'
PROOF
<1>1. /\ calls[c] # <<>> /\ Top(c).at \in Ends
      /\ sent' \in {sent, Append(sent, Top(c))}
      /\ Return(c, FALSE) /\ UNCHANGED <<list, work>>
  BY DEF QueueForNet, CopyReturn, Ends
<1>2. CASE sent' = sent
  BY <1>1, <1>2, PlainReturnInv
<1>3. CASE sent' = Append(sent, Top(c))
  <2>. DEFINE n == Len(sent)
  <2>1. /\ Top(c) \in Frame /\ AllTheWay(Top(c)) /\ verdict'[Top(c).pkt] = "stop"
        /\ \A w \in work : w \in Frame /\ CopyOK(w) /\ w.pkt # Top(c).pkt /\ verdict'[w.pkt] = "stop"
        /\ \A i \in 1..n : /\ CopyOK(sent[i]) /\ sent[i].pkt # Top(c).pkt
                            /\ verdict'[sent[i].pkt] = "stop"
    BY <1>1, NewCopy
  <2>2. TypeOK /\ Alone
    BY DEF IInv, CopiesOK
  <2>3. /\ sent' \in Seq(Frame) /\ Len(sent') = n + 1 /\ sent'[n + 1] = Top(c)
        /\ \A i \in 1..n : sent'[i] = sent[i]
    BY <1>3, <2>1, <2>2, AppendProperties DEF TypeOK
  <2>4. n \in Nat
    BY <2>2 DEF TypeOK
  <2>. HIDE DEF n
  <2>5. \A i \in 1..n+1 : i = n+1 \/ i \in 1..n
    BY <2>4
  <2>6. TypeOK'
    BY <1>1, <2>2, <2>3, Returned DEF TypeOK
  <2>7. \A i \in 1..Len(sent') : CopyOK(sent[i])' 
    BY <2>1, <2>3, <2>5 DEF CopyOK, AllTheWay
  <2>8. \A w \in work' : CopyOK(w)'
    BY <1>1, <2>1 DEF CopyOK, AllTheWay
  <2>9. Alone'
    <3>1. \A v, w \in work' : v.pkt = w.pkt => v = w
      BY <1>1, <2>2 DEF Alone
    <3>2. \A i, j \in 1..Len(sent') : sent'[i].pkt = sent'[j].pkt => i = j
      <4>1. \A i, j \in 1..n : sent[i].pkt = sent[j].pkt => i = j
        BY <2>2 DEF Alone, n
      <4>. QED
        BY <2>1, <2>3, <2>5, <4>1
    <3>3. \A w \in work', i \in 1..Len(sent') : w.pkt # sent'[i].pkt
      <4>1. \A w \in work, i \in 1..n : w.pkt # sent[i].pkt
        BY <2>2 DEF Alone, n
      <4>. QED
        BY <1>1, <2>1, <2>3, <2>5, <4>1
    <3>. QED
      BY <3>1, <3>2, <3>3 DEF Alone
  <2>. QED
    BY <1>1, <2>6, <2>7, <2>8, <2>9, Returned DEF IInv, CopiesOK
<1>. QED
  BY <1>1, <1>2, <1>3

LEMMA QueueForTcpInv ==
  ASSUME IInv, NEW c \in Cpus, QueueForTcp(c)
  PROVE  IInv'
PROOF
<1>1. /\ calls[c] # <<>> /\ Top(c).at \in Ends
      /\ work' \in {work, work \cup {Top(c)}}
      /\ Return(c, FALSE) /\ UNCHANGED <<list, sent>>
  BY DEF QueueForTcp, CopyReturn, Ends
<1>2. CASE work' = work
  BY <1>1, <1>2, PlainReturnInv
<1>3. CASE work' = work \cup {Top(c)}
  <2>1. /\ Top(c) \in Frame /\ AllTheWay(Top(c)) /\ verdict'[Top(c).pkt] = "stop"
        /\ \A w \in work : w \in Frame /\ CopyOK(w) /\ w.pkt # Top(c).pkt /\ verdict'[w.pkt] = "stop"
        /\ \A i \in 1..Len(sent) : /\ CopyOK(sent[i]) /\ sent[i].pkt # Top(c).pkt
                                    /\ verdict'[sent[i].pkt] = "stop"
    BY <1>1, NewCopy
  <2>2. TypeOK /\ Alone
    BY DEF IInv, CopiesOK
  <2>3. TypeOK'
    BY <1>1, <1>3, <2>1, <2>2, Returned DEF TypeOK
  <2>4. \A w \in work' : CopyOK(w)'
    BY <1>3, <2>1 DEF CopyOK, AllTheWay
  <2>5. \A i \in 1..Len(sent') : CopyOK(sent[i])'
    BY <1>1, <2>1 DEF CopyOK, AllTheWay
  <2>6. Alone'
    BY <1>1, <1>3, <2>1, <2>2 DEF Alone
  <2>. QED
    BY <1>1, <2>3, <2>4, <2>5, <2>6, Returned DEF IInv, CopiesOK
<1>. QED
  BY <1>1, <1>2, <1>3

LEMMA DelayedInv ==
  ASSUME IInv, NEW w \in work, Delayed(w)
  PROVE  IInv'
PROOF
<1>1. /\ work' = work \ {w} /\ sent' \in {sent, Append(sent, w)}
      /\ UNCHANGED <<list, guard, calls, verdict>>
  BY DEF Delayed
<1>2. TypeOK /\ Linked /\ CopiesOK /\ Alone
  BY DEF IInv, CopiesOK
<1>3. Linked' /\ \A c \in Cpus : CallOK(c)'
  <2>1. \A c \in Cpus : CallOK(c) => CallOK(c)'
    BY <1>1, StillOK
  <2>. QED
    BY <1>1, <1>2, <2>1, ListKept DEF IInv
<1>4. \A v \in work' : CopyOK(v)'
  BY <1>1, <1>2 DEF CopiesOK, CopyOK, AllTheWay
<1>5. CASE sent' = sent
  <2>1. TypeOK'
    BY <1>1, <1>2, <1>5 DEF TypeOK, list
  <2>2. Alone' /\ \A i \in 1..Len(sent') : CopyOK(sent[i])'
    BY <1>1, <1>2, <1>5 DEF Alone, CopiesOK, CopyOK, AllTheWay
  <2>. QED
    BY <1>3, <1>4, <2>1, <2>2 DEF IInv, CopiesOK
<1>6. CASE sent' = Append(sent, w)
  <2>. DEFINE n == Len(sent)
  <2>1. sent \in Seq(Frame) /\ w \in Frame /\ n \in Nat
    BY <1>2 DEF TypeOK
  <2>2. /\ sent' \in Seq(Frame) /\ Len(sent') = n + 1 /\ sent'[n + 1] = w
        /\ \A i \in 1..n : sent'[i] = sent[i]
    BY <1>6, <2>1, AppendProperties
  <2>3. /\ \A i \in 1..n : CopyOK(sent[i]) /\ sent[i].pkt # w.pkt
        /\ CopyOK(w) /\ \A v \in work' : v.pkt # w.pkt
        /\ \A i, j \in 1..n : sent[i].pkt = sent[j].pkt => i = j
        /\ \A v \in work, i \in 1..n : v.pkt # sent[i].pkt
        /\ \A u, v \in work : u.pkt = v.pkt => u = v
    BY <1>1, <1>2 DEF CopiesOK, Alone
  <2>. HIDE DEF n
  <2>4. \A i \in 1..n+1 : i = n+1 \/ i \in 1..n
    BY <2>1
  <2>5. TypeOK'
    BY <1>1, <1>2, <2>2 DEF TypeOK, list
  <2>6. \A i \in 1..Len(sent') : CopyOK(sent[i])'
    BY <1>1, <2>2, <2>3, <2>4 DEF CopyOK, AllTheWay
  <2>7. Alone'
    <3>1. \A i, j \in 1..Len(sent') : sent'[i].pkt = sent'[j].pkt => i = j
      BY <2>2, <2>3, <2>4
    <3>2. \A v \in work', i \in 1..Len(sent') : v.pkt # sent'[i].pkt
      BY <1>1, <2>2, <2>3, <2>4
    <3>. QED
      BY <1>1, <2>3, <3>1, <3>2 DEF Alone
  <2>. QED
    BY <1>3, <1>4, <2>5, <2>6, <2>7 DEF IInv, CopiesOK
<1>. QED
  BY <1>1, <1>5, <1>6
-----------------------------------------------------------------------------
LEMMA InitInv == Init => IInv
PROOF
<1>. SUFFICES ASSUME Init PROVE IInv
  OBVIOUS
<1>1. TypeOK
  BY NamesAssumption DEF Init, TypeOK, Nodes, Ends
<1>2. Linked
  <2>1. order = <<>> /\ Len(order) = 0 /\ DOMAIN order = {}
    BY DEF Init
  <2>2. lower["top"] = "bottom" /\ upper["bottom"] = "top"
    BY DEF Init, Nodes, Ends
  <2>3. \A i \in 0..0 : i = 0 /\ i+1 = 1
    OBVIOUS
  <2>. QED
    BY <2>1, <2>2, <2>3 DEF Linked, IsInjective, Nth
<1>3. \A c \in Cpus : CallOK(c)
  BY DEF Init, CallOK
<1>4. CopiesOK
  BY DEF Init, CopiesOK, Alone
<1>. QED
  BY <1>1, <1>2, <1>3, <1>4 DEF IInv

(* One step of the proof per action. *)
LEMMA StepInv ==
  ASSUME IInv, [Next]_vars
  PROVE  IInv'
PROOF
<1>1. ASSUME NEW f \in Filters, Change(f) PROVE IInv'
  BY <1>1, ChangeInv
<1>2. ASSUME NEW c \in Cpus, NEW p \in Packets, NEW d \in Dirs, Enter(c, p, d) PROVE IInv'
  BY <1>2, EnterInv
<1>3. ASSUME NEW c \in Cpus, Carry(c) PROVE IInv'
  <2>1. CASE Pass(c, FALSE) \/ Pass(c, TRUE)
    BY <2>1, PassInv
  <2>2. CASE Deny(c)
    BY <2>2, DenyInv
  <2>3. CASE DenyWithRst(c)
    BY <2>3, DenyWithRstInv
  <2>4. CASE PassUnchanged(c)
    BY <2>4, PassUnchangedInv
  <2>5. CASE QueueForNet(c)
    BY <2>5, QueueForNetInv
  <2>6. CASE QueueForTcp(c)
    BY <2>6, QueueForTcpInv
  <2>. QED
    BY <1>3, <2>1, <2>2, <2>3, <2>4, <2>5, <2>6 DEF Carry
<1>4. ASSUME NEW w \in work, Delayed(w) PROVE IInv'
  BY <1>4, DelayedInv
<1>5. CASE UNCHANGED vars
  <2>1. \A c \in Cpus : CallOK(c) => CallOK(c)'
    BY <1>5, StillOK DEF vars
  <2>2. CopiesOK'
    BY <1>5 DEF IInv, CopiesOK, CopyOK, AllTheWay, Alone, vars
  <2>3. TypeOK' /\ Linked'
    BY <1>5 DEF IInv, TypeOK, Linked, vars, list
  <2>. QED
    BY <2>1, <2>2, <2>3 DEF IInv
<1>. QED
  BY <1>1, <1>2, <1>3, <1>4, <1>5 DEF Next

(* The inductive invariant of the stack: links, routes and copies. *)
THEOREM Invariance == Spec => []IInv
PROOF
<1>. QED
  BY InitInv, StepInv, PTL DEF Spec
-----------------------------------------------------------------------------
(* What each property needs of the invariant. *)
LEMMA SeenFromInv == IInv => SeenByAll
PROOF
<1>. SUFFICES ASSUME IInv, NEW fr \in Arrived PROVE fr.path = fr.below
  BY DEF SeenByAll
<1>1. CASE fr \in Carried /\ fr.at \in Ends
  <2>1. PICK c \in Cpus : fr \in Range(calls[c])
    BY <1>1 DEF Carried
  <2>2. calls[c] \in Seq(Frame) /\ CallOK(c)
    BY DEF IInv, TypeOK
  <2>3. PICK i \in 1..Len(calls[c]) : fr = calls[c][i]
    BY <2>1, <2>2 DEF Range
  <2>4. fr \in Frame /\ OnRoute(fr)
    BY <2>2, <2>3, EmptySeq DEF CallOK
  <2>. QED
    BY <1>1, <2>4, Through DEF AllTheWay
<1>2. CASE fr \in work \cup Range(sent)
  BY <1>2 DEF IInv, TypeOK, CopiesOK, CopyOK, AllTheWay, Range
<1>. QED
  BY <1>1, <1>2 DEF Arrived

LEMMA CalledFromInv == IInv => CalledWhileAttached
PROOF
<1>. SUFFICES ASSUME IInv, NEW c \in Cpus, NEW i \in DOMAIN calls[c]
     PROVE  calls[c][i].at \in Range(order) \cup Ends
  BY DEF CalledWhileAttached
<1>1. calls[c] \in Seq(Frame) /\ CallOK(c)
  BY DEF IInv, TypeOK
<1>2. calls[c][i] \in Frame /\ OnRoute(calls[c][i])
  BY <1>1, EmptySeq DEF CallOK
<1>. DEFINE fr == calls[c][i]
<1>3. Len(fr.path) \in Nat /\ Len(fr.below) \in Nat /\ Len(fr.path) <= Len(fr.below)
  BY <1>2 DEF Frame, OnRoute
<1>4. CASE Len(fr.path) + 1 = Len(fr.below) + 1
  BY <1>2, <1>3, <1>4 DEF OnRoute, Stop, End, Ends
<1>5. CASE Len(fr.path) + 1 \in 1..Len(fr.below)
  BY <1>2, <1>3, <1>5 DEF OnRoute, Route, Stop
<1>. QED
  BY <1>3, <1>4, <1>5

LEMMA OutcomeFromInv == IInv => OneOutcome
PROOF
<1>. SUFFICES ASSUME IInv PROVE OneOutcome
  OBVIOUS
<1>1. /\ Alone /\ sent \in Seq(Frame) /\ DOMAIN sent = 1..Len(sent)
      /\ (\A w \in work : CopyOK(w)) /\ \A i \in 1..Len(sent) : CopyOK(sent[i])
  BY DEF IInv, TypeOK, CopiesOK
<1>2. ASSUME NEW p \in Packets, NEW k \in Kinds, NEW l \in Kinds,
             NEW x \in Copies(p, k), NEW y \in Copies(p, l)
      PROVE  x = y /\ k = l /\ verdict[p] = "stop"
  <2>1. CASE x[1] = "sent" /\ y[1] = "sent"
    <3>1. PICK i \in 1..Len(sent) : x = <<"sent", i>> /\ sent[i].pkt = p /\ sent[i].kind = k
      BY <1>1, <2>1 DEF Copies
    <3>2. PICK j \in 1..Len(sent) : y = <<"sent", j>> /\ sent[j].pkt = p /\ sent[j].kind = l
      BY <1>1, <2>1 DEF Copies
    <3>3. i = j
      BY <1>1, <3>1, <3>2 DEF Alone
    <3>. QED
      BY <1>1, <3>1, <3>2, <3>3 DEF CopyOK
  <2>2. CASE x[1] = "work" /\ y[1] = "work"
    <3>1. PICK v \in work : x = <<"work", v>> /\ v.pkt = p /\ v.kind = k
      BY <2>2 DEF Copies
    <3>2. PICK w \in work : y = <<"work", w>> /\ w.pkt = p /\ w.kind = l
      BY <2>2 DEF Copies
    <3>3. v = w
      BY <1>1, <3>1, <3>2 DEF Alone
    <3>. QED
      BY <1>1, <3>1, <3>2, <3>3 DEF CopyOK
  <2>3. CASE x[1] # y[1]
    <3>1. \E w \in work, i \in 1..Len(sent) : w.pkt = p /\ sent[i].pkt = p
      BY <1>1, <2>3 DEF Copies
    <3>. QED
      BY <1>1, <3>1 DEF Alone
  <2>4. x[1] \in {"sent", "work"} /\ y[1] \in {"sent", "work"}
    BY DEF Copies
  <2>. QED
    BY <2>1, <2>2, <2>3, <2>4
<1>3. ASSUME NEW p \in Packets, NEW k \in Kinds PROVE Cardinality(Copies(p, k)) <= 1
  <2>1. CASE Copies(p, k) = {}
    BY <2>1, FS_EmptySet
  <2>2. ASSUME NEW x \in Copies(p, k) PROVE Cardinality(Copies(p, k)) <= 1
    <3>1. Copies(p, k) = {x}
      BY <1>2
    <3>2. Cardinality({x}) = 1
      BY FS_Singleton
    <3>. QED
      BY <3>1, <3>2
  <2>. QED
    BY <2>1, <2>2
<1>4. ASSUME NEW p \in Packets PROVE Copies(p, "packet") = {} \/ Copies(p, "rst") = {}
  BY <1>2 DEF Kinds
<1>5. ASSUME NEW p \in Packets, verdict[p] = "pass", NEW k \in Kinds PROVE Copies(p, k) = {}
  BY <1>2, <1>5
<1>6. ASSUME NEW fr \in Arrived PROVE fr.unchanged # fr.changed
  <2>1. CASE fr \in Carried
    <3>1. PICK c \in Cpus : fr \in Range(calls[c])
      BY <2>1 DEF Carried
    <3>2. calls[c] \in Seq(Frame) /\ CallOK(c)
      BY DEF IInv, TypeOK
    <3>3. PICK i \in 1..Len(calls[c]) : fr = calls[c][i]
      BY <3>1, <3>2 DEF Range
    <3>. QED
      BY <3>2, <3>3, EmptySeq DEF CallOK, OnRoute
  <2>2. CASE fr \in work \cup Range(sent)
    BY <1>1, <2>2 DEF CopyOK, AllTheWay, Range
  <2>. QED
    BY <2>1, <2>2 DEF Arrived
<1>. QED
  BY <1>3, <1>4, <1>5, <1>6 DEF OneOutcome
-----------------------------------------------------------------------------
(* Every variable of the stack keeps its type. *)
THEOREM TypesHold == Spec => []TypeOK
PROOF
<1>1. IInv => TypeOK
  BY DEF IInv
<1>. QED
  BY <1>1, Invariance, PTL

(* attach_filter leaves a list linked in both directions, whatever was     *)
(* attached at either end and detached before, and between the packets.    *)
THEOREM ListLinked == Spec => []Linked
PROOF
<1>1. IInv => Linked
  BY DEF IInv
<1>. QED
  BY <1>1, Invariance, PTL

(* No packet, copy or RST gets to an end of the list past a filter: each   *)
(* was passed by all filters of its way, once and in order.                *)
THEOREM PassedByAll == Spec => []SeenByAll
PROOF
<1>. QED
  BY SeenFromInv, Invariance, PTL

(* process_packet of a filter is not called after attach_filter has        *)
(* removed the filter.                                                     *)
THEOREM NoDetachedIsCalled == Spec => []CalledWhileAttached
PROOF
<1>. QED
  BY CalledFromInv, Invariance, PTL

(* A packet goes on unchanged, or as one copy, or is answered by one RST,  *)
(* or none of these: never two of them.                                    *)
THEOREM OutcomeUnique == Spec => []OneOutcome
PROOF
<1>. QED
  BY OutcomeFromInv, Invariance, PTL
=============================================================================
