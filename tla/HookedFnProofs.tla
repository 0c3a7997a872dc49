----------------------------- MODULE HookedFnProofs -----------------------------
(***************************************************************************)
(* Proofs about HookedFn: for any protocols, adapters and amount of        *)
(* memory, and any order in which adapters are opened, completed and       *)
(* closed, the bookkeeping of ndis_hk reaches nothing that was freed, takes *)
(* a binding for one adapter, keeps the index of a name, and leaks no more *)
(* than the adapters that the code forgets.                                *)
(***************************************************************************)
EXTENDS HookedFn, SequenceTheorems, TLAPS

(* Lists grow at the head, with blocks that were never used before. *)
Decreasing(s) == \A i, j \in 1..Len(s) : i < j => s[j] < s[i]

FreshOK == \A b \in Blocks : b > last => context[b] = NULL /\ list[b] = <<>> /\ index[b] = 0

(* The PROTOCOL_CHARS of a registered protocol is in the hash, and is one  *)
(* of its own.                                                             *)
ProtocolOK(h) ==
  /\ stub[h] # NULL => /\ stub[h] \in mem /\ context[stub[h]] = NULL
                       /\ protocol[h] # "none"
                       /\ \A g \in Protocols : stub[g] = stub[h] => g = h
  /\ protAv[h] # NULL => protAv[h] = stub[h] /\ protocol[h] = "registered"
  /\ protocol[h] = "registered" => protAv[h] = stub[h]
  /\ protocol[h] = "saving" => stub[h] # NULL

(* Every list is of adapters of its protocol. *)
ListOK(p) ==
  /\ Decreasing(list[p])
  /\ p \in mem => \A a \in Range(list[p]) :
                     a \in mem /\ context[a] \in Contexts /\ p = Pchars(context[a])

(* a is in the list and was made by the last open of x. *)
Current(x, a) ==
  /\ Pchars(x) # NULL /\ a \in Range(list[Pchars(x)]) /\ context[a] = x
  /\ \A b \in Blocks : context[b] = x => b <= a

BindingOK(x) ==
  /\ binding[x] = "opening" =>
       \E a \in mem \ forgotten : Current(x, a)
  /\ bindAv[x] # NULL => /\ binding[x] = "open" /\ bindAv[x] = block[x]
                         /\ bindAv[x] \in mem \ forgotten
  /\ block[x] # NULL => /\ binding[x] \in {"open", "closing"} /\ Pchars(x) # NULL
                        /\ binding[x] = "open" =>
                             Current(x, block[x]) /\ (bindAv[x] = block[x] \/ block[x] \in forgotten)

ForgottenOK == \A a \in forgotten : a \in mem /\ context[a] \in Contexts

NamesOK ==
  /\ IsInjective(names)
  /\ \A a \in Blocks : index[a] # 0 => context[a] \in Contexts /\ names[index[a]] = NameOf[context[a]]

(* What is allocated and not forgotten is led to, block by block. *)
LedTo(b) == \/ \E h \in Protocols : stub[h] = b
            \/ \E x \in Contexts : bindAv[x] = b
            \/ \E x \in Contexts : binding[x] = "opening" /\ Current(x, b)
OwnedOK  == \A b \in Blocks : b \in mem \ forgotten <=> LedTo(b)

IInv ==
  /\ TypeOK /\ FreshOK
  /\ \A h \in Protocols : ProtocolOK(h)
  /\ \A p \in Blocks : ListOK(p)
  /\ \A x \in Contexts : BindingOK(x)
  /\ ForgottenOK /\ NamesOK /\ OwnedOK
-----------------------------------------------------------------------------
(* Taking a block out of a list, and putting a new one at its head. *)
LEMMA Unlinked ==
  ASSUME NEW s \in Seq(Blocks), Decreasing(s), NEW a \in Range(s)
  PROVE  /\ Unlink(s, a) \in Seq(Blocks) /\ Decreasing(Unlink(s, a))
         /\ Range(Unlink(s, a)) = Range(s) \ {a}
PROOF
<1>. DEFINE n == Len(s)
<1>1. n \in Nat /\ DOMAIN s = 1..n /\ \A i \in 1..n : s[i] \in Int /\ s[i] \in Blocks
  BY BlocksAssumption DEF Blocks
<1>2. PICK k \in 1..n : s[k] = a
  BY <1>1 DEF Range
<1>3. \A i, j \in 1..n : s[i] = s[j] => i = j
  <2>1. ASSUME NEW i \in 1..n, NEW j \in 1..n, s[i] = s[j], i # j PROVE FALSE
    <3>1. i < j \/ j < i
      BY <1>1, <2>1
    <3>2. s[i] \in Int /\ s[j] \in Int
      BY <1>1
    <3>. QED
      BY <2>1, <3>1, <3>2 DEF Decreasing
  <2>. QED
    BY <2>1
<1>. DEFINE I == {i \in 1..Len(s) : s[i] = a}
            u == SubSeq(s, 1, k-1)
            v == SubSeq(s, k+1, Len(s))
<1>4. I = {k}
  BY <1>2, <1>3
<1>5. Min(I) = k
  BY <1>4 DEF Min
<1>6. SelectInSeq(s, LAMBDA b : b = a) = k
  BY <1>4, <1>5 DEF SelectInSeq
<1>7. Unlink(s, a) = u \o v
  BY <1>2, <1>6 DEF Unlink, RemoveFirst, RemoveAt
<1>. HIDE DEF I
<1>8. u \in Seq(Blocks) /\ Len(u) = k-1 /\ \A i \in 1..k-1 : u[i] = s[i]
  BY <1>1
<1>9. /\ v \in Seq(Blocks)
      /\ Len(v) = IF k+1 <= Len(s) THEN Len(s)-(k+1)+1 ELSE 0
      /\ \A i \in 1..Len(s)-(k+1)+1 : v[i] = s[(k+1)+i-1]
  BY <1>1, SubSeqProperties
<1>. HIDE DEF u, v
<1>10. Len(s) = n
  OBVIOUS
<1>. HIDE DEF n
<1>11. Len(v) = n-k
  BY <1>1, <1>9, <1>10
<1>12. \A i \in 1..n-k : v[i] = s[k+i]
  BY <1>1, <1>9, <1>10
<1>13. /\ u \o v \in Seq(Blocks)
       /\ Len(u \o v) = Len(u) + Len(v)
       /\ \A i \in 1..Len(u) + Len(v) :
            (u \o v)[i] = IF i <= Len(u) THEN u[i] ELSE v[i - Len(u)]
  BY <1>8, <1>9, ConcatProperties
<1>. DEFINE t == u \o v
<1>14. t \in Seq(Blocks) /\ Len(t) = n-1 /\ DOMAIN t = 1..n-1
  BY <1>1, <1>8, <1>11, <1>13
<1>15. ASSUME NEW i \in 1..n-1
       PROVE  t[i] = IF i < k THEN s[i] ELSE s[i+1]
  <2>1. CASE i < k
    BY <1>1, <1>8, <1>11, <1>13, <2>1
  <2>2. CASE ~(i < k)
    <3>1. t[i] = v[i - Len(u)]
      BY <1>1, <1>8, <1>11, <1>13, <2>2
    <3>2. i - Len(u) = i - k + 1 /\ i - k + 1 \in 1..n-k /\ k + (i - k + 1) = i + 1
      BY <1>1, <1>8, <2>2
    <3>. QED
      BY <1>12, <2>2, <3>1, <3>2
  <2>. QED
    BY <2>1, <2>2
<1>16. Unlink(s, a) = t
  BY <1>7
<1>. HIDE DEF t
<1>17. Decreasing(t)
  <2>1. SUFFICES ASSUME NEW i \in 1..n-1, NEW j \in 1..n-1, i < j PROVE t[j] < t[i]
    BY <1>14 DEF Decreasing
  <2>. DEFINE f == IF i < k THEN i ELSE i+1
              g == IF j < k THEN j ELSE j+1
  <2>2. t[i] = s[f] /\ t[j] = s[g]
    BY <1>15
  <2>3. f \in 1..n /\ g \in 1..n /\ f < g
    BY <1>1, <2>1
  <2>. HIDE DEF f, g
  <2>. QED
    BY <1>10, <2>2, <2>3 DEF Decreasing
<1>18. Range(t) = Range(s) \ {a}
  <2>1. ASSUME NEW b \in Range(t) PROVE b \in Range(s) /\ b # a
    <3>1. PICK i \in 1..n-1 : b = t[i]
      BY <1>14, <2>1 DEF Range
    <3>2. PICK j \in 1..n : j # k /\ b = s[j]
      <4>1. CASE i < k
        BY <1>1, <1>15, <3>1, <4>1
      <4>2. CASE ~(i < k)
        <5>1. b = s[i+1] /\ i+1 \in 1..n /\ i+1 # k
          BY <1>1, <1>15, <3>1, <4>2
        <5>. QED
          BY <5>1
      <4>. QED
        BY <4>1, <4>2
    <3>. QED
      BY <1>1, <1>2, <1>3, <3>2 DEF Range
  <2>2. ASSUME NEW b \in Range(s), b # a PROVE b \in Range(t)
    <3>1. PICK j \in 1..n : b = s[j]
      BY <1>1 DEF Range
    <3>2. j # k
      BY <1>2, <2>2, <3>1
    <3>3. CASE j < k
      <4>1. j \in 1..n-1 /\ t[j] = b
        BY <1>1, <1>15, <3>1, <3>3
      <4>. QED
        BY <1>14, <4>1 DEF Range
    <3>4. CASE j > k
      <4>1. j-1 \in 1..n-1 /\ ~(j-1 < k) /\ (j-1)+1 = j
        BY <1>1, <3>4
      <4>2. t[j-1] = b
        BY <1>15, <3>1, <4>1
      <4>. QED
        BY <1>14, <4>1, <4>2 DEF Range
    <3>. QED
      BY <1>1, <3>2, <3>3, <3>4
  <2>. QED
    BY <2>1, <2>2
<1>. QED
  BY <1>14, <1>16, <1>17, <1>18

LEMMA LinkedIn ==
  ASSUME NEW s \in Seq(Blocks), Decreasing(s), NEW a \in Blocks, \A b \in Range(s) : b < a
  PROVE  /\ Link(s, a) \in Seq(Blocks) /\ Decreasing(Link(s, a))
         /\ Range(Link(s, a)) = Range(s) \cup {a}
PROOF
<1>. DEFINE n == Len(s)
            t == <<a>> \o s
<1>1. n \in Nat /\ DOMAIN s = 1..n /\ \A i \in 1..n : s[i] < a
  BY DEF Range
<1>2. /\ t \in Seq(Blocks) /\ Len(t) = n + 1 /\ DOMAIN t = 1..n+1 /\ t[1] = a
      /\ \A i \in 1..n : t[i+1] = s[i]
  OBVIOUS
<1>. HIDE DEF t
<1>3. \A i \in 1..n+1 : i = 1 \/ (i-1 \in 1..n /\ t[i] = s[i-1])
  <2>1. ASSUME NEW i \in 1..n+1, i # 1 PROVE i-1 \in 1..n /\ (i-1)+1 = i
    BY <1>1, <2>1
  <2>. QED
    BY <1>2, <2>1
<1>4. Decreasing(t)
  <2>1. SUFFICES ASSUME NEW i \in 1..n+1, NEW j \in 1..n+1, i < j PROVE t[j] < t[i]
    BY <1>2 DEF Decreasing
  <2>2. j-1 \in 1..n /\ t[j] = s[j-1]
    BY <1>1, <1>3, <2>1
  <2>3. CASE i = 1
    BY <1>1, <1>2, <2>2, <2>3
  <2>4. CASE i # 1
    <3>1. i-1 \in 1..n /\ t[i] = s[i-1] /\ i-1 < j-1
      BY <1>1, <1>3, <2>1, <2>4
    <3>. QED
      BY <2>2, <3>1 DEF Decreasing
  <2>. QED
    BY <2>3, <2>4
<1>5. Range(t) = Range(s) \cup {a}
  <2>1. ASSUME NEW b \in Range(t) PROVE b \in Range(s) \cup {a}
    BY <1>1, <1>2, <1>3, <2>1 DEF Range
  <2>2. ASSUME NEW b \in Range(s) PROVE b \in Range(t)
    <3>1. PICK i \in 1..n : b = s[i]
      BY <1>1 DEF Range
    <3>2. i+1 \in 1..n+1 /\ t[i+1] = b
      BY <1>1, <1>2, <3>1
    <3>. QED
      BY <1>2, <3>2 DEF Range
  <2>3. a \in Range(t)
    <3>1. 1 \in 1..n+1
      BY <1>1
    <3>. QED
      BY <1>2, <3>1 DEF Range
  <2>. QED
    BY <2>1, <2>2, <2>3
<1>. QED
  BY <1>2, <1>4, <1>5 DEF Link, t

(* The first adapter that is found by its context is the one of the last   *)
(* open of that context.                                                   *)
LEMMA FoundIsCurrent ==
  ASSUME TypeOK, NEW x \in Contexts, NEW a, Current(x, a), ListOK(Pchars(x))
  PROVE  Found(x) = a
PROOF
<1>. DEFINE p == Pchars(x)
            s == list[p]
            n == Len(s)
            I == {i \in 1..Len(s) : context[s[i]] = x}
<1>1. p \in Blocks
  BY ContextAssumption DEF TypeOK, OrNull, Current, Pchars
<1>2. /\ s \in Seq(Blocks) /\ n \in Nat /\ DOMAIN s = 1..n
      /\ \A i \in 1..n : s[i] \in Blocks /\ s[i] \in Int
  <2>1. list \in [Blocks -> Seq(Blocks)]
    BY DEF TypeOK
  <2>2. s \in Seq(Blocks)
    BY <1>1, <2>1
  <2>. HIDE DEF s
  <2>. QED
    BY <2>2, BlocksAssumption DEF Blocks
<1>3. PICK k \in 1..n : s[k] = a
  BY <1>2 DEF Current, Range
<1>4. k \in I
  BY <1>3 DEF Current
<1>5. ASSUME NEW i \in I PROVE k <= i
  <2>1. i \in 1..n /\ s[i] <= a
    BY <1>2 DEF Current
  <2>2. CASE i < k
    <3>1. s[k] < s[i]
      BY <2>1, <2>2 DEF ListOK, Decreasing
    <3>. QED
      BY <1>2, <1>3, <2>1, <3>1
  <2>. QED
    BY <1>2, <2>1, <2>2
<1>6. Min(I) = k
  <2>1. \A j \in I : (\A i \in I : j <= i) => j = k
    BY <1>2, <1>4, <1>5
  <2>. QED
    BY <1>4, <1>5, <2>1 DEF Min
<1>7. I # {}
  BY <1>4
<1>8. SelectInSeq(s, LAMBDA b : context[b] = x) = k
  BY <1>6, <1>7 DEF SelectInSeq
<1>. QED
  BY <1>2, <1>3, <1>8 DEF Found
-----------------------------------------------------------------------------
(* What else is used of a state: blocks are numbers up to the last one, an *)
(* open in progress has one adapter, and a PROTOCOL_CHARS is none.         *)
LEMMA Basics ==
  ASSUME IInv
  PROVE  /\ NULL \notin Blocks /\ NULL \notin Contexts /\ last \in Nat
         /\ mem \subseteq Blocks /\ \A b \in mem : b \in Nat /\ b <= last
         /\ \A x \in Contexts : ProtocolOf[x] \in Protocols /\ Pchars(x) \in Blocks \cup {NULL}
         /\ \A h \in Protocols : stub[h] # NULL => context[stub[h]] \notin Contexts
PROOF
<1>1. NULL \notin Blocks /\ NULL \notin Contexts /\ last \in Nat
  BY BlocksAssumption, ContextAssumption DEF IInv, TypeOK, Blocks
<1>2. mem \subseteq Blocks /\ \A b \in mem : b \in Nat /\ b <= last
  BY BlocksAssumption DEF IInv, TypeOK, Blocks
<1>3. \A x \in Contexts : ProtocolOf[x] \in Protocols /\ Pchars(x) \in Blocks \cup {NULL}
  BY ContextAssumption DEF IInv, TypeOK, OrNull, Pchars
<1>4. \A h \in Protocols : stub[h] # NULL => context[stub[h]] \notin Contexts
  BY <1>1 DEF IInv, ProtocolOK
<1>. QED
  BY <1>1, <1>2, <1>3, <1>4

LEMMA CurrentOnce ==
  ASSUME IInv, NEW x \in Contexts, NEW a, Current(x, a)
  PROVE  /\ a \in Blocks /\ context[a] = x
         /\ \A b : Current(x, b) => b = a
PROOF
<1>1. Pchars(x) \in Blocks
  BY Basics DEF Current
<1>2. list[Pchars(x)] \in Seq(Blocks)
  BY <1>1 DEF IInv, TypeOK
<1>3. \A b \in Range(list[Pchars(x)]) : b \in Blocks
  BY <1>2 DEF Range
<1>4. \A b, c \in Blocks : b <= c /\ c <= b => b = c
  BY BlocksAssumption DEF Blocks
<1>. QED
  BY <1>3, <1>4 DEF Current

(* What an open in progress has: the adapter that its context finds. *)
LEMMA Opening ==
  ASSUME IInv, NEW x \in Contexts, binding[x] = "opening"
  PROVE  /\ Current(x, Found(x)) /\ Found(x) \in mem \ forgotten
         /\ bindAv[x] = NULL /\ block[x] = NULL
PROOF
<1>1. PICK a \in mem \ forgotten : Current(x, a)
  BY DEF IInv, BindingOK
<1>2. Pchars(x) \in Blocks
  BY <1>1, Basics DEF Current
<1>3. Found(x) = a
  BY <1>1, <1>2, FoundIsCurrent DEF IInv
<1>. QED
  BY <1>1, <1>3 DEF IInv, BindingOK

LEMMA AllocatedOK ==
  ASSUME mem \subseteq 1..last, last \in Nat, NEW a \in Blocks, Allocated(a), mem' = mem \cup {a}
  PROVE  mem' \subseteq 1..last' /\ last' \in 0..MaxBlocks
PROOF
<1>1. a \in Nat /\ a <= MaxBlocks /\ a = last + 1 /\ last' = a
  BY BlocksAssumption DEF Blocks, Allocated
<1>2. \A b \in mem : b \in 1..a
  BY <1>1
<1>. QED
  BY <1>1, <1>2, BlocksAssumption

(* Current only depends on the lists, the contexts and the hash. *)
LEMMA SameAdapters ==
  ASSUME UNCHANGED <<list, context, protAv>>
  PROVE  /\ \A x \in Contexts : Pchars(x)' = Pchars(x)
         /\ \A x \in Contexts : \A a : Current(x, a)' <=> Current(x, a)
PROOF
<1>1. \A x \in Contexts : Pchars(x)' = Pchars(x)
  BY DEF Pchars
<1>. QED
  BY <1>1 DEF Current
-----------------------------------------------------------------------------
(* The lemmas named Keeps... : an action preserves the invariant. *)
LEMMA KeepsRegisterOther ==
  ASSUME IInv, NEW h \in Protocols, RegisterOther(h)
  PROVE  IInv'
PROOF
<1>. USE DEF RegisterOther, adapters, bindings
<1>1. TypeOK'
  BY DEF IInv, TypeOK
<1>2. ASSUME NEW g \in Protocols PROVE ProtocolOK(g)'
  BY DEF IInv, TypeOK, ProtocolOK
<1>3. /\ \A x \in Contexts : Pchars(x)' = Pchars(x)
      /\ \A x \in Contexts : \A a : Current(x, a)' <=> Current(x, a)
  BY SameAdapters
<1>4. ASSUME NEW p \in Blocks PROVE ListOK(p)'
  BY <1>3 DEF IInv, ListOK, Decreasing
<1>5. ASSUME NEW x \in Contexts PROVE BindingOK(x)'
  BY <1>3, Basics DEF IInv, BindingOK
<1>6. FreshOK' /\ ForgottenOK' /\ NamesOK'
  BY DEF IInv, FreshOK, ForgottenOK, NamesOK
<1>7. OwnedOK'
  BY <1>3 DEF IInv, OwnedOK, LedTo
<1>. QED
  BY <1>1, <1>2, <1>4, <1>5, <1>6, <1>7 DEF IInv

LEMMA KeepsOpenOther ==
  ASSUME IInv, NEW z \in Contexts, OpenOther(z)
  PROVE  IInv'
PROOF
<1>. USE DEF OpenOther, protocols, adapters
<1>1. TypeOK'
  BY DEF IInv, TypeOK
<1>2. ASSUME NEW g \in Protocols PROVE ProtocolOK(g)'
  BY DEF IInv, TypeOK, ProtocolOK
<1>3. /\ \A x \in Contexts : Pchars(x)' = Pchars(x)
      /\ \A x \in Contexts : \A a : Current(x, a)' <=> Current(x, a)
  BY SameAdapters
<1>4. ASSUME NEW p \in Blocks PROVE ListOK(p)'
  BY <1>3 DEF IInv, ListOK, Decreasing
<1>5. binding' = [binding EXCEPT ![z] = "open"] /\ z \in DOMAIN binding /\ binding[z] = "closed"
  BY DEF IInv, TypeOK
<1>6. bindAv[z] = NULL /\ block[z] = NULL
  BY <1>5 DEF IInv, BindingOK
<1>7. ASSUME NEW x \in Contexts PROVE BindingOK(x)'
  BY <1>3, <1>5, <1>6 DEF IInv, BindingOK, TypeOK
<1>8. FreshOK' /\ ForgottenOK' /\ NamesOK'
  BY DEF IInv, FreshOK, ForgottenOK, NamesOK
<1>9. OwnedOK'
  BY <1>3, <1>5 DEF IInv, OwnedOK, LedTo, TypeOK
<1>. QED
  BY <1>1, <1>2, <1>4, <1>7, <1>8, <1>9 DEF IInv

LEMMA KeepsRegister ==
  ASSUME IInv, NEW h \in Protocols, Register(h)
  PROVE  IInv'
PROOF
<1>. USE DEF Register, adapters, bindings
<1>1. PICK p \in Blocks : /\ Allocated(p) /\ mem' = mem \cup {p}
                          /\ stub' = [stub EXCEPT ![h] = p]
  OBVIOUS
<1>2. /\ last' = p /\ p > last /\ p \notin mem /\ p # NULL /\ p \in Nat
      /\ context[p] = NULL /\ list[p] = <<>>
  BY <1>1, Basics, BlocksAssumption DEF Allocated, Blocks, IInv, FreshOK
<1>3. /\ protocol[h] = "none" /\ stub[h] = NULL /\ protAv[h] = NULL
      /\ protocol' = [protocol EXCEPT ![h] = "saving"]
  BY DEF IInv, ProtocolOK
<1>4. TypeOK'
  <2>1. mem' \subseteq 1..last' /\ last' \in 0..MaxBlocks
    BY <1>1, <1>2, Basics, AllocatedOK DEF IInv, TypeOK
  <2>. QED
    BY <1>1, <1>3, <2>1 DEF IInv, TypeOK, OrNull
<1>5. ASSUME NEW g \in Protocols PROVE ProtocolOK(g)'
  <2>1. \A k \in Protocols : stub[k] # p
    BY <1>2 DEF IInv, ProtocolOK
  <2>2. stub' = [k \in Protocols |-> IF k = h THEN p ELSE stub[k]]
    BY <1>1 DEF IInv, TypeOK
  <2>3. protocol' = [k \in Protocols |-> IF k = h THEN "saving" ELSE protocol[k]]
    BY <1>3 DEF IInv, TypeOK
  <2>. QED
    BY <1>1, <1>2, <1>3, <2>1, <2>2, <2>3 DEF IInv, ProtocolOK
<1>6. /\ \A x \in Contexts : Pchars(x)' = Pchars(x)
      /\ \A x \in Contexts : \A a : Current(x, a)' <=> Current(x, a)
  BY SameAdapters
<1>7. ASSUME NEW q \in Blocks PROVE ListOK(q)'
  <2>1. Range(list[p]) = {}
    BY <1>2 DEF Range
  <2>. QED
    BY <1>1, <1>6, <2>1 DEF IInv, ListOK, Decreasing
<1>8. ASSUME NEW x \in Contexts PROVE BindingOK(x)'
  BY <1>1, <1>6 DEF IInv, BindingOK
<1>9. FreshOK'
  BY <1>2, Basics DEF IInv, FreshOK, Blocks
<1>10. ForgottenOK' /\ NamesOK'
  BY <1>1 DEF IInv, ForgottenOK, NamesOK
<1>11. ASSUME NEW b \in Blocks PROVE b \in (mem \ forgotten)' <=> LedTo(b)'
  <2>1. p \notin forgotten
    BY <1>2 DEF IInv, ForgottenOK
  <2>2. stub' = [k \in Protocols |-> IF k = h THEN p ELSE stub[k]]
    BY <1>1 DEF IInv, TypeOK
  <2>3. b # NULL
    BY Basics
  <2>4. CASE b = p
    BY <1>1, <2>1, <2>2, <2>4 DEF LedTo
  <2>5. CASE b # p
    <3>1. LedTo(b)' <=> LedTo(b)
      BY <1>3, <1>6, <2>2, <2>3, <2>5 DEF LedTo
    <3>. QED
      BY <1>1, <2>5, <3>1 DEF IInv, OwnedOK
  <2>. QED
    BY <2>4, <2>5
<1>. QED
  BY <1>4, <1>5, <1>7, <1>8, <1>9, <1>10, <1>11 DEF IInv, OwnedOK

LEMMA KeepsSave ==
  ASSUME IInv, NEW h \in Protocols, Save(h)
  PROVE  IInv'
PROOF
<1>. USE DEF Save, adapters, bindings
<1>. DEFINE q == stub[h]
<1>1. /\ protocol[h] = "saving" /\ protAv[h] = NULL
      /\ q \in mem /\ q # NULL /\ q \in Blocks
      /\ \A g \in Protocols : stub[g] = q => g = h
  BY Basics DEF IInv, ProtocolOK
<1>2. /\ protAv' = [g \in Protocols |-> IF g = h THEN q ELSE protAv[g]]
      /\ protocol' = [g \in Protocols |-> IF g = h THEN "registered" ELSE protocol[g]]
  BY DEF IInv, TypeOK
<1>3. TypeOK'
  BY <1>1 DEF IInv, TypeOK, OrNull, SetTcpip
<1>4. ASSUME NEW g \in Protocols PROVE ProtocolOK(g)'
  BY <1>1, <1>2 DEF IInv, ProtocolOK
<1>5. \A x \in Contexts : Pchars(x)' = IF ProtocolOf[x] = h THEN q ELSE Pchars(x)
  BY <1>2, Basics DEF Pchars
<1>6. ASSUME NEW p \in Blocks PROVE ListOK(p)'
  <2>1. ASSUME p \in mem, NEW a \in Range(list[p])
        PROVE  p = Pchars(context[a])'
    <3>1. context[a] \in Contexts /\ p = Pchars(context[a])
      BY <2>1 DEF IInv, ListOK
    <3>2. ProtocolOf[context[a]] # h
      BY <1>1, <3>1, Basics DEF Pchars
    <3>. QED
      BY <1>5, <3>1, <3>2
  <2>. QED
    BY <2>1 DEF IInv, ListOK, Decreasing
<1>7. ASSUME NEW a \in Range(list[q]) PROVE FALSE
  <2>1. context[a] \in Contexts /\ q = Pchars(context[a])
    BY <1>1, <1>7 DEF IInv, ListOK
  <2>. DEFINE g == ProtocolOf[context[a]]
  <2>2. g \in Protocols /\ protAv[g] = q
    BY <2>1, Basics DEF Pchars
  <2>3. g = h
    BY <1>1, <2>2 DEF IInv, ProtocolOK
  <2>. QED
    BY <1>1, <2>2, <2>3
<1>8. \A x \in Contexts : \A a : Current(x, a)' <=> Current(x, a)
  <2>1. ASSUME NEW x \in Contexts, NEW a PROVE Current(x, a)' <=> Current(x, a)
    <3>1. CASE ProtocolOf[x] = h
      <4>1. ~ Current(x, a)
        BY <1>1, <3>1 DEF Current, Pchars
      <4>2. ~ Current(x, a)'
        BY <1>5, <1>7, <3>1 DEF Current
      <4>. QED
        BY <4>1, <4>2
    <3>2. CASE ProtocolOf[x] # h
      BY <1>5, <3>2 DEF Current
    <3>. QED
      BY <3>1, <3>2
  <2>. QED
    BY <2>1
<1>9. ASSUME NEW x \in Contexts PROVE BindingOK(x)'
  <2>1. Pchars(x) # NULL => Pchars(x)' # NULL
    BY <1>1, <1>5
  <2>. QED
    BY <1>8, <2>1 DEF IInv, BindingOK
<1>10. FreshOK' /\ ForgottenOK' /\ NamesOK'
  BY DEF IInv, FreshOK, ForgottenOK, NamesOK
<1>11. OwnedOK'
  BY <1>8 DEF IInv, OwnedOK, LedTo
<1>. QED
  BY <1>3, <1>4, <1>6, <1>9, <1>10, <1>11 DEF IInv

(* A PROTOCOL_CHARS is freed when no adapter of its protocol is open: when *)
(* it cannot be put in the hash and when the protocol deregisters.         *)
LEMMA PcharsFreed ==
  ASSUME IInv, NEW h \in Protocols,
         \A x \in Mine(h) : binding[x] # "opening" /\ bindAv[x] = NULL /\ block[x] = NULL,
         protocol[h] = "registered" \/ protAv[h] = NULL,
         mem' = mem \ {stub[h]},
         protAv' = [protAv EXCEPT ![h] = NULL],
         stub' = [stub EXCEPT ![h] = NULL],
         protocol' = [protocol EXCEPT ![h] = "none"],
         binding' = [x \in Contexts |-> IF x \in Mine(h) THEN "closed" ELSE binding[x]],
         tcpip' \in {tcpip, stub[h]},
         UNCHANGED <<last, adapters, bindAv, block, forgotten>>
  PROVE  IInv'
PROOF
<1>. USE DEF adapters
<1>. DEFINE q == stub[h]
<1>1. /\ q = NULL \/ (q \in Blocks /\ context[q] \notin Contexts)
      /\ protAv[h] = q \/ protAv[h] = NULL
      /\ \A g \in Protocols : stub[g] = q => g = h \/ q = NULL
  BY Basics DEF IInv, ProtocolOK
<1>2. /\ protAv' = [g \in Protocols |-> IF g = h THEN NULL ELSE protAv[g]]
      /\ protocol' = [g \in Protocols |-> IF g = h THEN "none" ELSE protocol[g]]
      /\ stub' = [g \in Protocols |-> IF g = h THEN NULL ELSE stub[g]]
  BY DEF IInv, TypeOK
<1>3. TypeOK'
  BY <1>1 DEF IInv, TypeOK, OrNull
<1>4. ASSUME NEW g \in Protocols PROVE ProtocolOK(g)'
  <2>1. CASE g = h
    BY <1>2, <2>1 DEF ProtocolOK
  <2>2. CASE g # h
    BY <1>1, <1>2, <2>2 DEF IInv, ProtocolOK
  <2>. QED
    BY <2>1, <2>2
<1>5. \A x \in Contexts : Pchars(x)' = IF x \in Mine(h) THEN NULL ELSE Pchars(x)
  BY <1>2, Basics DEF Pchars, Mine
<1>6. \A x \in Contexts : \A a : Current(x, a)' <=> Current(x, a) /\ x \notin Mine(h)
  <2>1. ASSUME NEW x \in Contexts, NEW a
        PROVE  Current(x, a)' <=> Current(x, a) /\ x \notin Mine(h)
    <3>1. CASE x \in Mine(h)
      BY <1>5, <3>1 DEF Current
    <3>2. CASE x \notin Mine(h)
      BY <1>5, <3>2 DEF Current
    <3>. QED
      BY <3>1, <3>2
  <2>. QED
    BY <2>1
<1>7. \A a \in mem : context[a] \in Contexts => a \in mem'
  BY <1>1, Basics
<1>8. ASSUME NEW p \in Blocks PROVE ListOK(p)'
  <2>1. ASSUME p \in mem', NEW a \in Range(list[p])
        PROVE  a \in mem' /\ context[a] \in Contexts /\ p = Pchars(context[a])'
    <3>1. a \in mem /\ context[a] \in Contexts /\ p = Pchars(context[a])
      BY <2>1 DEF IInv, ListOK
    <3>2. context[a] \notin Mine(h)
      BY <1>1, <2>1, <3>1, Basics DEF Pchars, Mine
    <3>. QED
      BY <1>5, <1>7, <3>1, <3>2
  <2>. QED
    BY <2>1 DEF IInv, ListOK, Decreasing
<1>9. ASSUME NEW x \in Contexts PROVE BindingOK(x)'
  <2>1. CASE x \in Mine(h)
    BY <2>1 DEF BindingOK
  <2>2. CASE x \notin Mine(h)
    <3>1. binding'[x] = binding[x] /\ Pchars(x)' = Pchars(x) /\ \A a : Current(x, a)' <=> Current(x, a)
      BY <1>5, <1>6, <2>2
    <3>2. BindingOK(x)
      BY DEF IInv
    <3>3. \A a \in mem : Current(x, a) => a \in mem'
      BY <1>7, CurrentOnce
    <3>4. bindAv[x] # NULL => bindAv[x] \in mem'
      BY <3>2, <3>3 DEF BindingOK
    <3>. QED
      BY <3>1, <3>2, <3>3, <3>4 DEF BindingOK
  <2>. QED
    BY <2>1, <2>2
<1>10. FreshOK' /\ ForgottenOK' /\ NamesOK'
  BY <1>7 DEF IInv, FreshOK, ForgottenOK, NamesOK
<1>11. ASSUME NEW b \in Blocks PROVE b \in (mem \ forgotten)' <=> LedTo(b)'
  <2>1. b # NULL
    BY Basics
  <2>2. CASE b = q
    <3>1. \A g \in Protocols : stub'[g] # b
      BY <1>1, <1>2, <2>1, <2>2
    <3>2. \A x \in Contexts : bindAv[x] # b /\ ~ (binding'[x] = "opening" /\ Current(x, b)')
      <4>1. ASSUME NEW x \in Contexts PROVE ~ Current(x, b) /\ bindAv[x] # b
        <5>1. ~ Current(x, b)
          BY <1>1, <2>1, <2>2, CurrentOnce
        <5>2. bindAv[x] # NULL => Current(x, bindAv[x])
          BY DEF IInv, BindingOK
        <5>. QED
          BY <2>1, <5>1, <5>2
      <4>. QED
        BY <1>6, <4>1
    <3>. QED
      BY <2>2, <3>1, <3>2 DEF LedTo
  <2>3. CASE b # q
    <3>1. (\E g \in Protocols : stub'[g] = b) <=> (\E g \in Protocols : stub[g] = b)
      BY <1>2, <2>1, <2>3
    <3>2. (\E x \in Contexts : binding'[x] = "opening" /\ Current(x, b)')
            <=> (\E x \in Contexts : binding[x] = "opening" /\ Current(x, b))
      BY <1>6
    <3>3. LedTo(b)' <=> LedTo(b)
      BY <3>1, <3>2 DEF LedTo
    <3>. QED
      BY <2>3, <3>3 DEF IInv, OwnedOK
  <2>. QED
    BY <2>2, <2>3
<1>. QED
  BY <1>3, <1>4, <1>8, <1>9, <1>10, <1>11 DEF IInv, OwnedOK

LEMMA KeepsSaveFails ==
  ASSUME IInv, NEW h \in Protocols, SaveFails(h)
  PROVE  IInv'
PROOF
<1>1. protocol[h] = "saving" /\ protAv[h] = NULL
  BY DEF IInv, ProtocolOK, SaveFails
<1>2. protAv' = [protAv EXCEPT ![h] = NULL]
  BY <1>1 DEF IInv, TypeOK, SaveFails
<1>3. ASSUME NEW x \in Mine(h)
      PROVE  binding[x] # "opening" /\ bindAv[x] = NULL /\ block[x] = NULL
  <2>1. x \in Contexts /\ Pchars(x) = NULL
    BY <1>1 DEF Mine, Pchars
  <2>. QED
    BY <2>1 DEF IInv, BindingOK, Current
<1>4. tcpip' \in {tcpip, stub[h]}
  BY DEF SaveFails, SetTcpip
<1>. QED
  BY <1>1, <1>2, <1>3, <1>4, PcharsFreed DEF SaveFails, adapters

LEMMA KeepsDeregister ==
  ASSUME IInv, NEW h \in Protocols, Deregister(h)
  PROVE  IInv'
PROOF
<1>1. protocol[h] = "registered" /\ protAv[h] = stub[h]
  BY DEF IInv, ProtocolOK, Deregister
<1>2. ASSUME NEW x \in Mine(h)
      PROVE  binding[x] # "opening" /\ bindAv[x] = NULL /\ block[x] = NULL
  <2>1. x \in Contexts /\ binding[x] = "closed"
    BY DEF Mine, Deregister
  <2>. QED
    BY <2>1 DEF IInv, BindingOK
<1>3. binding' = [x \in Contexts |-> IF x \in Mine(h) THEN "closed" ELSE binding[x]]
  <2>1. \A x \in Mine(h) : binding[x] = "closed"
    BY DEF Deregister
  <2>2. binding = [x \in Contexts |-> binding[x]]
    BY DEF IInv, TypeOK
  <2>3. binding' = binding
    BY DEF Deregister, bindings
  <2>. QED
    BY <2>1, <2>2, <2>3
<1>4. mem' = mem \ {stub[h]} /\ tcpip' \in {tcpip, stub[h]}
  BY <1>1 DEF Deregister
<1>. QED
  BY <1>1, <1>2, <1>3, <1>4, PcharsFreed DEF Deregister, adapters, bindings
-----------------------------------------------------------------------------
LEMMA KeepsOpen ==
  ASSUME IInv, NEW z \in Contexts, Open(z)
  PROVE  IInv'
PROOF
<1>. USE DEF Open, protocols
<1>. DEFINE p == Pchars(z)
<1>1. PICK a \in Blocks : /\ Allocated(a) /\ mem' = mem \cup {a}
                          /\ list' = [list EXCEPT ![p] = Link(@, a)]
                          /\ context' = [context EXCEPT ![a] = z]
  OBVIOUS
<1>2. /\ last' = a /\ a > last /\ a \notin mem /\ a # NULL /\ a \in Nat
      /\ context[a] = NULL /\ list[a] = <<>> /\ index[a] = 0
  BY <1>1, Basics, BlocksAssumption DEF Allocated, Blocks, IInv, FreshOK
<1>3. p \in Blocks /\ p \in mem /\ p # a
  <2>1. p \in Blocks /\ p # NULL
    BY Basics
  <2>2. p \in mem
    BY <2>1, Basics DEF IInv, ProtocolOK, Pchars
  <2>. QED
    BY <1>2, <2>1, <2>2
<1>4. list[p] \in Seq(Blocks) /\ Decreasing(list[p]) /\ \A b \in Range(list[p]) : b \in mem /\ b < a
  <2>1. \A b \in mem : b < a
    BY <1>2, Basics
  <2>. QED
    BY <1>3, <2>1 DEF IInv, TypeOK, ListOK
<1>5. /\ list'[p] \in Seq(Blocks) /\ Decreasing(list'[p])
      /\ Range(list'[p]) = Range(list[p]) \cup {a}
  <2>1. list'[p] = Link(list[p], a)
    BY <1>1, <1>3 DEF IInv, TypeOK
  <2>. QED
    BY <1>4, <2>1, LinkedIn
<1>6. /\ \A q \in Blocks : q # p => list'[q] = list[q]
      /\ \A b \in Blocks : context'[b] = IF b = a THEN z ELSE context[b]
      /\ \A x \in Contexts : binding'[x] = IF x = z THEN "opening" ELSE binding[x]
      /\ \A x \in Contexts : Pchars(x)' = Pchars(x)
  BY <1>1 DEF IInv, TypeOK, Pchars
<1>7. binding[z] = "closed" /\ bindAv[z] = NULL /\ block[z] = NULL
  BY DEF IInv, BindingOK
<1>8. TypeOK'
  <2>1. mem' \subseteq 1..last' /\ last' \in 0..MaxBlocks
    BY <1>1, <1>2, Basics, AllocatedOK DEF IInv, TypeOK
  <2>2. list' \in [Blocks -> Seq(Blocks)]
    <3>1. list \in [Blocks -> Seq(Blocks)]
      BY DEF IInv, TypeOK
    <3>2. \A q \in Blocks : list'[q] \in Seq(Blocks)
      BY <1>5, <1>6, <3>1
    <3>3. list' = [q \in Blocks |-> list'[q]]
      BY <1>1, <3>1
    <3>. QED
      BY <3>2, <3>3
  <2>3. context' \in [Blocks -> OrNull(Contexts)]
    BY <1>1 DEF IInv, TypeOK, OrNull
  <2>. QED
    BY <2>1, <2>2, <2>3 DEF IInv, TypeOK
<1>9. FreshOK'
  <2>1. ASSUME NEW b \in Blocks, b > a PROVE context'[b] = NULL /\ list'[b] = <<>> /\ index[b] = 0
    <3>1. b > last /\ b # a /\ b # p
      BY <1>2, <1>3, <2>1, Basics DEF Blocks
    <3>. QED
      BY <1>6, <3>1 DEF IInv, FreshOK
  <2>. QED
    BY <1>2, <2>1 DEF FreshOK
<1>10. ASSUME NEW g \in Protocols PROVE ProtocolOK(g)'
  <2>1. stub[g] # NULL => stub[g] \in Blocks /\ stub[g] # a
    BY <1>2, Basics DEF IInv, ProtocolOK
  <2>. QED
    BY <1>1, <1>6, <2>1 DEF IInv, ProtocolOK
<1>11. ASSUME NEW q \in Blocks PROVE ListOK(q)'
  <2>1. ASSUME NEW b \in mem, context[b] \in Contexts, q = Pchars(context[b])
        PROVE  b \in mem' /\ context'[b] \in Contexts /\ q = Pchars(context[b])'
    <3>1. b \in Blocks /\ b # a
      BY <1>2, Basics
    <3>2. context'[b] = context[b]
      BY <1>6, <3>1
    <3>. QED
      BY <1>1, <2>1, <3>2 DEF Pchars
  <2>2. CASE q = p
    <3>1. context'[a] = z /\ a \in mem' /\ p = Pchars(context[a])'
      BY <1>1, <1>6 DEF Pchars
    <3>2. ASSUME NEW b \in Range(list'[q])
          PROVE  b \in mem' /\ context'[b] \in Contexts /\ q = Pchars(context[b])'
      <4>1. CASE b = a
        BY <2>2, <3>1, <4>1
      <4>2. CASE b # a
        <5>1. b \in Range(list[p])
          BY <1>5, <2>2, <3>2, <4>2
        <5>2. b \in mem /\ context[b] \in Contexts /\ p = Pchars(context[b])
          BY <1>3, <5>1 DEF IInv, ListOK
        <5>. QED
          BY <2>1, <2>2, <5>2
      <4>. QED
        BY <4>1, <4>2
    <3>. QED
      BY <1>5, <2>2, <3>2 DEF ListOK, Decreasing
  <2>3. CASE q = a
    <3>1. list'[q] = <<>>
      BY <1>2, <1>3, <1>6, <2>3
    <3>. QED
      BY <3>1 DEF ListOK, Decreasing, Range
  <2>4. CASE q # a /\ q # p
    <3>1. list'[q] = list[q] /\ (q \in mem' <=> q \in mem)
      BY <1>1, <1>6, <2>4
    <3>2. ListOK(q)
      BY DEF IInv
    <3>. QED
      BY <2>1, <3>1, <3>2 DEF ListOK, Decreasing
  <2>. QED
    BY <2>2, <2>3, <2>4
<1>12. \A b : Current(z, b)' <=> b = a
  <2>1. Current(z, a)'
    <3>1. \A b \in Blocks : context'[b] = z => b <= a
      <4>1. \A b \in Blocks : b > last => context[b] # z
        BY Basics DEF IInv, FreshOK
      <4>. QED
        BY <1>2, <1>6, <4>1, Basics DEF Blocks
    <3>. QED
      BY <1>3, <1>5, <1>6, <3>1, Basics DEF Current
  <2>2. ASSUME NEW b, Current(z, b)' PROVE b = a
    <3>1. b \in Range(list'[p]) /\ a <= b
      BY <1>1, <1>6, <2>2 DEF Current
    <3>. QED
      BY <1>2, <1>4, <1>5, <3>1, Basics
  <2>. QED
    BY <2>1, <2>2
<1>13. ASSUME NEW x \in Contexts, x # z, NEW b PROVE Current(x, b)' <=> Current(x, b)
  <2>1. Pchars(x)' = Pchars(x)
    BY <1>6
  <2>2. Pchars(x) # NULL => \A c : c \in Range(list'[Pchars(x)]) <=>
                                  c \in Range(list[Pchars(x)]) \/ (c = a /\ Pchars(x) = p)
    BY <1>5, <1>6, Basics
  <2>3. \A c \in Blocks : context'[c] = x <=> context[c] = x
    BY <1>2, <1>6, <1>13, Basics
  <2>4. Pchars(x) # NULL => \A c \in Range(list[Pchars(x)]) : c \in Blocks
    <3>1. Pchars(x) # NULL => list[Pchars(x)] \in Seq(Blocks)
      BY Basics DEF IInv, TypeOK
    <3>. QED
      BY <3>1 DEF Range
  <2>5. context'[a] # x /\ context[a] # x
    BY <1>2, <1>6, <1>13, Basics
  <2>. QED
    BY <1>1, <2>1, <2>2, <2>3, <2>4, <2>5 DEF Current
<1>14. ASSUME NEW x \in Contexts PROVE BindingOK(x)'
  <2>1. CASE x = z
    <3>1. a \in (mem \ forgotten)'
      BY <1>1, <1>2 DEF IInv, ForgottenOK
    <3>. QED
      BY <1>6, <1>7, <1>12, <2>1, <3>1 DEF BindingOK
  <2>2. CASE x # z
    <3>1. \A b : Current(x, b)' <=> Current(x, b)
      BY <1>13, <2>2
    <3>. QED
      BY <1>1, <1>6, <2>2, <3>1 DEF IInv, BindingOK
  <2>. QED
    BY <2>1, <2>2
<1>15. ForgottenOK' /\ NamesOK'
  <2>1. ForgottenOK'
    <3>1. \A b \in mem : context'[b] = context[b]
      BY <1>2, <1>6, Basics
    <3>. QED
      BY <1>1, <3>1 DEF IInv, ForgottenOK
  <2>2. NamesOK'
    BY <1>2, <1>6 DEF IInv, NamesOK
  <2>. QED
    BY <2>1, <2>2
<1>16. ASSUME NEW b \in Blocks PROVE b \in (mem \ forgotten)' <=> LedTo(b)'
  <2>1. CASE b = a
    <3>1. a \notin forgotten
      BY <1>2 DEF IInv, ForgottenOK
    <3>2. LedTo(a)'
      BY <1>6, <1>12 DEF LedTo
    <3>. QED
      BY <1>1, <2>1, <3>1, <3>2
  <2>2. CASE b # a
    <3>1. (\E x \in Contexts : binding'[x] = "opening" /\ Current(x, b)')
            <=> (\E x \in Contexts : binding[x] = "opening" /\ Current(x, b))
      BY <1>6, <1>7, <1>12, <1>13, <2>2
    <3>2. LedTo(b)' <=> LedTo(b)
      BY <3>1 DEF LedTo
    <3>. QED
      BY <1>1, <2>2, <3>2 DEF IInv, OwnedOK
  <2>. QED
    BY <2>1, <2>2
<1>. QED
  BY <1>8, <1>9, <1>10, <1>11, <1>14, <1>15, <1>16 DEF IInv, OwnedOK
-----------------------------------------------------------------------------
(* An adapter is freed when its open fails or ends with another medium     *)
(* before the call returns, and when its binding is closed.                *)
LEMMA AdapterFreed ==
  ASSUME IInv, NEW z \in Contexts, NEW a \in mem \ forgotten, Current(z, a),
         NEW v \in {"closed", "open", "closing"},
         bindAv[z] \in {a, NULL}, block[z] # NULL => v = "closing",
         Destroy(a, Pchars(z)),
         binding' = [binding EXCEPT ![z] = v],
         bindAv' = [bindAv EXCEPT ![z] = NULL],
         UNCHANGED <<last, protocols, context, index, names, block, forgotten>>
  PROVE  IInv'
PROOF
<1>. USE DEF protocols
<1>. DEFINE p == Pchars(z)
<1>1. /\ p \in Blocks /\ p # NULL /\ a \in Blocks /\ a # NULL
      /\ context[a] = z /\ a \in Range(list[p])
      /\ mem' = mem \ {a} /\ list' = [list EXCEPT ![p] = Unlink(@, a)]
  BY Basics, CurrentOnce DEF Current, Destroy, Destroyed
<1>2. list[p] \in Seq(Blocks) /\ Decreasing(list[p])
  BY <1>1 DEF IInv, TypeOK, ListOK
<1>3. /\ list'[p] \in Seq(Blocks) /\ Decreasing(list'[p])
      /\ Range(list'[p]) = Range(list[p]) \ {a}
  <2>1. list'[p] = Unlink(list[p], a)
    BY <1>1 DEF IInv, TypeOK
  <2>. QED
    BY <1>1, <1>2, <2>1, Unlinked
<1>4. /\ \A q \in Blocks : q # p => list'[q] = list[q]
      /\ \A x \in Contexts : binding'[x] = IF x = z THEN v ELSE binding[x]
      /\ \A x \in Contexts : bindAv'[x] = IF x = z THEN NULL ELSE bindAv[x]
      /\ \A x \in Contexts : Pchars(x)' = Pchars(x)
  BY <1>1 DEF IInv, TypeOK, Pchars
<1>5. TypeOK'
  <2>1. list' \in [Blocks -> Seq(Blocks)]
    <3>1. list \in [Blocks -> Seq(Blocks)]
      BY DEF IInv, TypeOK
    <3>2. \A q \in Blocks : list'[q] \in Seq(Blocks)
      BY <1>3, <1>4, <3>1
    <3>3. list' = [q \in Blocks |-> list'[q]]
      BY <1>1, <3>1
    <3>. QED
      BY <3>2, <3>3
  <2>2. bindAv' \in [Contexts -> OrNull(Blocks)]
    BY DEF IInv, TypeOK, OrNull
  <2>. QED
    BY <1>1, <2>1, <2>2 DEF IInv, TypeOK
<1>6. \A b \in mem : context[b] # z \/ ~ Current(z, b) => b \in mem'
  BY <1>1
<1>7. ASSUME NEW g \in Protocols PROVE ProtocolOK(g)'
  <2>1. stub[g] # NULL => stub[g] # a
    BY <1>1, Basics
  <2>. QED
    BY <1>1, <2>1 DEF IInv, ProtocolOK
<1>8. ASSUME NEW x \in Contexts, NEW b \in Range(list[Pchars(x)]), Pchars(x) # NULL
      PROVE  b = a => Pchars(x) = p
  <2>1. Pchars(x) \in mem
    BY <1>8, Basics DEF IInv, ProtocolOK, Pchars
  <2>. QED
    BY <1>1, <1>8, <2>1, Basics DEF IInv, ListOK
<1>9. ASSUME NEW x \in Contexts, NEW b PROVE Current(x, b)' <=> Current(x, b) /\ b # a
  <2>1. Pchars(x) # NULL => (b \in Range(list'[Pchars(x)]) <=> b \in Range(list[Pchars(x)]) /\ b # a)
    <3>1. CASE Pchars(x) = p
      BY <1>3, <3>1
    <3>2. CASE Pchars(x) # p
      BY <1>4, <1>8, <3>2, Basics
    <3>. QED
      BY <3>1, <3>2
  <2>. QED
    BY <1>4, <2>1 DEF Current
<1>10. ASSUME NEW q \in Blocks PROVE ListOK(q)'
  <2>1. Decreasing(list'[q])
    BY <1>3, <1>4 DEF IInv, ListOK
  <2>2. ASSUME q \in mem', NEW b \in Range(list'[q])
        PROVE  b \in mem' /\ context'[b] \in Contexts /\ q = Pchars(context[b])'
    <3>1. q \in mem /\ b \in Range(list[q])
      BY <1>1, <1>3, <1>4, <2>2
    <3>2. b \in mem /\ context[b] \in Contexts /\ q = Pchars(context[b])
      BY <3>1 DEF IInv, ListOK
    <3>3. b # a
      BY <1>1, <1>3, <2>2, <3>2
    <3>. QED
      BY <1>1, <1>4, <3>2, <3>3
  <2>. QED
    BY <2>1, <2>2 DEF ListOK, Decreasing
<1>11. ASSUME NEW x \in Contexts, x # z PROVE BindingOK(x)'
  <2>1. BindingOK(x)
    BY DEF IInv
  <2>2. \A b \in mem : Current(x, b) => b \in mem' /\ Current(x, b)'
    BY <1>1, <1>9, <1>11, CurrentOnce
  <2>3. bindAv[x] # NULL => Current(x, bindAv[x])
    BY <2>1 DEF BindingOK
  <2>4. block[x] # NULL /\ binding[x] = "open" => Current(x, block[x])'
    <3>1. block[x] # NULL /\ binding[x] = "open" => Current(x, block[x])
      BY <2>1 DEF BindingOK
    <3>. QED
      BY <1>1, <1>9, <1>11, <3>1, CurrentOnce
  <2>. QED
    BY <1>4, <1>11, <2>1, <2>2, <2>3, <2>4 DEF BindingOK
<1>12. BindingOK(z)'
  BY <1>1, <1>4 DEF IInv, BindingOK
<1>13. FreshOK'
  <2>1. ASSUME NEW b \in Blocks, b > last PROVE b # p
    <3>1. p \in mem
      BY <1>1, Basics DEF IInv, ProtocolOK, Pchars
    <3>. QED
      BY <2>1, <3>1, Basics
  <2>. QED
    BY <1>4, <2>1 DEF IInv, FreshOK
<1>14. ForgottenOK' /\ NamesOK'
  BY <1>1 DEF IInv, ForgottenOK, NamesOK
<1>15. ASSUME NEW b \in Blocks PROVE b \in (mem \ forgotten)' <=> LedTo(b)'
  <2>1. b # NULL
    BY Basics
  <2>2. CASE b = a
    <3>1. \A g \in Protocols : stub[g] # a
      BY <1>1, Basics
    <3>2. ASSUME NEW x \in Contexts PROVE bindAv'[x] # a
      <4>1. x # z /\ bindAv[x] # NULL => Current(x, bindAv[x])
        BY DEF IInv, BindingOK
      <4>. QED
        BY <1>1, <1>4, <4>1, CurrentOnce
    <3>3. \A x \in Contexts : ~ Current(x, a)'
      BY <1>9
    <3>. QED
      BY <1>1, <2>2, <3>1, <3>2, <3>3 DEF LedTo
  <2>3. CASE b # a
    <3>1. (\E x \in Contexts : bindAv'[x] = b) <=> (\E x \in Contexts : bindAv[x] = b)
      BY <1>4, <2>1, <2>3
    <3>2. (\E x \in Contexts : binding'[x] = "opening" /\ Current(x, b)')
            <=> (\E x \in Contexts : binding[x] = "opening" /\ Current(x, b))
      BY <1>4, <1>9, <2>3, CurrentOnce
    <3>3. LedTo(b)' <=> LedTo(b)
      BY <3>1, <3>2 DEF LedTo
    <3>. QED
      BY <1>1, <2>3, <3>3 DEF IInv, OwnedOK
  <2>. QED
    BY <2>2, <2>3
<1>. QED
  BY <1>5, <1>7, <1>10, <1>11, <1>12, <1>13, <1>14, <1>15 DEF IInv, OwnedOK

LEMMA KeepsReturns ==
  ASSUME IInv, NEW z \in Contexts, ReturnsFailure(z) \/ ReturnsOtherMedium(z)
  PROVE  IInv'
PROOF
<1>1. binding[z] = "opening" /\ Destroy(Found(z), Pchars(z))
  BY DEF ReturnsFailure, ReturnsOtherMedium
<1>2. /\ Current(z, Found(z)) /\ Found(z) \in mem \ forgotten
      /\ bindAv[z] = NULL /\ block[z] = NULL
  BY <1>1, Opening
<1>3. bindAv' = [bindAv EXCEPT ![z] = NULL]
  BY <1>2 DEF IInv, TypeOK, ReturnsFailure, ReturnsOtherMedium
<1>4. /\ \E v \in {"closed", "open"} : binding' = [binding EXCEPT ![z] = v]
      /\ UNCHANGED <<last, protocols, context, index, names, block, forgotten>>
  BY DEF ReturnsFailure, ReturnsOtherMedium
<1>5. PICK v \in {"closed", "open", "closing"} : binding' = [binding EXCEPT ![z] = v]
  BY <1>4
<1>. QED
  BY <1>1, <1>2, <1>3, <1>4, <1>5, AdapterFreed

LEMMA KeepsClose ==
  ASSUME IInv, NEW z \in Contexts, Close(z)
  PROVE  IInv'
PROOF
<1>. USE DEF Close, AfterClose
<1>1. CASE bindAv[z] # NULL
  <2>1. Current(z, bindAv[z]) /\ bindAv[z] \in mem \ forgotten
    BY <1>1 DEF IInv, BindingOK
  <2>. QED
    BY <1>1, <2>1, AdapterFreed
<1>2. CASE bindAv[z] = NULL
  <2>. USE DEF protocols
  <2>1. /\ UNCHANGED <<mem, last, protocols, adapters, bindAv, block, forgotten>>
        /\ \A x \in Contexts : binding'[x] = IF x = z THEN "closing" ELSE binding[x]
    BY <1>2 DEF IInv, TypeOK, adapters
  <2>. USE DEF adapters
  <2>2. TypeOK'
    BY <2>1 DEF IInv, TypeOK
  <2>3. /\ \A x \in Contexts : Pchars(x)' = Pchars(x)
        /\ \A x \in Contexts : \A a : Current(x, a)' <=> Current(x, a)
    BY <2>1, SameAdapters
  <2>4. ASSUME NEW g \in Protocols PROVE ProtocolOK(g)'
    BY <2>1 DEF IInv, ProtocolOK
  <2>5. ASSUME NEW p \in Blocks PROVE ListOK(p)'
    BY <2>1, <2>3 DEF IInv, ListOK, Decreasing
  <2>6. ASSUME NEW x \in Contexts PROVE BindingOK(x)'
    BY <1>2, <2>1, <2>3 DEF IInv, BindingOK
  <2>7. FreshOK' /\ ForgottenOK' /\ NamesOK'
    BY <2>1 DEF IInv, FreshOK, ForgottenOK, NamesOK
  <2>8. OwnedOK'
    BY <2>1, <2>3 DEF IInv, OwnedOK, LedTo
  <2>. QED
    BY <2>2, <2>4, <2>5, <2>6, <2>7, <2>8 DEF IInv
<1>. QED
  BY <1>1, <1>2

LEMMA KeepsClosed ==
  ASSUME IInv, NEW z \in Contexts, Closed(z)
  PROVE  IInv'
PROOF
<1>. USE DEF Closed, protocols, adapters
<1>1. /\ \A x \in Contexts : binding'[x] = IF x = z THEN "closed" ELSE binding[x]
      /\ \A x \in Contexts : block'[x] = IF x = z THEN NULL ELSE block[x]
      /\ binding[z] = "closing" /\ bindAv[z] = NULL
  BY DEF IInv, TypeOK, BindingOK
<1>2. TypeOK'
  BY DEF IInv, TypeOK, OrNull
<1>3. /\ \A x \in Contexts : Pchars(x)' = Pchars(x)
      /\ \A x \in Contexts : \A a : Current(x, a)' <=> Current(x, a)
  BY SameAdapters
<1>4. ASSUME NEW g \in Protocols PROVE ProtocolOK(g)'
  BY DEF IInv, ProtocolOK
<1>5. ASSUME NEW p \in Blocks PROVE ListOK(p)'
  BY <1>3 DEF IInv, ListOK, Decreasing
<1>6. ASSUME NEW x \in Contexts PROVE BindingOK(x)'
  BY <1>1, <1>3 DEF IInv, BindingOK
<1>7. FreshOK' /\ ForgottenOK' /\ NamesOK'
  BY DEF IInv, FreshOK, ForgottenOK, NamesOK
<1>8. OwnedOK'
  BY <1>1, <1>3 DEF IInv, OwnedOK, LedTo
<1>. QED
  BY <1>2, <1>4, <1>5, <1>6, <1>7, <1>8 DEF IInv

(* An adapter is forgotten, hooked or not, when its open is completed.     *)
LEMMA Forgets ==
  ASSUME IInv, NEW z \in Contexts, NEW a \in mem \ forgotten, Current(z, a),
         bindAv[z] = NULL,
         \A x \in Contexts : \A b : Current(x, b)' <=> Current(x, b),
         \A x \in Contexts : Pchars(x)' = Pchars(x),
         \A x \in Contexts \ {z} : binding'[x] = binding[x] /\ block'[x] = block[x],
         binding'[z] # "opening",
         block'[z] # NULL => binding'[z] = "open" /\ block'[z] = a,
         forgotten' = forgotten \cup {a},
         UNCHANGED <<mem, stub, context, bindAv>>
  PROVE  /\ \A x \in Contexts : BindingOK(x)'
         /\ ForgottenOK' /\ OwnedOK'
PROOF
<1>1. a \in Blocks /\ a # NULL /\ context[a] = z
  BY Basics, CurrentOnce
<1>2. ASSUME NEW x \in Contexts, x # z PROVE ~ Current(x, a) /\ bindAv[x] # a
  <2>1. ~ Current(x, a)
    BY <1>1, <1>2 DEF Current
  <2>2. bindAv[x] # NULL => Current(x, bindAv[x])
    BY DEF IInv, BindingOK
  <2>. QED
    BY <1>1, <2>1, <2>2
<1>3. ASSUME NEW x \in Contexts PROVE BindingOK(x)'
  <2>1. CASE x = z
    <3>1. Pchars(z)' # NULL /\ Current(z, a)'
      BY DEF Current
    <3>2. block'[z] # NULL => block'[z] \in forgotten'
      OBVIOUS
    <3>3. bindAv'[z] = NULL
      OBVIOUS
    <3>4. block'[z] # NULL => Current(z, block[z])'
      BY <3>1 DEF Current, Pchars
    <3>. QED
      BY <2>1, <3>1, <3>2, <3>3, <3>4 DEF BindingOK
  <2>2. CASE x # z
    <3>1. BindingOK(x)
      BY DEF IInv
    <3>2. block'[x] = block[x] /\ binding'[x] = binding[x]
      BY <2>2
    <3>3. Current(x, block[x])' <=> Current(x, block[x])
      BY <3>2 DEF Current, Pchars
    <3>. QED
      BY <1>2, <2>2, <3>1, <3>2, <3>3 DEF BindingOK
  <2>. QED
    BY <2>1, <2>2
<1>4. ForgottenOK'
  BY <1>1 DEF IInv, ForgottenOK
<1>5. ASSUME NEW b \in Blocks PROVE b \in (mem \ forgotten)' <=> LedTo(b)'
  <2>1. CASE b = a
    <3>1. \A h \in Protocols : stub[h] # a
      BY <1>1, Basics
    <3>. QED
      BY <1>1, <1>2, <2>1, <3>1 DEF LedTo
  <2>2. CASE b # a
    <3>1. ~ Current(z, b)
      BY <2>2, CurrentOnce
    <3>2. LedTo(b)' <=> LedTo(b)
      BY <3>1 DEF LedTo
    <3>. QED
      BY <2>2, <3>2 DEF IInv, OwnedOK
  <2>. QED
    BY <2>1, <2>2
<1>. QED
  BY <1>3, <1>4, <1>5 DEF OwnedOK

LEMMA KeepsCompletesUnhooked ==
  ASSUME IInv, NEW z \in Contexts, CompletesUnhooked(z)
  PROVE  IInv'
PROOF
<1>. USE DEF CompletesUnhooked, protocols, adapters
<1>. DEFINE a == Found(z)
<1>1. /\ Current(z, a) /\ a \in mem \ forgotten /\ bindAv[z] = NULL /\ block[z] = NULL
      /\ a \in Blocks
  BY Opening, CurrentOnce
<1>2. forgotten' = forgotten \cup {a}
  OBVIOUS
<1>. HIDE DEF a
<1>3. TypeOK'
  BY <1>1, <1>2 DEF IInv, TypeOK
<1>4. /\ \A x \in Contexts : Pchars(x)' = Pchars(x)
      /\ \A x \in Contexts : \A b : Current(x, b)' <=> Current(x, b)
  BY SameAdapters
<1>5. /\ \A x \in Contexts \ {z} : binding'[x] = binding[x]
      /\ binding'[z] # "opening"
  BY DEF IInv, TypeOK
<1>6. /\ \A x \in Contexts : BindingOK(x)'
      /\ ForgottenOK' /\ OwnedOK'
  BY <1>1, <1>2, <1>4, <1>5, Forgets
<1>7. ASSUME NEW g \in Protocols PROVE ProtocolOK(g)'
  BY DEF IInv, ProtocolOK
<1>8. ASSUME NEW p \in Blocks PROVE ListOK(p)'
  BY <1>4 DEF IInv, ListOK, Decreasing
<1>9. FreshOK' /\ NamesOK'
  BY DEF IInv, FreshOK, NamesOK
<1>. QED
  BY <1>3, <1>6, <1>7, <1>8, <1>9 DEF IInv

(* The names of the adapters: none is there twice, and none moves. *)
LEMMA NameAdded ==
  ASSUME NEW S, NEW s \in Seq(S), IsInjective(s), NEW n \in S
  PROVE  /\ Added(s, n) \in Seq(S) /\ IsInjective(Added(s, n))
         /\ Len(s) <= Len(Added(s, n))
         /\ \A i \in 1..Len(s) : Added(s, n)[i] = s[i]
         /\ Position(Added(s, n), n) \in 1..Len(Added(s, n))
         /\ Added(s, n)[Position(Added(s, n), n)] = n
PROOF
<1>. DEFINE t == Added(s, n)
<1>1. Len(s) \in Nat /\ DOMAIN s = 1..Len(s)
  OBVIOUS
<1>2. /\ t \in Seq(S) /\ IsInjective(t) /\ Len(s) <= Len(t)
      /\ (\A i \in 1..Len(s) : t[i] = s[i]) /\ \E i \in DOMAIN t : t[i] = n
  <2>1. CASE n \in Range(s)
    BY <1>1, <2>1 DEF Added, Range
  <2>2. CASE n \notin Range(s)
    <3>1. t = Append(s, n)
      BY <2>2 DEF Added
    <3>2. /\ t \in Seq(S) /\ Len(t) = Len(s) + 1 /\ DOMAIN t = 1..Len(s)+1
          /\ \A i \in 1..Len(s) : t[i] = s[i]
          /\ t[Len(s)+1] = n
      <4>1. s \in Seq(S) /\ n \in S
        OBVIOUS
      <4>2. /\ Append(s, n) \in Seq(S) /\ Len(Append(s, n)) = Len(s) + 1
            /\ \A i \in 1..Len(s) : Append(s, n)[i] = s[i]
            /\ Append(s, n)[Len(s)+1] = n
        BY <4>1, AppendProperties
      <4>3. DOMAIN Append(s, n) = 1..Len(s)+1
        BY <4>2
      <4>. QED
        BY <3>1, <4>2, <4>3
    <3>. HIDE DEF t
    <3>3. \A i \in 1..Len(s) : t[i] # n
      BY <1>1, <2>2, <3>2 DEF Range
    <3>4. ASSUME NEW i \in DOMAIN t, NEW j \in DOMAIN t, t[i] = t[j] PROVE i = j
      <4>1. i \in 1..Len(s) \/ i = Len(s)+1
        BY <1>1, <3>2
      <4>2. j \in 1..Len(s) \/ j = Len(s)+1
        BY <1>1, <3>2
      <4>3. i \in 1..Len(s) /\ j \in 1..Len(s) => i = j
        BY <1>1, <3>2, <3>4 DEF IsInjective
      <4>. QED
        BY <3>2, <3>3, <3>4, <4>1, <4>2, <4>3
    <3>5. IsInjective(t)
      BY <3>4 DEF IsInjective
    <3>6. Len(s)+1 \in DOMAIN t
      BY <1>1, <3>2
    <3>7. Len(s) <= Len(t)
      BY <1>1, <3>2
    <3>. QED
      BY <3>2, <3>5, <3>6, <3>7
  <2>. QED
    BY <2>1, <2>2
<1>. HIDE DEF t
<1>3. Position(t, n) \in DOMAIN t /\ t[Position(t, n)] = n
  BY <1>2 DEF Position
<1>4. DOMAIN t = 1..Len(t)
  BY <1>2
<1>. QED
  BY <1>2, <1>3, <1>4 DEF t

LEMMA KeepsOpenSucceeds ==
  ASSUME IInv, NEW z \in Contexts, OpenSucceeds(z)
  PROVE  IInv'
PROOF
<1>. DEFINE a == Found(z)
            n == NameOf[z]
<1>1. /\ Current(z, a) /\ a \in mem \ forgotten /\ bindAv[z] = NULL /\ block[z] = NULL
      /\ a \in Blocks /\ a # NULL /\ context[a] = z /\ n \in STRING
  BY Opening, CurrentOnce, Basics, ContextAssumption DEF OpenSucceeds
<1>2. /\ AddAdapter(a, n)
      /\ \/ bindAv' = [bindAv EXCEPT ![z] = a] /\ forgotten' = forgotten
         \/ forgotten' = forgotten \cup {a} /\ bindAv' = bindAv
      /\ block' = [block EXCEPT ![z] = a]
      /\ binding' = [binding EXCEPT ![z] = "open"]
      /\ UNCHANGED <<mem, last, protocol, protAv, stub, tcpip, list, context>>
  BY DEF OpenSucceeds, DeletedOnSuccess, Hook, protocols
<1>. HIDE DEF a
<1>3. /\ names' \in Seq(STRING) /\ IsInjective(names') /\ Len(names) <= Len(names')
      /\ \A i \in 1..Len(names) : names'[i] = names[i]
      /\ index' \in [Blocks -> 0..Len(names')]
      /\ \A b \in Blocks : b # a => index'[b] = index[b]
      /\ index'[a] # 0 => names'[index'[a]] = n
  <2>1. /\ names \in Seq(STRING) /\ IsInjective(names) /\ index \in [Blocks -> 0..Len(names)]
        /\ Len(names) \in Nat
    BY DEF IInv, TypeOK, NamesOK
  <2>2. CASE names' = Added(names, n) /\ index' = [index EXCEPT ![a] = Position(names', n)]
    <3>1. /\ names' \in Seq(STRING) /\ IsInjective(names') /\ Len(names) <= Len(names')
          /\ \A i \in 1..Len(names) : names'[i] = names[i]
          /\ Position(names', n) \in 1..Len(names') /\ names'[Position(names', n)] = n
      <4>. DEFINE S == STRING
      <4>1. names \in Seq(S) /\ n \in S
        BY <1>1, <2>1
      <4>. HIDE DEF S, n
      <4>. DEFINE t == Added(names, n)
      <4>2. IsInjective(names)
        BY <2>1
      <4>3. /\ t \in Seq(S) /\ IsInjective(t) /\ Len(names) <= Len(t)
            /\ \A i \in 1..Len(names) : t[i] = names[i]
            /\ Position(t, n) \in 1..Len(t) /\ t[Position(t, n)] = n
        BY <4>1, <4>2, NameAdded
      <4>. HIDE DEF t
      <4>4. names' = t
        BY <2>2 DEF t
      <4>. QED
        BY <4>3, <4>4 DEF S
    <3>2. Len(names') \in Nat
      BY <3>1
    <3>3. index' = [b \in Blocks |-> IF b = a THEN Position(names', n) ELSE index[b]]
      BY <2>1, <2>2
    <3>4. \A b \in Blocks : index[b] \in 0..Len(names')
      BY <2>1, <3>1, <3>2
    <3>. QED
      BY <1>1, <2>1, <3>1, <3>2, <3>3, <3>4
  <2>3. CASE UNCHANGED <<names, index>>
    <3>1. index[a] # 0 => names[index[a]] = n
      BY <1>1 DEF IInv, NamesOK
    <3>. QED
      BY <2>1, <2>3, <3>1
  <2>. QED
    BY <1>2, <2>2, <2>3 DEF AddAdapter
<1>4. NamesOK'
  <2>1. ASSUME NEW b \in Blocks, index'[b] # 0
        PROVE  context[b] \in Contexts /\ names'[index'[b]] = NameOf[context[b]]
    <3>1. CASE b = a
      BY <1>1, <1>3, <2>1, <3>1
    <3>2. CASE b # a
      <4>1. index'[b] = index[b] /\ index[b] \in 1..Len(names)
        BY <1>3, <2>1, <3>2 DEF IInv, TypeOK
      <4>. QED
        BY <1>3, <2>1, <4>1 DEF IInv, NamesOK
    <3>. QED
      BY <3>1, <3>2
  <2>. QED
    BY <1>2, <1>3, <2>1 DEF NamesOK
<1>5. FreshOK'
  <2>1. \A b \in Blocks : b > last => b # a
    BY <1>1, Basics
  <2>. QED
    BY <1>2, <1>3, <2>1 DEF IInv, FreshOK
<1>6. TypeOK'
  <2>1. /\ bindAv' \in [Contexts -> OrNull(Blocks)] /\ block' \in [Contexts -> OrNull(Blocks)]
        /\ forgotten' \subseteq Blocks
    BY <1>1, <1>2 DEF IInv, TypeOK, OrNull
  <2>. QED
    BY <1>2, <1>3, <2>1 DEF IInv, TypeOK
<1>7. /\ \A x \in Contexts : Pchars(x)' = Pchars(x)
      /\ \A x \in Contexts : \A b : Current(x, b)' <=> Current(x, b)
  BY <1>2, SameAdapters
<1>8. /\ \A x \in Contexts : binding'[x] = IF x = z THEN "open" ELSE binding[x]
      /\ \A x \in Contexts : block'[x] = IF x = z THEN a ELSE block[x]
  BY <1>2 DEF IInv, TypeOK
<1>9. /\ \A x \in Contexts : BindingOK(x)'
      /\ ForgottenOK' /\ OwnedOK'
  <2>1. CASE bindAv' = [bindAv EXCEPT ![z] = a] /\ forgotten' = forgotten
    <3>1. \A x \in Contexts : bindAv'[x] = IF x = z THEN a ELSE bindAv[x]
      BY <2>1 DEF IInv, TypeOK
    <3>2. ASSUME NEW x \in Contexts PROVE BindingOK(x)'
      <4>1. CASE x = z
        <5>1. Current(z, block[z])' /\ Pchars(z)' # NULL
          BY <1>1, <1>7, <1>8 DEF Current, Pchars
        <5>. QED
          BY <1>1, <1>2, <1>8, <2>1, <3>1, <4>1, <5>1 DEF BindingOK
      <4>2. CASE x # z
        <5>1. block'[x] = block[x] /\ binding'[x] = binding[x] /\ bindAv'[x] = bindAv[x]
          BY <1>8, <3>1, <4>2
        <5>2. Current(x, block[x])' <=> Current(x, block[x])
          BY <1>2, <5>1 DEF Current, Pchars
        <5>. QED
          BY <1>2, <1>7, <2>1, <5>1, <5>2 DEF IInv, BindingOK
      <4>. QED
        BY <4>1, <4>2
    <3>3. ForgottenOK'
      BY <1>2, <2>1 DEF IInv, ForgottenOK
    <3>4. ASSUME NEW b \in Blocks PROVE b \in (mem \ forgotten)' <=> LedTo(b)'
      <4>1. CASE b = a
        BY <1>1, <1>2, <2>1, <3>1, <4>1 DEF LedTo
      <4>2. CASE b # a
        <5>1. ~ Current(z, b) /\ bindAv[z] # b
          BY <1>1, <4>2, CurrentOnce, Basics
        <5>2. LedTo(b)' <=> LedTo(b)
          BY <1>2, <1>7, <1>8, <3>1, <4>2, <5>1 DEF LedTo
        <5>. QED
          BY <1>2, <2>1, <5>2 DEF IInv, OwnedOK
      <4>. QED
        BY <4>1, <4>2
    <3>. QED
      BY <3>2, <3>3, <3>4 DEF OwnedOK
  <2>2. CASE forgotten' = forgotten \cup {a} /\ bindAv' = bindAv
    BY <1>1, <1>2, <1>7, <1>8, <2>2, Forgets
  <2>. QED
    BY <1>2, <2>1, <2>2
<1>10. ASSUME NEW g \in Protocols PROVE ProtocolOK(g)'
  BY <1>2 DEF IInv, ProtocolOK
<1>11. ASSUME NEW p \in Blocks PROVE ListOK(p)'
  BY <1>2, <1>7 DEF IInv, ListOK, Decreasing
<1>. QED
  BY <1>4, <1>5, <1>6, <1>9, <1>10, <1>11 DEF IInv
-----------------------------------------------------------------------------
LEMMA InitOK == Init => IInv
PROOF
<1>. SUFFICES ASSUME Init PROVE IInv
  OBVIOUS
<1>. USE DEF Init
<1>1. TypeOK
  <2>1. last \in 0..MaxBlocks /\ mem \subseteq 1..last
    BY BlocksAssumption
  <2>2. names \in Seq(STRING) /\ Len(names) = 0
    OBVIOUS
  <2>3. index \in [Blocks -> 0..Len(names)]
    BY <2>2
  <2>. QED
    BY <2>1, <2>2, <2>3 DEF TypeOK, OrNull
<1>2. /\ \A x \in Contexts : BindingOK(x)
      /\ \A h \in Protocols : ProtocolOK(h)
  BY DEF BindingOK, ProtocolOK
<1>3. \A p \in Blocks : ListOK(p)
  BY DEF ListOK, Decreasing
<1>4. FreshOK /\ ForgottenOK
  BY DEF FreshOK, ForgottenOK
<1>5. NamesOK
  BY DEF NamesOK, IsInjective
<1>6. OwnedOK
  BY BlocksAssumption DEF OwnedOK, LedTo, Blocks
<1>. QED
  BY <1>1, <1>2, <1>3, <1>4, <1>5, <1>6 DEF IInv

LEMMA StepOK == IInv /\ [Next]_vars => IInv'
PROOF
<1>. SUFFICES ASSUME IInv, [Next]_vars PROVE IInv'
  OBVIOUS
<1>1. ASSUME NEW h \in Protocols, RegisterOther(h) \/ Register(h) PROVE IInv'
  BY <1>1, KeepsRegisterOther, KeepsRegister
<1>2. ASSUME NEW h \in Protocols, Save(h) \/ SaveFails(h) \/ Deregister(h) PROVE IInv'
  BY <1>2, KeepsSave, KeepsSaveFails, KeepsDeregister
<1>3. ASSUME NEW x \in Contexts, Open(x) \/ OpenOther(x) \/ OpenSucceeds(x) PROVE IInv'
  BY <1>3, KeepsOpen, KeepsOpenOther, KeepsOpenSucceeds
<1>4. ASSUME NEW x \in Contexts, ReturnsFailure(x) \/ ReturnsOtherMedium(x) PROVE IInv'
  BY <1>4, KeepsReturns
<1>5. ASSUME NEW x \in Contexts, CompletesUnhooked(x) \/ Close(x) \/ Closed(x) PROVE IInv'
  BY <1>5, KeepsCompletesUnhooked, KeepsClose, KeepsClosed
<1>6. CASE UNCHANGED vars
  <2>. USE <1>6 DEF vars, protocols, adapters, bindings
  <2>1. TypeOK' /\ FreshOK' /\ ForgottenOK' /\ NamesOK'
    BY DEF IInv, TypeOK, FreshOK, ForgottenOK, NamesOK
  <2>2. /\ \A x \in Contexts : Pchars(x)' = Pchars(x)
        /\ \A x \in Contexts : \A a : Current(x, a)' <=> Current(x, a)
    BY SameAdapters
  <2>3. /\ \A h \in Protocols : ProtocolOK(h)'
        /\ \A p \in Blocks : ListOK(p)'
        /\ \A x \in Contexts : BindingOK(x)'
    BY <2>2 DEF IInv, ProtocolOK, ListOK, Decreasing, BindingOK
  <2>4. OwnedOK'
    BY <2>2 DEF IInv, OwnedOK, LedTo
  <2>. QED
    BY <2>1, <2>3, <2>4 DEF IInv
<1>. QED
  BY <1>1, <1>2, <1>3, <1>4, <1>5, <1>6 DEF Next

(* The inductive invariant of the hash, the lists and the code stubs. *)
THEOREM Invariance == Spec => []IInv
PROOF
<1>. QED
  BY InitOK, StepOK, PTL DEF Spec

(* The variables keep their types: the hash, the handlers and the open     *)
(* blocks hold a block or NULL, and an index is 0 or the place of a name.  *)
THEOREM TypesHold == Spec => []TypeOK
PROOF
<1>1. IInv => TypeOK
  BY DEF IInv
<1>. QED
  BY <1>1, Invariance, PTL

(* new_NdisCloseAdapter frees an adapter, and new_NdisDeregisterProtocol   *)
(* a protocol, that neither a list, nor the hash, nor the code NDIS jumps  *)
(* to leads to any more, in whatever order adapters are opened, completed  *)
(* and closed.                                                             *)
THEOREM NothingFreed == Spec => []NothingFreedIsReached
PROOF
<1>1. IInv => NothingFreedIsReached
  <2>. SUFFICES ASSUME IInv PROVE NothingFreedIsReached
    OBVIOUS
  <2>1. ASSUME NEW p \in mem PROVE IsInjective(list[p]) /\ Range(list[p]) \subseteq mem
    <3>1. p \in Blocks /\ list[p] \in Seq(Blocks)
      BY Basics DEF IInv, TypeOK
    <3>. DEFINE s == list[p]
    <3>2. Decreasing(s) /\ Range(s) \subseteq mem
      BY <3>1 DEF IInv, ListOK
    <3>3. s \in Seq(Blocks)
      BY <3>1
    <3>. HIDE DEF s
    <3>4. Len(s) \in Nat /\ DOMAIN s = 1..Len(s) /\ \A i \in 1..Len(s) : s[i] \in Int
      BY <3>3, BlocksAssumption DEF Blocks
    <3>5. ASSUME NEW i \in DOMAIN s, NEW j \in DOMAIN s, s[i] = s[j] PROVE i = j
      <4>1. i \in Int /\ j \in Int /\ s[i] \in Int /\ s[j] \in Int
        BY <3>4
      <4>2. ~ (i < j) /\ ~ (j < i)
        BY <3>2, <3>4, <3>5, <4>1 DEF Decreasing
      <4>. QED
        BY <4>1, <4>2
    <3>. QED
      BY <3>2, <3>5 DEF IsInjective, s
  <2>2. ASSUME NEW h \in Protocols PROVE {protAv[h], stub[h]} \subseteq OrNull(mem)
    BY DEF IInv, ProtocolOK, OrNull
  <2>3. ASSUME NEW x \in Contexts
        PROVE  /\ bindAv[x] \in OrNull(mem)
               /\ binding[x] # "closing" => block[x] \in OrNull(mem)
    <3>1. BindingOK(x)
      BY DEF IInv
    <3>2. ASSUME NEW a, Current(x, a) PROVE a \in mem
      <4>1. Pchars(x) \in mem
        BY <3>2, Basics DEF IInv, ProtocolOK, Current, Pchars
      <4>. QED
        BY <3>2, <4>1, Basics DEF IInv, ListOK, Current
    <3>. QED
      BY <3>1, <3>2 DEF BindingOK, OrNull
  <2>. QED
    BY <2>1, <2>2, <2>3 DEF NothingFreedIsReached
<1>. QED
  BY <1>1, Invariance, PTL

(* send_packet and the receive handlers find a binding's adapter in two    *)
(* ways, by its open block and by its context in the list of its protocol: *)
(* both give the adapter of the last open, even when adapters that earlier *)
(* opens of the same context left behind are still in the list.            *)
THEOREM OneAdapterEach == Spec => []OneAdapter
PROOF
<1>1. IInv => OneAdapter
  <2>. SUFFICES ASSUME IInv, NEW x \in Contexts, binding[x] = "open", block[x] # NULL
                PROVE  Found(x) = block[x] /\ \A b \in Blocks : context[b] = x => b <= block[x]
    BY DEF OneAdapter
  <2>1. Current(x, block[x])
    BY DEF IInv, BindingOK
  <2>2. Pchars(x) \in Blocks
    BY <2>1, Basics DEF Current
  <2>. QED
    BY <2>1, <2>2, FoundIsCurrent DEF IInv, Current
<1>. QED
  BY <1>1, Invariance, PTL

(* add_adapter gives a name one index and every adapter of that name the   *)
(* same, and no later adapter changes it.                                  *)
THEOREM IndexKept == Spec => []IndexIsName
PROOF
<1>1. IInv => IndexIsName
  <2>. SUFFICES ASSUME IInv, NEW a \in DOMAIN index, index[a] # 0
                PROVE  /\ names[index[a]] = NameOf[context[a]]
                       /\ \A j \in DOMAIN names : names[j] = names[index[a]] => j = index[a]
    BY DEF IndexIsName
  <2>1. a \in Blocks /\ index[a] \in 1..Len(names) /\ DOMAIN names = 1..Len(names)
    BY DEF IInv, TypeOK
  <2>. QED
    BY <2>1 DEF IInv, NamesOK, IsInjective
<1>. QED
  BY <1>1, Invariance, PTL

(* A block leaks only where an open is completed without being hooked, or  *)
(* is hooked without memory for the pair in the hash; every other one is   *)
(* freed when its binding or its protocol goes.                            *)
THEOREM NoOtherLeak == Spec => []Accounted
PROOF
<1>1. IInv => Accounted
  <2>. SUFFICES ASSUME IInv PROVE Accounted
    OBVIOUS
  <2>. DEFINE O == {Found(x) : x \in {y \in Contexts : binding[y] = "opening"}}
              H == {b \in Range(stub) \cup Range(bindAv) : b # NULL}
  <2>1. mem \ forgotten \subseteq Blocks /\ H \subseteq Blocks /\ O \subseteq Blocks
    <3>1. O \subseteq Blocks
      BY Opening, Basics
    <3>2. H \subseteq Blocks
      BY DEF IInv, TypeOK, OrNull, Range
    <3>. QED
      BY <3>1, <3>2, Basics
  <2>2. ASSUME NEW b \in Blocks PROVE LedTo(b) <=> b \in H \/ b \in O
    <3>1. b # NULL
      BY Basics
    <3>2. b \in H <=> (\E h \in Protocols : stub[h] = b) \/ (\E x \in Contexts : bindAv[x] = b)
      BY <3>1 DEF IInv, TypeOK, Range
    <3>3. b \in O <=> \E x \in Contexts : binding[x] = "opening" /\ Current(x, b)
      BY Opening, CurrentOnce
    <3>. QED
      BY <3>2, <3>3 DEF LedTo
  <2>3. \A b \in Blocks : b \in mem \ forgotten <=> b \in H \/ b \in O
    BY <2>2 DEF IInv, OwnedOK
  <2>. HIDE DEF H, O
  <2>4. mem \ forgotten = H \cup O
    BY <2>1, <2>3
  <2>. QED
    BY <2>4 DEF Accounted, H, O
<1>. QED
  BY <1>1, Invariance, PTL
=============================================================================
