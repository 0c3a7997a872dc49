-------------------------- MODULE OwnPacketsProofs --------------------------
(***************************************************************************)
(* Safety of OwnPackets for any number of calls and pools of any size.     *)
(* The inductive invariant says who has the parts of a call: while the     *)
(* miniport has nothing of it they are what its pointers say; while the    *)
(* miniport has its packet they are all there, and the pointers name all   *)
(* of them until the call has seen NDIS_STATUS_PENDING and none after      *)
(* that; when it was completed they are gone, also when the call has yet   *)
(* to return.                                                              *)
(***************************************************************************)
EXTENDS OwnPackets, FiniteSetTheorems, TLAPS

(* The pointers of a call and its memory, by who has its packet. *)
PartsOK(k) ==
  /\ locals[k] \subseteq Whole(k)
  /\ miniport[k] = "no" => memory[k] = locals[k]
  /\ miniport[k] = "has" => memory[k] = Whole(k)
  /\ miniport[k] = "completed" => memory[k] = {}
  /\ miniport[k] # "no" => \/ pc[k] = "handed" /\ locals[k] = Whole(k)
                           \/ pc[k] \in {"cleanup", "done"} /\ locals[k] = {}

(* What a call has when it is at each step. *)
StepsOK(k) ==
  /\ pc[k] \in {"new", "done"} => locals[k] = {}
  /\ pc[k] \in {"hand", "filter", "indicate"} => miniport[k] = "no" /\ locals[k] = Whole(k)
  /\ pc[k] = "handed" => miniport[k] # "no"
  /\ pc[k] \in {"hand", "handed"} \/ miniport[k] # "no" => kind[k] # "whole"

(* How often its frame has been filtered and indicated. *)
CountsOK(k) ==
  /\ indicated[k] <= filtered[k] /\ filtered[k] <= 1
  /\ pc[k] \in {"new", "allocate", "hand", "filter"} \/ miniport[k] = "has" => filtered[k] = 0
  /\ pc[k] = "indicate" => filtered[k] = 1 /\ indicated[k] = 0
  /\ kind[k] = "out" => filtered[k] = 0 /\ pc[k] \notin {"filter", "indicate"}
  /\ pc[k] = "handed" /\ miniport[k] # "completed" => filtered[k] = 0
  /\ pc[k] \in {"filter", "indicate"} \/ indicated[k] > 0 =>
       arrived[k] \/ miniport[k] = "completed"
  /\ kind[k] = "whole" /\ pc[k] # "new" => arrived[k] \/ pc[k] = "done"

IInv == /\ TypeOK
        /\ twice = {}
        /\ \A k \in Calls : PartsOK(k) /\ StepsOK(k) /\ CountsOK(k)
-----------------------------------------------------------------------------
(* What a call allocates has no more parts than its plan has steps.        *)
LEMMA WholeSize ==
  ASSUME NEW k \in Calls, NEW n \in Nat, Plan[kind[k]] \in Seq(Parts), n = Len(Plan[kind[k]])
  PROVE  IsFiniteSet(Whole(k)) /\ Cardinality(Whole(k)) <= n
PROOF
<1>1. Plan[kind[k]] \in Surjection(1..n, Whole(k))
  BY DEF Surjection, Whole, Range
<1>2. IsFiniteSet(1..n) /\ Cardinality(1..n) = n
  <2>. DEFINE from == 1
  <2>1. from \in Int /\ n \in Int /\ (from > n <=> n = 0) /\ n - from + 1 = n
    OBVIOUS
  <2>. HIDE DEF from
  <2>2. IsFiniteSet(from..n) /\ Cardinality(from..n) = IF from > n THEN 0 ELSE n - from + 1
    BY <2>1, FS_Interval
  <2>. QED
    BY <2>1, <2>2 DEF from
<1>. QED
  BY <1>1, <1>2, FS_Surjection

(* A call that has not allocated everything has a next part to allocate.   *)
LEMMA NextPart ==
  ASSUME NEW k \in Calls, kind[k] \in Kinds, locals[k] \subseteq Whole(k), locals[k] # Whole(k)
  PROVE  Plan[kind[k]][Cardinality(locals[k]) + 1] \in Whole(k) \cap Parts
PROOF
<1>. DEFINE n == Len(Plan[kind[k]])
<1>1. n \in Nat /\ Plan[kind[k]] \in Seq(Parts)
  <2>1. Plan.out \in Seq(Parts) /\ Plan.whole \in Seq(Parts) /\ Plan.part \in Seq(Parts)
    BY DEF Plan, Parts
  <2>2. Plan[kind[k]] \in Seq(Parts)
    BY <2>1 DEF Kinds
  <2>. QED
    BY <2>2
<1>2. IsFiniteSet(Whole(k)) /\ Cardinality(Whole(k)) <= n
  BY <1>1, WholeSize
<1>3. IsFiniteSet(locals[k]) /\ Cardinality(locals[k]) < Cardinality(Whole(k))
  BY <1>2, FS_Subset, FS_CardinalityType
<1>4. Cardinality(locals[k]) + 1 \in 1..n
  BY <1>1, <1>2, <1>3, FS_CardinalityType
<1>. QED
  BY <1>1, <1>4 DEF Whole, Range
-----------------------------------------------------------------------------
LEMMA InitInv == Init => IInv
PROOF
<1>. SUFFICES ASSUME Init PROVE IInv
  OBVIOUS
<1>1. TypeOK /\ twice = {}
  BY DEF Init, TypeOK, Parts, Kinds
<1>2. ASSUME NEW k \in Calls PROVE PartsOK(k) /\ StepsOK(k) /\ CountsOK(k)
  BY DEF Init, PartsOK, StepsOK, CountsOK
<1>. QED
  BY <1>1, <1>2 DEF IInv

(* Every step of a call, and every completion, keeps the invariant: one    *)
(* step of the proof per action.                                           *)
LEMMA StepInv ==
  ASSUME IInv, [Next]_vars
  PROVE  IInv'
PROOF
<1>. DEFINE Inv(j) == PartsOK(j) /\ StepsOK(j) /\ CountsOK(j)
<1>. USE DEF frames
<1>0. kind' = kind /\ \A j : Whole(j)' = Whole(j)
  BY DEF Next, Call, Completion, vars, Whole, GiveUp, Begin, Allocate, Fail, Allocated, Hand,
         Returns, Pends, Filter, Indicate, Cleanup, SendComplete, TransferDataComplete, Finish
<1>1. ASSUME NEW k \in Calls, GiveUp(k)
     PROVE  IInv'
  <2>1. TypeOK'
    BY <1>1 DEF IInv, TypeOK, GiveUp, Goto
  <2>2. twice' = {}
    BY <1>1 DEF IInv, TypeOK, GiveUp
  <2>3. ASSUME NEW j \in Calls PROVE Inv(j)'
    BY <1>0, <1>1 DEF IInv, TypeOK, PartsOK, StepsOK, CountsOK, GiveUp, Goto
  <2>. QED
    BY <2>1, <2>2, <2>3 DEF IInv
<1>2. ASSUME NEW k \in Calls, Begin(k)
     PROVE  IInv'
  <2>1. TypeOK'
    BY <1>2 DEF IInv, TypeOK, Begin, Goto
  <2>2. twice' = {}
    BY <1>2 DEF IInv, TypeOK, Begin
  <2>3. ASSUME NEW j \in Calls PROVE Inv(j)'
    <3>1. CASE j = k
      <4>1. /\ pc[j] = "new" /\ pc'[j] = "allocate" /\ kind[j] \in Kinds
            /\ UNCHANGED <<kind[j], locals[j], memory[j], miniport[j]>>
            /\ UNCHANGED <<filtered[j], indicated[j], Whole(j)>>
            /\ filtered[j] \in Nat /\ indicated[j] \in Nat
        BY <1>2, <3>1 DEF IInv, TypeOK, Begin, Goto, Whole
      <4>2. kind[j] = "whole" => arrived'[j]
        BY <1>2, <3>1 DEF IInv, TypeOK, Begin
      <4>3. kind[j] = "part" \/ kind[j] = "out" \/ kind[j] = "whole"
        BY <4>1 DEF Kinds
      <4>. QED
        BY <4>1, <4>2, <4>3 DEF IInv, PartsOK, StepsOK, CountsOK
    <3>2. CASE j # k
      BY <1>0, <1>2, <3>2 DEF IInv, TypeOK, PartsOK, StepsOK, CountsOK, Begin, Goto
    <3>. QED
      BY <3>1, <3>2
  <2>. QED
    BY <2>1, <2>2, <2>3 DEF IInv
<1>3. ASSUME NEW k \in Calls, Allocate(k)
     PROVE  IInv'
  <2>. DEFINE part == Plan[kind[k]][Cardinality(locals[k]) + 1]
  <2>1. part \in Whole(k) /\ part \in Parts
    BY <1>3, NextPart DEF IInv, TypeOK, PartsOK, Allocate
  <2>2. /\ pc[k] = "allocate" /\ locals' = [locals EXCEPT ![k] = @ \cup {part}]
        /\ memory' = [memory EXCEPT ![k] = @ \cup {part}]
        /\ UNCHANGED <<kind, pc, miniport, arrived, filtered, indicated, twice>>
    BY <1>3 DEF Allocate
  <2>. HIDE DEF part
  <2>3. TypeOK'
    BY <2>1, <2>2 DEF IInv, TypeOK
  <2>4. ASSUME NEW j \in Calls PROVE Inv(j)'
    BY <1>0, <2>1, <2>2 DEF IInv, TypeOK, PartsOK, StepsOK, CountsOK
  <2>. QED
    BY <2>2, <2>3, <2>4 DEF IInv
<1>4. ASSUME NEW k \in Calls, Fail(k)
     PROVE  IInv'
  <2>1. TypeOK'
    BY <1>4 DEF IInv, TypeOK, Fail, AfterFailure, Goto
  <2>2. twice' = {}
    BY <1>4 DEF IInv, TypeOK, Fail, AfterFailure
  <2>3. ASSUME NEW j \in Calls PROVE Inv(j)'
    BY <1>0, <1>4 DEF IInv, TypeOK, PartsOK, StepsOK, CountsOK, Fail, AfterFailure, Goto
  <2>. QED
    BY <2>1, <2>2, <2>3 DEF IInv
<1>5. ASSUME NEW k \in Calls, Allocated(k)
     PROVE  IInv'
  <2>1. TypeOK'
    BY <1>5 DEF IInv, TypeOK, Allocated, Goto
  <2>2. twice' = {}
    BY <1>5 DEF IInv, TypeOK, Allocated
  <2>3. ASSUME NEW j \in Calls PROVE Inv(j)'
    BY <1>0, <1>5 DEF IInv, TypeOK, PartsOK, StepsOK, CountsOK, Allocated, Goto, Kinds
  <2>. QED
    BY <2>1, <2>2, <2>3 DEF IInv
<1>6. ASSUME NEW k \in Calls, Hand(k)
     PROVE  IInv'
  <2>1. TypeOK'
    BY <1>6 DEF IInv, TypeOK, Hand, Goto
  <2>2. twice' = {}
    BY <1>6 DEF IInv, TypeOK, Hand
  <2>3. ASSUME NEW j \in Calls PROVE Inv(j)'
    BY <1>0, <1>6 DEF IInv, TypeOK, PartsOK, StepsOK, CountsOK, Hand, Goto
  <2>. QED
    BY <2>1, <2>2, <2>3 DEF IInv
<1>7. ASSUME NEW k \in Calls, NEW b \in BOOLEAN, Returns(k, b)
     PROVE  IInv'
  <2>1. TypeOK'
    BY <1>7 DEF IInv, TypeOK, Returns, Goto
  <2>2. twice' = {}
    BY <1>7 DEF IInv, TypeOK, Returns
  <2>3. ASSUME NEW j \in Calls PROVE Inv(j)'
    BY <1>0, <1>7 DEF IInv, TypeOK, PartsOK, StepsOK, CountsOK, Returns, Goto
  <2>. QED
    BY <2>1, <2>2, <2>3 DEF IInv
<1>8. ASSUME NEW k \in Calls, Pends(k)
     PROVE  IInv'
  <2>1. TypeOK'
    BY <1>8 DEF IInv, TypeOK, Pends, LeftToCompletion, AfterPending, Goto
  <2>2. twice' = {}
    BY <1>8 DEF IInv, TypeOK, Pends, LeftToCompletion, AfterPending
  <2>3. ASSUME NEW j \in Calls PROVE Inv(j)'
    BY <1>0, <1>8 DEF IInv, TypeOK, PartsOK, StepsOK, CountsOK, Pends,
        LeftToCompletion, AfterPending, Goto
  <2>. QED
    BY <2>1, <2>2, <2>3 DEF IInv
<1>9. ASSUME NEW k \in Calls, NEW b \in BOOLEAN, Filter(k, b)
     PROVE  IInv'
  <2>1. TypeOK'
    BY <1>9 DEF IInv, TypeOK, Filter, Goto
  <2>2. twice' = {}
    BY <1>9 DEF IInv, TypeOK, Filter
  <2>3. ASSUME NEW j \in Calls PROVE Inv(j)'
    BY <1>0, <1>9 DEF IInv, TypeOK, PartsOK, StepsOK, CountsOK, Filter, Goto
  <2>. QED
    BY <2>1, <2>2, <2>3 DEF IInv
<1>10. ASSUME NEW k \in Calls, Indicate(k)
     PROVE  IInv'
  <2>1. TypeOK'
    BY <1>10 DEF IInv, TypeOK, Indicate, Goto
  <2>2. twice' = {}
    BY <1>10 DEF IInv, TypeOK, Indicate
  <2>3. ASSUME NEW j \in Calls PROVE Inv(j)'
    BY <1>0, <1>10 DEF IInv, TypeOK, PartsOK, StepsOK, CountsOK, Indicate, Goto
  <2>. QED
    BY <2>1, <2>2, <2>3 DEF IInv
<1>11. ASSUME NEW k \in Calls, Cleanup(k)
     PROVE  IInv'
  <2>1. TypeOK'
    BY <1>11 DEF IInv, TypeOK, Cleanup, CleanedUp, Free, Goto
  <2>2. twice' = {}
    BY <1>11 DEF IInv, TypeOK, PartsOK, Cleanup, CleanedUp, Free
  <2>3. ASSUME NEW j \in Calls PROVE Inv(j)'
    <3>1. CASE j = k
      <4>1. /\ pc[j] = "cleanup" /\ pc'[j] = "done" /\ locals'[j] = {}
            /\ memory'[j] = memory[j] \ locals[j]
            /\ UNCHANGED <<kind[j], miniport[j], arrived[j], filtered[j], indicated[j]>>
            /\ UNCHANGED Whole(j)
        BY <1>11, <3>1 DEF IInv, TypeOK, Cleanup, CleanedUp, Free, Goto, Whole
      <4>. QED
        BY <4>1 DEF IInv, PartsOK, StepsOK, CountsOK
    <3>2. CASE j # k
      BY <1>0, <1>11, <3>2 DEF IInv, TypeOK, PartsOK, StepsOK, CountsOK, Cleanup,
          CleanedUp, Free, Goto
    <3>. QED
      BY <3>1, <3>2
  <2>. QED
    BY <2>1, <2>2, <2>3 DEF IInv
<1>12. ASSUME NEW k \in Calls, SendComplete(k)
     PROVE  IInv'
  <2>1. twice' = {}
    BY <1>12 DEF IInv, TypeOK, PartsOK, SendComplete, Finish,
        Free, FreedOnCompletion
    <2>2. TypeOK'
    BY <1>12, <2>1 DEF IInv, TypeOK, SendComplete, Finish, Free, FreedOnCompletion
<2>3. ASSUME NEW j \in Calls PROVE Inv(j)'
    BY <1>0, <1>12 DEF IInv, TypeOK, PartsOK, StepsOK, CountsOK, SendComplete,
        Finish, Free, FreedOnCompletion
  <2>. QED
    BY <2>1, <2>2, <2>3 DEF IInv
<1>13. ASSUME NEW k \in Calls, NEW s \in BOOLEAN, NEW f \in BOOLEAN,
             NEW p \in BOOLEAN, TransferDataComplete(k, s, f, p)
     PROVE  IInv'
  <2>1. twice' = {}
    BY <1>13 DEF IInv, TypeOK, PartsOK, TransferDataComplete,
        Finish, Free, FreedOnCompletion
    <2>2. TypeOK'
    BY <1>13, <2>1 DEF IInv, TypeOK, TransferDataComplete, Finish, Free, FreedOnCompletion
<2>3. ASSUME NEW j \in Calls PROVE Inv(j)'
    BY <1>0, <1>13 DEF IInv, TypeOK, PartsOK, StepsOK, CountsOK,
        TransferDataComplete, Finish, Free, FreedOnCompletion
  <2>. QED
    BY <2>1, <2>2, <2>3 DEF IInv
<1>14. CASE UNCHANGED vars
  <2>1. TypeOK' /\ twice' = {}
    BY <1>14 DEF IInv, TypeOK, vars
  <2>2. ASSUME NEW j \in Calls PROVE Inv(j)'
    BY <1>0, <1>14 DEF IInv, PartsOK, StepsOK, CountsOK, vars
  <2>. QED
    BY <2>1, <2>2 DEF IInv
<1>. QED
  BY <1>1, <1>2, <1>3, <1>4, <1>5, <1>6, <1>7, <1>8, <1>9, <1>10, <1>11, <1>12,
     <1>13, <1>14 DEF Next, Call, Completion

(* The inductive invariant of the calls and what they have taken. *)
THEOREM Invariance == Spec => []IInv
PROOF
<1>. QED
  BY InitInv, StepInv, PTL DEF Spec
-----------------------------------------------------------------------------
(* Every variable keeps its type.                                          *)
THEOREM TypesHold == Spec => []TypeOK
PROOF
<1>1. IInv => TypeOK
  BY DEF IInv
<1>. QED
  BY <1>1, Invariance, PTL

(* send_out_packet, new_ReceiveHandler and the completion handlers free    *)
(* each part once, and not before the miniport, the filters and the        *)
(* protocol have done with it, for any number of calls and any pools.      *)
THEOREM FreesOnce == Spec => []FreedOnce
PROOF
<1>1. IInv => FreedOnce
  BY DEF IInv, TypeOK, PartsOK, StepsOK, FreedOnce
<1>. QED
  BY <1>1, Invariance, PTL

(* Whatever is allocated will be freed by the call, which has a pointer to *)
(* it, or is with the miniport, whose completion frees it.                 *)
THEOREM NothingLost == Spec => []Owned
PROOF
<1>1. IInv => Owned
  BY DEF IInv, TypeOK, PartsOK, Owned
<1>. QED
  BY <1>1, Invariance, PTL

(* A received frame is filtered at most once and indicated only after it,  *)
(* also when its completion runs before new_ReceiveHandler has returned.   *)
THEOREM IndicatesOnce == Spec => []IndicatedOnce
PROOF
<1>1. IInv => IndicatedOnce
  BY DEF IInv, CountsOK, IndicatedOnce
<1>. QED
  BY <1>1, Invariance, PTL
=============================================================================
