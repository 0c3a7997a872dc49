----------------------------- MODULE DropOldest -----------------------------
(***************************************************************************)
(* What the asynchronous log of ndis_flt promises: a bounded queue that    *)
(* takes every message at once, loses the oldest one when it is full, and  *)
(* keeps count of what it lost.  Messages are numbered as they come.       *)
(***************************************************************************)
EXTENDS Naturals, Sequences

CONSTANT Capacity   \* at least 1

VARIABLES next,   \* the number of the next message
          queue,  \* accepted, not yet taken
          taken,  \* taken by the logger, in order
          lost    \* how many were lost

qVars == <<next, queue, taken, lost>>

Init == next = 1 /\ queue = <<>> /\ taken = <<>> /\ lost = 0

Put ==
  /\ next' = next + 1
  /\ \/ Len(queue) < Capacity /\ queue' = Append(queue, next) /\ lost' = lost
     \/ Len(queue) = Capacity /\ queue' = Append(Tail(queue), next) /\ lost' = lost + 1
  /\ UNCHANGED taken

Get ==
  /\ queue # <<>>
  /\ taken' = Append(taken, Head(queue))
  /\ queue' = Tail(queue)
  /\ UNCHANGED <<next, lost>>

Spec == Init /\ [][Put \/ Get]_qVars
=============================================================================
