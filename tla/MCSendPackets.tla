--------------------------- MODULE MCSendPackets ---------------------------
(***************************************************************************)
(* SendPackets for TLC: one of the packets is sent again after it has come *)
(* back, the others once.                                                  *)
(***************************************************************************)
EXTENDS SendPackets

CONSTANT Again

MCMaxSends == [p \in Packets |-> IF p = Again THEN 2 ELSE 1]
=============================================================================
