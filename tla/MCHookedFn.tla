----------------------------- MODULE MCHookedFn -----------------------------
(***************************************************************************)
(* HookedFn for TLC: TCP/IP opens two adapters, and a second protocol that *)
(* is hooked opens the first of them too; a third is not hooked.           *)
(***************************************************************************)
EXTENDS HookedFn

MCProtocolOf == [x1 |-> "TCPIP", x2 |-> "TCPIP", y1 |-> "TCPIP_WANARP"]
MCNameOf     == [x1 |-> "nic1", x2 |-> "nic2", y1 |-> "nic1"]
=============================================================================
