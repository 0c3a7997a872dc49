---------------------------- MODULE MCDriverLife ----------------------------
(***************************************************************************)
(* An instance of DriverLife for TLC.                                      *)
(***************************************************************************)
EXTENDS DriverLife

MCHookFn == <<"NdisRegisterProtocol", "NdisDeregisterProtocol", "NdisOpenAdapter", "NdisCloseAdapter">>
=============================================================================
