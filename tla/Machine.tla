------------------------------- MODULE Machine -------------------------------
(***************************************************************************)
(* The machine under the drivers of ndis_fw, as far as their loading sees  *)
(* it: calls that fail, and the stop of the system when a driver reads     *)
(* through NULL or frees what it does not have.                            *)
(***************************************************************************)
EXTENDS Naturals, FiniteSets

CONSTANTS
  Faults,     \* the calls that may fail, by name
  MaxFaults   \* bound: so many kinds of them fail in one run

ASSUME MaxFaultsAssumption == MaxFaults \in Nat

VARIABLES crashed, failed   \* the system has stopped; what has failed so far

machine == <<crashed, failed>>

MachineInit == crashed = FALSE /\ failed = {}

(* The call fails. *)
Fails(c) == /\ c \in Faults
            /\ c \in failed \/ Cardinality(failed) < MaxFaults
            /\ failed' = failed \cup {c}

(* The call succeeds, or there is none. *)
Succeeds == UNCHANGED failed

(* The step stops the system if it is wrong. *)
CrashIf(wrong) == crashed' = wrong
=============================================================================
