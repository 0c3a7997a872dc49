------------------------------ MODULE HookNdis ------------------------------
(***************************************************************************)
(* The load of ndis_hk (ndis_hk/ndis_hk.c): the pools, the hash of av.c,   *)
(* the control device, and the replacement of the exports of ndis.sys one  *)
(* by one, which is undone when one of them fails.                         *)
(*                                                                         *)
(* An export is where it leads: to NDIS or to the hook.  A write to the    *)
(* table can fail, and nobody looks whether it has (replace_value_safe).   *)
(* The driver has no unload in a free build, so OnUnload is only what      *)
(* DriverEntry calls when it fails.                                        *)
(***************************************************************************)
EXTENDS Machine, Sequences

CONSTANTS
  HookFn,   \* g_hook_fn: the names of the functions, in the order of the loop
  NULL

ASSUME HookFnAssumption == HookFn \in Seq(STRING)
ASSUME NullAssumption   == NULL \notin {"ndis", "hook"}

VARIABLES
  hk,       \* where the load of ndis_hk is
  fn,       \* i of the loop in hook_ndis
  exports,  \* the export table of ndis.sys, for the names of g_hook_fn
  old,      \* what fix_export has returned and is not stored yet
  old_fn,   \* g_hook_fn[i].old_fn
  hash      \* g_av_hash is allocated

hooks  == <<fn, exports, old, old_fn>>
hkVars == <<hk, hooks, hash>>

HookFns == DOMAIN HookFn

HkInit == /\ hk = "pools" /\ fn = 1 /\ old = NULL /\ hash = FALSE
          /\ exports = [i \in HookFns |-> "ndis"]
          /\ old_fn = [i \in HookFns |-> NULL]

(* A call that DriverEntry leaves the block for. *)
Leaves(c) == Fails(c) /\ hk' = "unload" /\ CrashIf(FALSE) /\ UNCHANGED <<hooks, hash>>
Goes(pc)  == hk' = pc /\ Succeeds /\ CrashIf(FALSE)

Pools == /\ hk = "pools"
         /\ \/ Leaves("packetpool") \/ Leaves("bufferpool")
            \/ Goes("av") /\ UNCHANGED <<hooks, hash>>

InitAv == /\ hk = "av"
          /\ \/ Leaves("av")
             \/ Goes("device") /\ hash' = TRUE /\ UNCHANGED hooks

CreateDevice == /\ hk = "device"
                /\ \/ Leaves("device")
                   \/ Goes("find") /\ UNCHANGED <<hooks, hash>>

(* find_system_dll: no module, or no memory for the list of modules, which *)
(* is read through NULL: DriverEntry catches that, OnUnload does not.      *)
Find == /\ hk = "find"
        /\ \/ Leaves("find") \/ Leaves("findmem")
           \/ Goes("hook") /\ fn' = 1 /\ UNCHANGED <<exports, old, old_fn, hash>>

(* replace_value_safe: the value is written or the failure is lost.        *)
Replaced(i, value) ==
  \/ Succeeds /\ exports' = [exports EXCEPT ![i] = value]
  \/ Fails("write") /\ UNCHANGED exports

(* fix_export returns what the table had before, and it is stored after    *)
(* the table has been written.                                             *)
Hook == /\ hk = "hook" /\ fn \in HookFns
        /\ Replaced(fn, "hook")
        /\ old' = exports[fn]
        /\ hk' = "store" /\ CrashIf(FALSE)
        /\ UNCHANGED <<fn, old_fn, hash>>

Store == /\ hk = "store"
         /\ old_fn' = [old_fn EXCEPT ![fn] = old]
         /\ old' = NULL /\ fn' = fn + 1
         /\ Goes("hook") /\ UNCHANGED <<exports, hash>>

(* The table has no such name: hook_ndis calls itself to put the others    *)
(* back and returns an error.                                              *)
NoName == /\ hk = "hook" /\ fn \in HookFns
          /\ Fails("name")
          /\ hk' = "undo" /\ CrashIf(FALSE) /\ UNCHANGED <<hooks, hash>>

Hooked == hk = "hook" /\ fn \notin HookFns /\ Goes("loaded") /\ UNCHANGED <<hooks, hash>>

(* hook_ndis(TRUE), from itself ("undo") or from OnUnload ("unload"). *)
Undoing == [undo |-> "undoing", unload |-> "unloading"]
AfterUndo(pc) == IF pc = "undoing" THEN "unload" ELSE "free"

FindAgain ==
  /\ hk \in DOMAIN Undoing
  /\ \/ /\ Succeeds /\ hk' = Undoing[hk] /\ fn' = 1 /\ CrashIf(FALSE)
     \/ /\ Fails("find") /\ hk' = AfterUndo(Undoing[hk]) /\ CrashIf(FALSE) /\ UNCHANGED fn
     \/ /\ Fails("findmem") /\ hk' = "unload" /\ CrashIf(hk = "unload") /\ UNCHANGED fn
  /\ UNCHANGED <<exports, old, old_fn, hash>>

WasHooked_bug(i) == old_fn[i] # NULL /\ i > 1   \* begins after the first one
WasHooked(i) == old_fn[i] # NULL

Undo ==
  /\ hk \in {"undoing", "unloading"} /\ fn \in HookFns
  /\ IF WasHooked(fn) THEN Replaced(fn, old_fn[fn]) ELSE Succeeds /\ UNCHANGED exports
  /\ fn' = fn + 1 /\ CrashIf(FALSE)
  /\ UNCHANGED <<hk, old, old_fn, hash>>

Undone ==
  /\ hk \in {"undoing", "unloading"} /\ fn \notin HookFns
  /\ Goes(AfterUndo(hk)) /\ UNCHANGED <<hooks, hash>>

(* free_av walks the hash whether init_av has been called or not.  The     *)
(* pools and the device are not given back.                                *)
FreeAv == /\ hk = "free"
          /\ CrashIf(~hash) /\ Succeeds
          /\ hash' = FALSE /\ hk' = "failed" /\ UNCHANGED hooks

LoadHk == \/ Pools \/ InitAv \/ CreateDevice \/ Find \/ Hook \/ Store \/ NoName \/ Hooked
          \/ FindAgain \/ Undo \/ Undone \/ FreeAv

-----------------------------------------------------------------------------
HkTypeOK ==
  /\ hk \in {"pools", "av", "device", "find", "hook", "store", "undo", "undoing",
             "unload", "unloading", "free", "loaded", "failed"}
  /\ fn \in 1..Len(HookFn) + 1 /\ hash \in BOOLEAN
  /\ exports \in [HookFns -> {"ndis", "hook"}]
  /\ old \in {NULL, "ndis", "hook"} /\ old_fn \in [HookFns -> {NULL, "ndis", "hook"}]

(* A load that has failed leaves ndis.sys as it was, unless a write to the *)
(* table, or the search for ndis.sys on the way back, has failed too: the  *)
(* exports must not lead into a driver that the system unloads.            *)
HooksUndone ==
  hk = "failed" /\ {"write", "find"} \cap failed = {} => \A i \in HookFns : exports[i] = "ndis"
=============================================================================
