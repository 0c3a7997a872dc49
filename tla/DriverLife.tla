----------------------------- MODULE DriverLife -----------------------------
(***************************************************************************)
(* The life of the two drivers of ndis_fw: ndis_hk is loaded (HookNdis),   *)
(* then ndis_flt (ndis_flt/ndis_flt.c): DriverEntry opens the log          *)
(* (LogQueue), starts the reload thread, connects to ndis_hk, writes a     *)
(* line for each adapter from the registry and attaches the filter;        *)
(* OnUnload, which is also the cleanup of a DriverEntry that fails, takes  *)
(* all that back.                                                          *)
(*                                                                         *)
(* main is the thread that runs DriverEntry and OnUnload.  Packets come    *)
(* and are logged while the filter is attached.  The work of the reload    *)
(* thread is in RuleChain; of the lines of the log only those of packets,  *)
(* the first and the last one are in the model.                            *)
(***************************************************************************)
EXTENDS HookNdis, LogQueue

CONSTANTS
  MaxAdapters,  \* bound: so many adapters are in the list of ndis_hk
  Cards         \* bound: so many keys are under NetworkCards in the registry

ASSUME BoundsAssumption == MaxAdapters \in Nat /\ Cards \in Nat

VARIABLES
  main,          \* where DriverEntry or OnUnload is
  status,        \* status of DriverEntry is STATUS_SUCCESS
  fileobj,       \* g_ndis_hk_fileobj: we hold the device of ndis_hk
  iface,         \* g_ndis_hk is set
  attached,      \* our filter is in the stack of ndis_hk
  rulesInit,     \* filter_init has initialised g_rules
  rulesExit,     \* g_rules.b_exit
  reloader,      \* reload_thread: "none", "runs" or "exited"
  adapters, adapter, card,  \* the list of names, and what log_description is at
  locals,        \* the pointers and handles of the functions that are not NULL
  held           \* what is really allocated or open

rules    == <<rulesInit, rulesExit, reloader>>
link     == <<fileobj, iface, attached>>
listing  == <<adapters, adapter, card, locals, held>>
driver   == <<main, status, rules, link, listing>>
vars     == <<machine, hkVars, logVars, driver>>

Init ==
  /\ MachineInit /\ HkInit /\ LogInit
  /\ main = "load" /\ status = TRUE
  /\ fileobj = FALSE /\ iface = FALSE /\ attached = FALSE
  /\ rulesInit = FALSE /\ rulesExit = FALSE /\ reloader = "none"
  /\ adapters = 0 /\ adapter = 0 /\ card = 0 /\ locals = {} /\ held = {}

At(pc)   == main = pc
Goto(pc) == main' = pc /\ CrashIf(FALSE)

(* A failure that DriverEntry leaves for its cleanup. *)
GiveUp(c) == Fails(c) /\ Goto("report") /\ status' = FALSE

-----------------------------------------------------------------------------
(* DriverEntry. *)
Start ==
  /\ At("load") /\ hk \in {"loaded", "failed"}
  /\ \/ OpenLog /\ Goto("filter") /\ UNCHANGED status
     \/ OpenLogFails /\ Goto("report") /\ status' = FALSE
  /\ UNCHANGED <<hkVars, rules, link, listing>>

(* filter_init: whether the first reload fails makes no difference here. *)
FilterInit ==
  /\ At("filter")
  /\ rulesInit' = TRUE
  /\ \/ Succeeds /\ reloader' = "runs" /\ Goto("connect") /\ UNCHANGED status
     \/ GiveUp("rulethread") /\ UNCHANGED reloader
  /\ UNCHANGED <<hkVars, logVars, rulesExit, link, listing>>

(* IoGetDeviceObjectPointer: the device is there when ndis_hk has loaded.  *)
Connect ==
  /\ At("connect")
  /\ \/ hk = "loaded" /\ Succeeds /\ fileobj' = TRUE /\ Goto("iface") /\ UNCHANGED status
     \/ hk = "failed" /\ Succeeds /\ Goto("report") /\ status' = FALSE /\ UNCHANGED fileobj
     \/ GiveUp("connect") /\ UNCHANGED fileobj
  /\ UNCHANGED <<hkVars, logVars, rules, iface, attached, listing>>

(* get_iface and the dispatch routine of ndis_hk.  DriverEntry goes on     *)
(* when there is no memory for the request.                                *)
GetIface ==
  /\ At("iface")
  /\ \/ Succeeds /\ iface' = TRUE
     \/ Fails("iface") /\ UNCHANGED iface
  /\ Goto("adapters")
  /\ UNCHANGED <<hkVars, logVars, status, rules, fileobj, attached, listing>>

-----------------------------------------------------------------------------
(* get_adapters_list: the size of the list, a buffer for it, and a line in *)
(* the log for each name.  The interface is called whether it is set or    *)
(* not.                                                                    *)
Acquire(r) == locals' = locals \cup {r} /\ held' = held \cup {r}
FreeNow(r) == locals' = locals \ {r} /\ held' = held \ {r}

ListSize ==
  /\ At("adapters")
  /\ main' = "buffer" /\ Succeeds /\ CrashIf(~iface)
  /\ adapters' \in 0..MaxAdapters
  /\ UNCHANGED <<hkVars, logVars, status, rules, link, adapter, card, locals, held>>

ListBuffer ==
  /\ At("buffer")
  /\ \/ adapters = 0 /\ Succeeds /\ Goto("attach") /\ UNCHANGED <<status, adapter, locals, held>>
     \/ adapters > 0 /\ Succeeds /\ Acquire("buf") /\ adapter' = 1 /\ Goto("net") /\ UNCHANGED status
     \/ adapters > 0 /\ GiveUp("buf") /\ UNCHANGED <<adapter, locals, held>>
  /\ UNCHANGED <<hkVars, logVars, rules, link, adapters, card>>

(* A step of log_description: it leaves everything else alone, and a       *)
(* failing call goes to the cleanup at "done".                             *)
Describes == UNCHANGED <<hkVars, logVars, status, rules, link, adapters, adapter>>
Done(c)   == Fails(c) /\ Goto("done")

Obtain(pc, c, r, onward) ==
  /\ At(pc) /\ Describes /\ UNCHANGED card
  /\ \/ Succeeds /\ Acquire(r) /\ Goto(onward)
     \/ Done(c) /\ UNCHANGED <<locals, held>>

OpenNet    == Obtain("net", "key", "net", "basic")
BasicInfo  == Obtain("basic", "memory", "basic", "value")
ValueInfo  == Obtain("value", "memory", "value", "enum")

(* ZwEnumerateKey, again with a new buffer when the first is too small.    *)
(* When there are no more keys the adapter is named by its device.         *)
EnumerateKey ==
  /\ At("enum") /\ Describes
  /\ \/ /\ card < Cards /\ Succeeds /\ card' = card + 1 /\ Goto("path")
        /\ UNCHANGED <<locals, held>>
     \/ card = Cards /\ Succeeds /\ Goto("done") /\ UNCHANGED <<card, locals, held>>
     \/ Done("key") /\ UNCHANGED <<card, locals, held>>
     \/ Done("memory") /\ FreeNow("basic") /\ UNCHANGED card

(* The path of the subkey is freed as soon as the key is open. *)
OpenCard ==
  /\ At("path") /\ Describes /\ UNCHANGED card
  /\ \/ Succeeds /\ Acquire("desc") /\ Goto("service")
     \/ (Done("memory") \/ Done("key")) /\ UNCHANGED <<locals, held>>

(* The value ServiceName: is this card our adapter?  A buffer that is too  *)
(* small is freed and taken anew.                                          *)
Closed_bug == UNCHANGED locals   \* hkey_desc = NULL forgotten
Closed == locals' = locals \ {"desc"}

ServiceName ==
  /\ At("service") /\ Describes /\ UNCHANGED card
  /\ \/ Succeeds /\ Goto("description") /\ UNCHANGED <<locals, held>>
     \/ Succeeds /\ Goto("enum") /\ Closed /\ held' = held \ {"desc"}
     \/ Done("key") /\ UNCHANGED <<locals, held>>
     \/ Done("memory") /\ FreeNow("value")

Description ==
  /\ At("description") /\ Describes /\ UNCHANGED card
  /\ \/ Succeeds /\ Goto("done") /\ UNCHANGED <<locals, held>>
     \/ Done("key") /\ UNCHANGED <<locals, held>>
     \/ Done("memory") /\ FreeNow("value")

(* The cleanup gives back what the locals say, whatever is held. *)
InDescription == {"net", "basic", "value", "desc"}

CleanUp ==
  /\ At("done") /\ Succeeds
  /\ main' = "next" /\ CrashIf(~(locals \subseteq held))
  /\ held' = held \ (locals \cap InDescription) /\ locals' = locals \ InDescription
  /\ card' = 0
  /\ Describes

NextAdapter ==
  /\ At("next") /\ Succeeds /\ CrashIf(FALSE)
  /\ \/ adapter < adapters /\ adapter' = adapter + 1 /\ main' = "net" /\ UNCHANGED <<adapters, locals, held>>
     \/ adapter = adapters /\ main' = "attach" /\ FreeNow("buf") /\ adapters' = 0 /\ adapter' = 0
  /\ UNCHANGED <<hkVars, logVars, status, rules, link, card>>

Describe == \/ OpenNet \/ BasicInfo \/ ValueInfo \/ EnumerateKey \/ OpenCard
            \/ ServiceName \/ Description \/ CleanUp \/ NextAdapter

-----------------------------------------------------------------------------
Attach ==
  /\ At("attach") /\ Succeeds
  /\ attached' = TRUE /\ Goto("report")
  /\ UNCHANGED <<hkVars, logVars, status, rules, fileobj, iface, listing>>

Report ==
  /\ At("report") /\ Succeeds
  /\ Goto(IF status THEN "running" ELSE "detach")
  /\ UNCHANGED <<hkVars, logVars, status, rules, link, listing>>

(* The system unloads the driver. *)
Unload ==
  /\ At("running") /\ Goto("detach") /\ Succeeds
  /\ UNCHANGED <<hkVars, logVars, status, rules, link, listing>>

(* OnUnload.  attach_filter takes the lock that filter_packet holds, so    *)
(* that nobody is in log_str_dispatch when it returns; without the filter  *)
(* in the stack it does nothing.                                           *)
Connected_bug == TRUE        \* does not look whether there is a file object
Connected     == fileobj
NobodyInside  == signal = {}

Detach ==
  /\ At("detach") /\ Succeeds
  /\ iface => NobodyInside
  /\ main' = "rules"
  /\ CrashIf(Connected /\ ~fileobj)
  /\ attached' = (attached /\ ~(Connected /\ iface)) /\ fileobj' = FALSE
  /\ UNCHANGED <<hkVars, logVars, status, rules, iface, listing>>

(* filter_free: when filter_init has not been called the event is only     *)
(* zeros, and to set it may stop the system.                               *)
StopReload ==
  /\ At("rules") /\ Succeeds
  /\ rulesExit' = TRUE /\ main' = "join"
  /\ CrashIf(FALSE) \/ (~rulesInit /\ CrashIf(TRUE))
  /\ UNCHANGED <<hkVars, logVars, status, rulesInit, reloader, link, listing>>

Joined_bug == TRUE           \* does not wait for the reload thread
Joined     == reloader # "runs"

JoinReload ==
  /\ At("join") /\ Joined
  /\ Goto("close") /\ Succeeds
  /\ UNCHANGED <<hkVars, logVars, status, rules, link, listing>>

Close ==
  /\ At("close") /\ CloseLog /\ Succeeds
  /\ main' = IF closer' = "closed" THEN "unloaded" ELSE "close"
  /\ UNCHANGED <<hkVars, status, rules, link, listing>>

Main == \/ Start \/ FilterInit \/ Connect \/ GetIface \/ ListSize \/ ListBuffer \/ Describe
        \/ Attach \/ Report \/ Detach \/ StopReload \/ JoinReload \/ Close

-----------------------------------------------------------------------------
(* The reload thread leaves when it is told. *)
ReloadExit ==
  /\ reloader = "runs" /\ rulesExit
  /\ reloader' = "exited" /\ Succeeds /\ CrashIf(FALSE)
  /\ UNCHANGED <<hkVars, logVars, main, status, rulesInit, rulesExit, link, listing>>

LogThread == Logger /\ Succeeds /\ UNCHANGED <<hkVars, driver>>

(* A packet that a rule with its log bit matches. *)
LogPacket(p) == attached /\ Put(p) /\ Succeeds /\ UNCHANGED <<hkVars, driver>>
LeaveLog(p)  == SetEvent(p) /\ Succeeds /\ UNCHANGED <<hkVars, driver>>

Next == /\ ~crashed
        /\ \/ LoadHk /\ UNCHANGED <<logVars, driver>>
           \/ Main \/ Unload \/ ReloadExit \/ LogThread
           \/ \E p \in Producers : LogPacket(p) \/ LeaveLog(p)

Spec == Init /\ [][Next]_vars

(* The system runs its threads, and a processor leaves log_str_dispatch.   *)
(* Nobody has to log or to unload.                                         *)
Fairness ==
  /\ WF_vars(~crashed /\ LoadHk /\ UNCHANGED <<logVars, driver>>)
  /\ WF_vars(~crashed /\ Main) /\ WF_vars(~crashed /\ ReloadExit) /\ WF_vars(~crashed /\ LogThread)
  /\ \A p \in Producers : WF_vars(~crashed /\ LeaveLog(p))

FairSpec == Spec /\ Fairness

-----------------------------------------------------------------------------
(* A driver that is unloaded, or whose start has failed, leaves nothing:   *)
(* not in the stack of ndis_hk, no thread that runs in its image, no file, *)
(* no memory, no key, and the log ends with its last line.                 *)
LeavesNothing ==
  At("unloaded") /\ ~crashed =>
    /\ ~attached /\ ~fileobj /\ held = {} /\ signal = {}
    /\ reloader # "runs" /\ LoggerGone
    /\ logFile = "none" /\ memory # "allocated"
    /\ file # <<>> => file[Len(file)] = [note |-> "end"]

(* The system stops only after a call has failed whose failure the code    *)
(* does not take into account: open_log and get_iface in ndis_flt, what    *)
(* comes before init_av and the memory of find_system_dll in ndis_hk.  No  *)
(* other failure leads to NULL, to memory that was freed or to a second    *)
(* free, in any order of the threads.                                      *)
CrashNeeds == {"logfile", "ring", "logthread", "iface", "packetpool", "bufferpool", "av", "findmem"}
CrashesOnlyAfter == crashed => failed \cap CrashNeeds # {}

(* A start and an unload that have begun come to an end. *)
Busy == main \notin {"running", "unloaded"}
LifeGoesOn == Busy ~> ~Busy \/ crashed
=============================================================================
